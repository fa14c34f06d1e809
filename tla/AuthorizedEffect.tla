--------------------------- MODULE AuthorizedEffect ---------------------------
(***************************************************************************)
(* What the control plane promises of every external effect it governs, a  *)
(* provider execution or a tool action alike, with no request, transaction *)
(* or replica in sight: a job is authorised at most once, a job that is    *)
(* gated only by a ticket issued for it, a ticket authorises one job, the  *)
(* effect of an authorised job is attempted at most once, and only what    *)
(* was attempted is concluded.                                             *)
(***************************************************************************)
CONSTANTS
  Jobs,      \* effects that may be asked for
  Tickets,   \* authority issued outside the system
  Gated,     \* jobs that need a ticket
  Covers,    \* ticket -> the jobs it was issued for
  Nobody     \* no ticket

VARIABLES
  authorised, \* jobs that may take effect
  spentBy,    \* job -> the ticket it was authorised with, or Nobody
  attempted,  \* jobs whose effect was attempted
  outcome     \* job -> what is recorded of it

vars == <<authorised, spentBy, attempted, outcome>>

Init ==
  /\ authorised = {}
  /\ spentBy    = [j \in Jobs |-> Nobody]
  /\ attempted  = {}
  /\ outcome    = [j \in Jobs |-> "open"]

AuthoriseFreely(j) ==
  /\ j \notin Gated /\ j \notin authorised
  /\ outcome[j] = "open"
  /\ authorised' = authorised \cup {j}
  /\ UNCHANGED <<spentBy, attempted, outcome>>

AuthoriseWith(j, t) ==
  /\ j \in Gated /\ j \notin authorised
  /\ outcome[j] = "open"
  /\ j \in Covers[t]
  /\ \A k \in Jobs : spentBy[k] # t
  /\ authorised' = authorised \cup {j}
  /\ spentBy' = [spentBy EXCEPT ![j] = t]
  /\ UNCHANGED <<attempted, outcome>>

Attempt(j) ==
  /\ j \in authorised /\ j \notin attempted
  /\ outcome[j] = "open"
  /\ attempted' = attempted \cup {j}
  /\ UNCHANGED <<authorised, spentBy, outcome>>

Conclude(j) ==
  /\ j \in attempted
  /\ outcome[j] = "open"
  /\ \E o \in {"succeeded", "failed"} : outcome' = [outcome EXCEPT ![j] = o]
  /\ UNCHANGED <<authorised, spentBy, attempted>>

Refuse(j) ==
  /\ j \notin authorised
  /\ outcome[j] = "open"
  /\ outcome' = [outcome EXCEPT ![j] = "refused"]
  /\ UNCHANGED <<authorised, spentBy, attempted>>

Next == \E j \in Jobs :
  \/ AuthoriseFreely(j) \/ (\E t \in Tickets : AuthoriseWith(j, t))
  \/ Attempt(j) \/ Conclude(j) \/ Refuse(j)

Spec == Init /\ [][Next]_vars
=============================================================================
