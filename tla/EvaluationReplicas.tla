-------------------------- MODULE EvaluationReplicas --------------------------
(***************************************************************************)
(* Processes that evaluate the same operations with the same control pack  *)
(* on the same day.  The obligations of an evaluation are a set that is    *)
(* sorted by type, target and reason before it is digested; obligations    *)
(* that agree in those three and differ in their control objectives or     *)
(* parameters stay in the order in which the set yields them, which        *)
(* follows the hash seed that each process draws when it starts.  What the *)
(* sort decides is left out: only the order within a tie is kept.          *)
(***************************************************************************)
EXTENDS OperationEvaluation, SequencesExt

CONSTANTS
  Replicas, \* processes of the control plane
  Pack,     \* the control pack all of them load
  Policies, \* the policy set the contexts name
  Contexts, \* operations to be evaluated
  Today,    \* the date
  Seeds     \* hash seeds: orders on obligations, as ranks

VARIABLES
  seed,   \* replica -> its seed, as a set of at most one
  digests \* <<context, output digest>> of every evaluation answered

vars == <<seed, digests>>

Init == seed = [p \in Replicas |-> {}] /\ digests = {}

SortKey(o) == <<o.type, o.target, o.reason>>

\* ordered_obligations: each group of ties in the order of the set.
OrderedObligations(obligations, rank) ==
  [key \in {SortKey(o) : o \in obligations} |->
     SetToSortSeq({o \in obligations : SortKey(o) = key},
                  LAMBDA o, q : rank[o] < rank[q])]

\* The payload stands for its digest.
OutputDigest(c, rank) ==
  LET e == Evaluate(Pack, Policies, c, Today)
  IN [e EXCEPT !.obligations = OrderedObligations(e.obligations, rank)]

\* A process starts, or starts again.
Start(p) ==
  /\ \E s \in Seeds : seed' = [seed EXCEPT ![p] = {s}]
  /\ UNCHANGED digests

Answer(p, c) ==
  /\ \E s \in seed[p] : digests' = digests \cup {<<c, OutputDigest(c, s)>>}
  /\ UNCHANGED seed

Next ==
  \/ \E p \in Replicas : Start(p)
  \/ \E p \in Replicas, c \in Contexts : Answer(p, c)

Spec == Init /\ [][Next]_vars

(* What docs/EVAL_STRATEGY.md lists among the decision tests: identical      *)
(* versioned input has the identical decision digest, in whichever process   *)
(* it is evaluated, before and after a restart.  Evaluation and enforcement  *)
(* ids are made of this digest, and approvals are signed for it.             *)
SameInputSameDigest ==
  \A d, e \in digests : d[1] = e[1] => d[2] = e[2]
===============================================================================
