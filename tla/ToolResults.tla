------------------------------ MODULE ToolResults ------------------------------
(***************************************************************************)
(* What becomes of the result of a tool.  The catalog gives each field of  *)
(* the result a classification and a handling; the loader refuses a schema *)
(* that would show sensitive or open text, and _validated_output judges    *)
(* what the tool returned by it: the whole object is accepted and          *)
(* minimised, or the whole object is rejected.                             *)
(*                                                                         *)
(* A string is a value that the constraints of a field (lengths, pattern,  *)
(* enum) admit or not.  Results that are no object, too large or not made  *)
(* of strings are rejected like one with a field the schema does not have. *)
(* The digests of the raw and the minimised result are left out.           *)
(***************************************************************************)

CONSTANTS
  ResultSchema, \* field -> what the catalog says of it
  Returnable,   \* the objects a tool may return: functions from fields to values
  Masked        \* "***MASKED***"

Classifications == {"PUBLIC", "INTERNAL", "PERSONAL", "FINANCIAL", "AUTHENTICATION_SECRET"}
Handlings       == {"RETURN", "MASK", "DROP"}

ResultFields == DOMAIN ResultSchema

\* The rule of the loader, which _validate_output_policy repeats on every result.
ExposureIsSafe(policy) ==
  /\ policy.handling = "RETURN" =>
       policy.closed /\ policy.classification \notin {"PERSONAL", "FINANCIAL"}
  /\ policy.classification = "AUTHENTICATION_SECRET" => policy.handling = "DROP"

\* The schemas that load.  That a field admits any value is not asked.
Loads(schema) ==
  /\ DOMAIN schema # {}
  /\ \A f \in DOMAIN schema :
       /\ schema[f].classification \in Classifications
       /\ schema[f].handling \in Handlings
       /\ ExposureIsSafe(schema[f])

ASSUME SchemaAssumption ==
  /\ Loads(ResultSchema)
  /\ \A f \in ResultFields : ResultSchema[f].required \in BOOLEAN /\ Masked \notin ResultSchema[f].admits

\* The constraints of a field: a pattern that is no regular expression admits nothing.
Admits(f, value) == value \in ResultSchema[f].admits

Accepted(output) ==
  /\ DOMAIN output \subseteq ResultFields
  /\ {f \in ResultFields : ResultSchema[f].required} \subseteq DOMAIN output
  /\ \A f \in ResultFields : ExposureIsSafe(ResultSchema[f])
  /\ \A f \in DOMAIN output : Admits(f, output[f])

\* Faulty variant: what is not dropped is shown.
SafeOutputUnmasked(output) ==
  [f \in {g \in DOMAIN output : ResultSchema[g].handling # "DROP"} |-> output[f]]

SafeOutput(output) ==
  [f \in {g \in DOMAIN output : ResultSchema[g].handling # "DROP"} |->
     IF ResultSchema[f].handling = "RETURN" THEN output[f] ELSE Masked]

\* What one request makes of the output: the classes it met, and what it may show.
Process(output) ==
  [classifications |-> {ResultSchema[f].classification : f \in DOMAIN output},
   safe            |-> SafeOutput(output)]

\* What is recorded of it: no value of any field.
Result == [classifications : SUBSET Classifications, exposed : SUBSET ResultFields]

Metadata(processed) ==
  [classifications |-> processed.classifications, exposed |-> DOMAIN processed.safe]
================================================================================
