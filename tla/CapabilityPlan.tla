--------------------------- MODULE CapabilityPlan ---------------------------
(***************************************************************************)
(* The capabilities agents publish for one another: small programs over a  *)
(* workspace of named fields, src/lab/capability-registry.ts.              *)
(*                                                                         *)
(* A value is a number or a text, of which only the length is kept.  The   *)
(* syntax of names and ids, and inputs that are no objects, are left out.  *)
(***************************************************************************)
EXTENDS Integers, Sequences, FiniteSets, Folds, Functions, FiniteSetsExt, SequencesExt

CONSTANTS
    MaxPlanSteps,        \* MAX_PLAN_STEPS
    MaxInterfaceFields,  \* MAX_INTERFACE_FIELDS
    MaxTestVectors,      \* MAX_TEST_VECTORS
    MaxConcatLength,     \* MAX_CONCAT_LENGTH
    MaxSafeInteger       \* Number.MAX_SAFE_INTEGER

ASSUME PlanAssumption ==
    /\ MaxPlanSteps \in Nat \ {0} /\ MaxInterfaceFields \in Nat \ {0}
    /\ MaxTestVectors \in Nat \ {0} /\ MaxConcatLength \in Nat
    /\ MaxSafeInteger \in Nat \ {0}

Number(n) == [text |-> FALSE, size |-> n]
Text(length) == [text |-> TRUE, size |-> length]

\* A step reads its fields `from` and writes the field `to`; the value of a
\* literal, and the separator of a concat, is its `value`.
Step(op, from, to, value) == [op |-> op, from |-> from, to |-> to, value |-> value]
None == Number(0)

\* What a plan makes of its input: a workspace, and whether a step threw.
Running(workspace) == [failed |-> FALSE, fields |-> workspace]
Failed == [failed |-> TRUE, fields |-> <<>>]

SumOf(values) == FoldLeft(LAMBDA n, v : n + v.size, 0, values)

\* The value a step writes, when it does not throw.
Written(step, read) ==
    CASE step.op = "copy" -> Head(read)
      [] step.op = "sum" -> Number(SumOf(read))
      [] step.op = "concat" ->
            Text(SumOf(read) + (Len(read) - 1) * step.value.size)
      [] step.op = "literal" -> step.value

\* A field is missing or of the wrong type, or the result is out of range.
StepThrows(step, fields) ==
    LET read == [i \in DOMAIN step.from |-> fields[step.from[i]]]
        present == \A i \in DOMAIN step.from : step.from[i] \in DOMAIN fields
    IN \/ ~present
       \/ step.op = "sum" /\ \E i \in DOMAIN read : read[i].text
       \/ step.op = "sum" /\ (SumOf(read) > MaxSafeInteger \/ SumOf(read) < -MaxSafeInteger)
       \/ step.op = "concat" /\ \E i \in DOMAIN read : ~read[i].text
       \/ step.op = "concat" /\ Written(step, read).size > MaxConcatLength

Take(run, step) ==
    IF run.failed \/ StepThrows(step, run.fields) THEN Failed
    ELSE LET read == [i \in DOMAIN step.from |-> run.fields[step.from[i]]]
             written == step.to :> Written(step, read)
         IN Running(written @@ run.fields)

\* The declared inputs are there, the plan runs, the declared outputs are there.
Execution(publication, input) ==
    LET given == \A i \in DOMAIN publication.inputs : publication.inputs[i] \in DOMAIN input
        end == FoldLeft(Take, Running(input), publication.plan)
        outputs == ToSet(publication.outputs)
    IN IF ~given \/ end.failed \/ ~(outputs \subseteq DOMAIN end.fields) THEN Failed
       ELSE Running(Restrict(end.fields, outputs))

ValidFields(fields) ==
    /\ Len(fields) \in 1 .. MaxInterfaceFields
    /\ Cardinality(ToSet(fields)) = Len(fields)

ValidStep(step) ==
    /\ step.op \in {"copy", "sum", "concat", "literal"}
    /\ step.op \in {"sum", "concat"} => ValidFields(step.from)

\* What an invocation checks again, and a publication once.
WellFormed(publication) ==
    /\ ValidFields(publication.inputs) /\ ValidFields(publication.outputs)
    /\ Len(publication.primitives) \in 1 .. MaxPlanSteps
    /\ ToSet(publication.primitives) = {"execute"}
    /\ Len(publication.plan) = Len(publication.primitives)
    /\ \A i \in DOMAIN publication.plan : ValidStep(publication.plan[i])

\* Every test a publication comes with is one its plan passes.
PassesTests(publication) ==
    /\ Len(publication.tests) \in 1 .. MaxTestVectors
    /\ \A i \in DOMAIN publication.tests :
        LET run == Execution(publication, publication.tests[i].input)
        IN ~run.failed /\ run.fields = publication.tests[i].output

ValidPublication(publication) == WellFormed(publication) /\ PassesTests(publication)

ExecuteCapabilityPlan(publication, input) ==
    IF WellFormed(publication) THEN Execution(publication, input) ELSE Failed
=============================================================================
