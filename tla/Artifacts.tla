----------------------------- MODULE Artifacts -----------------------------
(***************************************************************************)
(* artifact-dependencies.ts: what a revision invalidates.  The signals of  *)
(* a change select artifacts, the artifacts select the evidence to collect *)
(* again and the phases that collect it.  Kinds of evidence that one       *)
(* artifact always asks for together are one kind here.                    *)
(***************************************************************************)
EXTENDS Integers, Sequences

Signal ==
    {"implementation-output", "visual-output", "copy-output", "behavior-output",
     "implementation-correctness", "architecture", "contract", "security",
     "data-model", "product-outcome", "user-flow", "audience-comprehension"}

(* Signals that an incremental revision may not carry.                      *)
MaterialSignal ==
    {"architecture", "contract", "security", "data-model", "product-outcome"}

NoPhase == "no-phase"
NoKind == "no-kind"

(* The artifacts in the order of the graph: the signals each depends on,    *)
(* its kind of evidence and the phase that produces or validates it.        *)
DependencyGraph ==
    << [dependsOn |-> {"product-outcome", "contract", "user-flow"},
        kind |-> NoKind, phase |-> NoPhase],                    \* approved-specification
       [dependsOn |-> {"architecture", "contract", "security", "data-model"},
        kind |-> "architecture", phase |-> "technical-architecture"],
       [dependsOn |-> {"product-outcome", "user-flow", "contract", "security"},
        kind |-> NoKind, phase |-> NoPhase],                    \* qa-mission
       [dependsOn |-> {"architecture", "contract", "security", "data-model"},
        kind |-> "review", phase |-> "technical-reviewer"],
       [dependsOn |-> {"visual-output", "copy-output"},
        kind |-> "visual", phase |-> "qa-engineer"],
       [dependsOn |-> {"behavior-output", "implementation-correctness"},
        kind |-> "targeted", phase |-> "qa-engineer"],
       [dependsOn |-> {"product-outcome", "user-flow", "audience-comprehension"},
        kind |-> "customer", phase |-> "final-customer"],
       [dependsOn |-> {"product-outcome", "user-flow", "contract"},
        kind |-> NoKind, phase |-> NoPhase],                    \* product-owner
       [dependsOn |-> {"implementation-output", "visual-output", "copy-output",
                       "behavior-output", "implementation-correctness"},
        kind |-> NoKind, phase |-> "qa-engineer"] >>            \* acceptance-coverage

Invalidated(signals) ==
    {DependencyGraph[i] : i \in {j \in DOMAIN DependencyGraph :
                                    DependencyGraph[j].dependsOn \cap signals # {}}}

(* The evidence a change asks for again; a targeted validation if it asks   *)
(* for none.                                                                *)
RevalidateKinds(signals) ==
    LET kinds == {a.kind : a \in Invalidated(signals)} \ {NoKind}
    IN  IF kinds = {} THEN {"targeted"} ELSE kinds

(* The phases to pass after the builder: sorted, and then the QA phase at   *)
(* the end if it is not among them.                                         *)
RequiredPhases(signals) ==
    LET phases == {a.phase : a \in Invalidated(signals)}
        Only(p) == IF p \in phases THEN <<p>> ELSE <<>>
    IN  Only("technical-reviewer") \o Only("qa-engineer") \o Only("final-customer")
        \o (IF "qa-engineer" \in phases THEN <<>> ELSE <<"qa-engineer">>)

PhaseOrder == [p \in {"technical-reviewer", "qa-engineer", "final-customer"} |->
                  CASE p = "technical-reviewer" -> 1
                    [] p = "qa-engineer" -> 2
                    [] p = "final-customer" -> 3]

(* The first of the required phases, and the first of them that stands      *)
(* later in the phase order than the phase just over.                       *)
FirstValidationPhase(phases) == phases[1]

NextValidationPhase(phases, after) ==
    LET later == {i \in DOMAIN phases : PhaseOrder[phases[i]] > PhaseOrder[after]}
    IN  IF later = {} THEN "final-approval"
        ELSE phases[CHOOSE i \in later : \A j \in later : i <= j]
=============================================================================
