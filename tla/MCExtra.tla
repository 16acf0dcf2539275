------------------------------ MODULE MCExtra ------------------------------
(* Small instances of ExtraController for TLC. *)
EXTENDS ExtraController

\* Two specs of an extra that differ in their parameters only.
TwoExtraSpecs == {[version |-> "1", parameters |-> p] : p \in {"p", "q"}}

\* The Specs of the Applications they ask for.
AppSpecs == {deploy(e) : e \in ExtraSpecs}

\* Bound: two changes of the extra, or one change and one fault.
FewEvents == edits + faults <= 2
=============================================================================
