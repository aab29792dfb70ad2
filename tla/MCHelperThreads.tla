-------------------------- MODULE MCHelperThreads --------------------------
(* Instances of the helper thread pool: each run gives the pool some of the *)
(* kinds of tasks, so that what their handlers share is exercised together. *)
EXTENDS HelperThreads

AnyCancel == SUBSET Builders
\* what cancels the compilation of one script, or of all scripts of a
\* compartment: all builders but one belong to the same one
TwoCompartments ==
    {{b} : b \in Builders} \cup {Builders \ {CHOOSE b \in Builders : TRUE}}
=============================================================================
