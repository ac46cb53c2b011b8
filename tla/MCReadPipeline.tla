---------------------------- MODULE MCReadPipeline ----------------------------
(***************************************************************************)
(* Values of the read pipeline's constants for TLC.                        *)
(***************************************************************************)
EXTENDS ReadPipeline, TLC

CONSTANTS p1, p2, b1, b2

MCCapacity == [c \in Classes |-> 1 + Cardinality({c} \cap {"protected"})]
MCQueueTimeout == [c \in Classes |-> IF c = "protected" THEN 2 ELSE 1]

Symmetry == Permutations(Protected) \cup Permutations(Background)
=============================================================================
