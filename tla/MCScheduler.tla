----------------------------- MODULE MCScheduler -----------------------------
(* Values of the scheduler's constants for TLC.                            *)
EXTENDS Scheduler, TLC

CONSTANTS p1, p2, p3, b1

MCLimit == [c \in Classes |-> IF c = "protected" THEN 2 ELSE 1]
\* One tick is enough to tell a live deadline from a lapsed one.
MCQueueTimeout == [c \in Classes |-> 1]

ProtectedSymmetry == Permutations(Protected)
=============================================================================
