----------------------------- MODULE MCJobStore -----------------------------
(* Instances of JobStore for TLC.                                          *)
EXTENDS JobStore, TLC

CONSTANTS j1, j2, j3

Two   == {j1, j2}
Three == {j1, j2, j3}
First == {j1}
Second == {j2}
None  == {}

(* Sound where no job has a role of its own (OwnTerminal, Packs and Polled *)
(* are all empty or all of Jobs) and no liveness is checked.               *)
Alike == Permutations(Three)

=============================================================================
