---------------------------- MODULE MCWorkerLoop ----------------------------
(***************************************************************************)
(* Small instances of WorkerLoop for TLC.                                  *)
(***************************************************************************)
EXTENDS WorkerLoop, TLC

CONSTANTS i1, i2, n1, n2, k1, k2

\* two items of one instance: retries and handovers
OneIssue == [i \in {i1, i2} |-> n1]

OneItem == [i \in {i1} |-> n1]

TokenSymmetry == Permutations(Token)
=============================================================================
