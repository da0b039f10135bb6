---------------------------- MODULE MCWorkerPool ----------------------------
(* Instances of WorkerPool for TLC.                                        *)
EXTENDS WorkerPool, TLC

CONSTANTS r1, r2, r3, r4, k1, k2

MCKeyOf == [r \in {r1, r2, r3, r4} |-> IF r = r4 THEN k2 ELSE k1]
MCKeyOf3 == [r \in {r1, r2, r3} |-> IF r \in {r1, r2} THEN k1 ELSE k2]

\* Workers are interchangeable: nothing tells one fresh child from another.
WorkerSymmetry == Permutations(Worker)
=============================================================================
