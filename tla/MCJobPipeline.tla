--------------------------- MODULE MCJobPipeline ---------------------------
(***************************************************************************)
(* Instances of JobPipeline for TLC.                                       *)
(***************************************************************************)
EXTENDS JobPipeline, TLC

CONSTANTS u1, p1, p2, r1, r2, r3, w1, w2, o1

\* Three requests of one user: two race for the same project, the third is for
\* another project of the same user, so that the two meet only in the ledger.
MCUserOf == [r \in Requests |-> u1]
MCProjectOf == [r \in Requests |-> IF r = r3 THEN p2 ELSE p1]
MCPriceOf == [r \in Requests |-> 1]

Rich == [u \in Users |-> 3]
CoversOne == [u \in Users |-> 1]

LoopSymmetry == Permutations(LoopWorkers)
=============================================================================
