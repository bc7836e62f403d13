-------------------------- MODULE MCBatchPipeline --------------------------
(* A small instance of the batch path for TLC.  The samples have users     *)
(* with several transactions on a date, a tie of categories, dates seven   *)
(* days apart, and partitions the other sample does not have.              *)
EXTENDS BatchPipeline

CONSTANTS u1, u2, c1, c2

Txn(i, u, d, c, a) == [id |-> i, user |-> u, day |-> d, category |-> c, amount |-> a]

MCSamples ==
    {{Txn(1, u1, 1, c1, 1), Txn(2, u1, 1, c2, 3)},
     {Txn(1, u1, 2, c1, 2), Txn(2, u1, 9, c1, 3), Txn(3, u2, 9, c2, 9)}}

(* A table may have as many rows as a sample has pairs of transactions.    *)
MCContents == [rows : 0 .. 16, stats : SUBSET [mean : (0 .. 200) \X (0 .. 16),
                                               min : 0 .. 20, max : 0 .. 20]]
=============================================================================
