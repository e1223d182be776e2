---------------------------- MODULE MCBookRuns ----------------------------
(* Small instances of BookRuns: a book of three rows rated by two at a     *)
(* time, and a direct batch of one row.                                    *)
EXTENDS BookRuns, TLC

CONSTANTS book, batch, w1, w2, r1

BookAndBatch == book :> 3 @@ batch :> 1
=============================================================================
