------------------------------- MODULE MCWal -------------------------------
(* Instances of Wal for TLC: blocks of a few bytes, so that records end before, *)
(* at and beyond the end of a block and leave every possible rest in it.        *)
EXTENDS Wal
=============================================================================
