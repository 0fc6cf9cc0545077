------------------------------- MODULE MCMerge -------------------------------
(* An instance of Merge for TLC. *)
EXTENDS Merge

\* The first key is a prefix of the second, and the second shares nothing with it but that.
MCUserKey == <<<<1>>, <<1, 1>>>>
MCKeySize == <<1, 2>>
=============================================================================
