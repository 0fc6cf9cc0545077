---------------------------- MODULE MCWriteQueue ----------------------------
(* Instances of WriteQueue for TLC. *)
EXTENDS WriteQueue, TLC

CONSTANTS w1, w2

\* A Put, and a batch whose deletion cuts WriteBatch::Append short.
MCBatches == {<<"val">>, <<"val", "del">>}
MCPuts    == {<<"val">>}
MCSymmetry == Permutations(Writers)
=============================================================================
