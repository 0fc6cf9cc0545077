------------------------------ MODULE MCFlush ------------------------------
(* Instances of Flush for TLC. *)
EXTENDS Flush

MCPut(k) == [key |-> k, del |-> FALSE]
MCDel(k) == [key |-> k, del |-> TRUE]

\* The second write rotates the memtable, the third one has to wait for its flush
\* and rotates again.
MCScript == <<{MCPut(1)}, {MCDel(1)}, {MCPut(2)}>>
MCPuts   == <<{MCPut(1)}, {MCPut(1)}, {MCPut(1)}>>

\* Open found no table, or two.  With a limit of 2 the latter session slows down at
\* once; the former never does, as it has one flush.
MCOpenings == {<<>>, <<{1}, {2}>>}
=============================================================================
