------------------------------- MODULE MCTable -------------------------------
(* Instances of Table for TLC. *)
EXTENDS Table

MCKeys == <<<<1, 9>>, <<1, 1, 9>>, <<1, 1, 7>>, <<2, 9>>>>
MCHash == [k \in {MCKeys[i] : i \in 1 .. 4} |->
             CASE k = MCKeys[1] -> 513 [] k = MCKeys[2] -> 40961
               [] k = MCKeys[3] -> 7   [] k = MCKeys[4] -> 65535]
MCCompressed(n) == n - n \div 4
=============================================================================
