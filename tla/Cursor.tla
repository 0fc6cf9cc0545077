------------------------------- MODULE Cursor -------------------------------
(***************************************************************************)
(* What the class Iterator promises: a position in a list of entries that  *)
(* does not change, or no position.  An entry is at or after a target as   *)
(* AtOrAfter says.  `call' is the last operation, which ties a step of an  *)
(* implementation to the step it has to implement.                         *)
(***************************************************************************)
EXTENDS Naturals, Sequences

CONSTANTS Targets, AtOrAfter(_, _)
VARIABLES list,   \* the entries, in order
          pos,    \* the index of the entry the cursor is at; 0 when it is not valid
          call    \* the operation that brought it there

Valid == pos # 0

SeekToFirst == /\ call' = <<"SeekToFirst">>
               /\ pos' = IF list = <<>> THEN 0 ELSE 1
SeekToLast  == call' = <<"SeekToLast">> /\ pos' = Len(list)

Seek(target) ==
  LET at == {i \in 1 .. Len(list) : AtOrAfter(list[i], target)}
  IN  /\ call' = <<"Seek", target>>
      /\ pos' = IF at = {} THEN 0 ELSE CHOOSE i \in at : \A j \in at : i <= j

Next == Valid /\ call' = <<"Next">> /\ pos' = IF pos = Len(list) THEN 0 ELSE pos + 1
Prev == Valid /\ call' = <<"Prev">> /\ pos' = pos - 1

Move == /\ list' = list
        /\ \/ SeekToFirst \/ SeekToLast \/ Next \/ Prev
           \/ \E t \in Targets : Seek(t)

\* The cursor is made over some list, and is not yet anywhere in it.
Open == call = <<>> /\ call' = <<"Open">> /\ pos' = 0

Spec == /\ list = <<>> /\ pos = 0 /\ call = <<>>
        /\ [][Open \/ Move]_<<list, pos, call>>
=============================================================================
