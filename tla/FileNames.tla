----------------------------- MODULE FileNames -----------------------------
(***************************************************************************)
(* The numbers in file names: MakeFileName prints a number with %06llu and *)
(* ParsefileName reads it back with strtoull in base 0, for which a        *)
(* leading zero means octal.  Logs, tables and temporary files share this; *)
(* the names MANIFEST-... are never parsed (ParsefileName returns false).  *)
(***************************************************************************)
EXTENDS Integers

\* No digit of n is an 8 or a 9.
OctalDigits[n \in Nat] == n = 0 \/ (n % 10 < 8 /\ OctalDigits[n \div 10])

\* The value of the longest prefix of n's digits that is an octal numeral.
OctalPrefix[n \in Nat] ==
  IF n = 0 THEN 0
  ELSE IF OctalDigits[n] THEN 8 * OctalPrefix[n \div 10] + (n % 10)
  ELSE OctalPrefix[n \div 10]

\* Six digits or more leave no room for a leading zero.
ParsedNumber(n) == IF n < 100000 THEN OctalPrefix[n] ELSE n
=============================================================================
