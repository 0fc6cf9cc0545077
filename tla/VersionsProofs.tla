--------------------------- MODULE VersionsProofs ---------------------------
(***************************************************************************)
(* Proofs about Versions: what SaveTo and the replay of a manifest compute *)
(* for every number of tables, and that the current version is, in every   *)
(* session, the tables of its edits in order and what its manifest gives   *)
(* back.                                                                   *)
(***************************************************************************)
EXTENDS Versions, NumberLemmas, SequenceTheorems, FiniteSetTheorems

Ordered(s) == \A i, j \in DOMAIN s : i < j => BySmallestKey(s[i], s[j])
Distinct(files) == \A f, g \in files : f.num = g.num => f = g

\* The edits that the program makes: no file is deleted, and new ones are on level 0.
NewFile == [level : {0}, file : FileMate]
Edits == [log : Seq(Nat), next : Seq(Nat), seq : Seq(Nat), deleted : {{}}, new : Seq(NewFile)]
Numbers == {"kLogNumber", "kNextFileNumber", "kLastSequence"}
Field == [tag : Numbers, number : Nat]
         \union [tag : {"kNewFile"}, level : {0}, file : FileMate]

\* The builder of such edits.
Batch(base, files) ==
  [base |-> base, deleted |-> [l \in Levels |-> {}],
   added |-> [l \in Levels |-> IF l = 0 THEN files ELSE {}]]
Reading == [log : Seq(Nat), next : Seq(Nat), seq : Seq(Nat),
            builder : {Batch(NoFiles, files) : files \in SUBSET FileMate}]

\* A version of the files on level 0, in order.
Lists(version, files) ==
  /\ version \in Version
  /\ Range(version[0]) = files /\ Ordered(version[0])
  /\ \A l \in Levels \ {0} : version[l] = <<>>

\* Reading the records back gives the log l, the next file number n and the files.
Gives(records, l, n, files) ==
  /\ records \in Seq(Seq(Field)) /\ records # <<>>
  /\ l \in Nat /\ n \in Nat /\ l < n
  /\ files \in SUBSET FileMate /\ IsFiniteSet(files) /\ Distinct(files)
  /\ \A f \in files : f.num < n
  /\ \E q \in Nat : ReadAll(records) = [log |-> <<l>>, next |-> <<n>>, seq |-> <<q>>,
                                        builder |-> Batch(NoFiles, files)]
-----------------------------------------------------------------------------
\* BySmallestKey is a strict order, total on files with different numbers.
LEMMA FileNumbers ==
  ASSUME NEW f \in FileMate
  PROVE  f.smallest \in Nat /\ f.num \in Nat
BY LevelsAssumption DEF FileMate

LEMMA KeyOrder ==
  ASSUME NEW f \in FileMate, NEW g \in FileMate, NEW h \in FileMate
  PROVE  /\ ~BySmallestKey(f, f)
         /\ ~(BySmallestKey(f, g) /\ BySmallestKey(g, f))
         /\ (BySmallestKey(f, g) /\ BySmallestKey(g, h)) => BySmallestKey(f, h)
         /\ (f.num # g.num) => (BySmallestKey(f, g) \/ BySmallestKey(g, f))
<1>1. /\ f.smallest \in Nat /\ f.num \in Nat /\ g.smallest \in Nat /\ g.num \in Nat
      /\ h.smallest \in Nat /\ h.num \in Nat
  BY FileNumbers
<1> QED BY <1>1 DEF BySmallestKey

LEMMA FirstIsFirst ==
  ASSUME NEW files \in SUBSET FileMate, files # {}, Distinct(files)
  PROVE  /\ First(files) \in files
         /\ \A g \in files \ {First(files)} : BySmallestKey(First(files), g)
<1> DEFINE K == {f.smallest : f \in files}
<1>1. K \subseteq Nat /\ K # {}
  BY LevelsAssumption DEF FileMate
<1>2. PICK k \in K : \A y \in K : k <= y
  BY <1>1, LeastNat
<1> DEFINE M == {f.num : f \in {g \in files : g.smallest = k}}
<1>3. M \subseteq Nat /\ M # {}
  BY <1>2 DEF FileMate
<1>4. PICK n \in M : \A y \in M : n <= y
  BY <1>3, LeastNat
<1>5. PICK f \in files : f.smallest = k /\ f.num = n
  BY <1>4
<1>6. ASSUME NEW g \in files \ {f} PROVE BySmallestKey(f, g)
  <2>1. f.num # g.num /\ f \in FileMate /\ g \in FileMate
    BY <1>5 DEF Distinct
  <2>2. k <= g.smallest
    BY <1>2
  <2>3. g.smallest = k => n <= g.num
    BY <1>4
  <2>4. f.num \in Nat /\ g.num \in Nat /\ f.smallest \in Nat /\ g.smallest \in Nat
    BY <2>1, FileNumbers
  <2> HIDE DEF K, M
  <2> QED BY <1>5, <2>1, <2>2, <2>3, <2>4 DEF BySmallestKey
<1> HIDE DEF K, M
<1>7. \E x \in files : \A g \in files \ {x} : BySmallestKey(x, g)
  BY <1>5, <1>6
<1> QED BY <1>7, Zenon DEF First

\* Two sequences in order with the same files are the same.
LEMMA OrderUnique ==
  ASSUME NEW s \in Seq(FileMate), NEW t \in Seq(FileMate), Ordered(s), Ordered(t),
         Range(s) = Range(t)
  PROVE  s = t
<1>1. /\ \A i \in DOMAIN s : \E j \in DOMAIN t : t[j] = s[i]
      /\ \A i \in DOMAIN t : \E j \in DOMAIN s : s[j] = t[i]
  BY DEF Range
<1>2. /\ Len(s) \in Nat /\ DOMAIN s = 1..Len(s) /\ Len(t) \in Nat /\ DOMAIN t = 1..Len(t)
      /\ (\A i \in 1..Len(s) : s[i] \in FileMate) /\ \A i \in 1..Len(t) : t[i] \in FileMate
  OBVIOUS
<1>3. /\ \A i, j \in 1..Len(s) : i < j => s[i] # s[j]
      /\ \A i, j \in 1..Len(t) : i < j => t[i] # t[j]
  BY <1>2, KeyOrder DEF Ordered
<1> DEFINE T == {i \in Nat : i \in 1..Len(s) /\ i \in 1..Len(t) /\ s[i] # t[i]}
<1>4. T = {}
  <2> SUFFICES ASSUME T # {} PROVE FALSE
    OBVIOUS
  <2>1. T \subseteq Nat
    OBVIOUS
  <2>2. PICK m \in T : \A y \in T : m <= y
    BY <2>1, LeastNat
  <2>3. m \in 1..Len(s) /\ m \in 1..Len(t) /\ s[m] # t[m]
    BY <2>2
  <2>4. \A i \in 1..(m - 1) : i \in 1..Len(s) /\ i \in 1..Len(t) /\ s[i] = t[i]
    <3> SUFFICES ASSUME NEW i \in 1..(m - 1), s[i] # t[i] PROVE FALSE
      BY <1>2, <2>3
    <3>1. i \in T /\ ~(m <= i)
      BY <1>2, <2>3
    <3> HIDE DEF T
    <3> QED BY <2>2, <3>1
  <2> HIDE DEF T
  <2>5. PICK j \in 1..Len(t) : t[j] = s[m]
    BY <1>1, <1>2, <2>3
  <2>6. PICK k \in 1..Len(s) : s[k] = t[m]
    BY <1>1, <1>2, <2>3
  <2>7. m < j
    <3> SUFFICES ASSUME j < m PROVE FALSE
      BY <1>2, <2>3, <2>5
    <3>1. j \in 1..(m - 1) /\ j \in 1..Len(s)
      BY <1>2, <2>3, <2>5
    <3>2. s[j] = s[m]
      BY <2>4, <2>5, <3>1
    <3> QED BY <1>3, <2>3, <3>1, <3>2
  <2>8. m < k
    <3> SUFFICES ASSUME k < m PROVE FALSE
      BY <1>2, <2>3, <2>6
    <3>1. k \in 1..(m - 1) /\ k \in 1..Len(t)
      BY <1>2, <2>3, <2>6
    <3>2. t[k] = t[m]
      BY <2>4, <2>6, <3>1
    <3> QED BY <1>3, <2>3, <3>1, <3>2
  <2>9. BySmallestKey(s[m], s[k]) /\ BySmallestKey(t[m], t[j])
    BY <1>2, <2>3, <2>5, <2>6, <2>7, <2>8 DEF Ordered
  <2>10. s[m] \in FileMate /\ t[m] \in FileMate
    BY <1>2, <2>3
  <2> QED BY <2>5, <2>6, <2>9, <2>10, KeyOrder
<1>5. \A i \in 1..Len(s) : i \in 1..Len(t) => s[i] = t[i]
  BY <1>2, <1>4
<1> HIDE DEF T
<1>6. ~(Len(s) < Len(t))
  <2> SUFFICES ASSUME Len(s) < Len(t) PROVE FALSE
    OBVIOUS
  <2>1. Len(s) + 1 \in 1..Len(t)
    BY <1>2
  <2>2. PICK j \in 1..Len(s) : s[j] = t[Len(s) + 1]
    BY <1>1, <1>2, <2>1
  <2>3. j \in 1..Len(t) /\ j < Len(s) + 1
    BY <1>2, <2>2
  <2>4. t[j] = t[Len(s) + 1]
    BY <1>5, <2>2, <2>3
  <2> QED BY <1>3, <2>1, <2>3, <2>4
<1>7. ~(Len(t) < Len(s))
  <2> SUFFICES ASSUME Len(t) < Len(s) PROVE FALSE
    OBVIOUS
  <2>1. Len(t) + 1 \in 1..Len(s)
    BY <1>2
  <2>2. PICK j \in 1..Len(t) : t[j] = s[Len(t) + 1]
    BY <1>1, <1>2, <2>1
  <2>3. j \in 1..Len(s) /\ j < Len(t) + 1
    BY <1>2, <2>2
  <2>4. s[j] = s[Len(t) + 1]
    BY <1>5, <2>2, <2>3
  <2> QED BY <1>3, <2>1, <2>3, <2>4
<1>8. Len(s) = Len(t)
  <2>1. \A a, b \in Nat : ~(a < b) /\ ~(b < a) => a = b
    OBVIOUS
  <2> QED BY <1>2, <1>6, <1>7, <2>1, Zenon
<1> QED BY <1>2, <1>5, <1>8, SeqEqual
-----------------------------------------------------------------------------
\* A state of SaveTo's loop over one level, when `files' are to be saved: what is out
\* is in order and before everything that is left.
Saving(files) ==
  {s \in [out : Seq(FileMate), base : Seq(FileMate), added : SUBSET FileMate] :
    /\ Ordered(s.out) /\ Ordered(s.base)
    /\ Range(s.out) \union Range(s.base) \union s.added = files
    /\ Range(s.base) \cap s.added = {}
    /\ \A x \in Range(s.out) : \A y \in Range(s.base) \union s.added : BySmallestKey(x, y)}

LEMMA AppendOrdered ==
  ASSUME NEW s \in Seq(FileMate), Ordered(s), NEW f \in FileMate,
         \A x \in Range(s) : BySmallestKey(x, f)
  PROVE  /\ Append(s, f) \in Seq(FileMate) /\ Ordered(Append(s, f))
         /\ Range(Append(s, f)) = Range(s) \union {f}
<1>1. PICK t : t = Append(s, f)
  OBVIOUS
<1>2. /\ t \in Seq(FileMate) /\ Len(t) = Len(s) + 1 /\ t[Len(s) + 1] = f
      /\ \A i \in 1..Len(s) : t[i] = s[i]
  BY <1>1, AppendProperties
<1>3. Len(s) \in Nat /\ DOMAIN s = 1..Len(s) /\ DOMAIN t = 1..(Len(s) + 1)
  BY <1>2
<1>4. \A i \in 1..Len(s) : BySmallestKey(s[i], f)
  BY <1>3 DEF Range
<1>5. ASSUME NEW i \in 1..(Len(s) + 1), NEW j \in 1..(Len(s) + 1), i < j
      PROVE  BySmallestKey(t[i], t[j])
  <2>1. i \in 1..Len(s) /\ (j \in 1..Len(s) \/ j = Len(s) + 1)
    BY <1>3, <1>5
  <2>2. CASE j \in 1..Len(s)
    BY <1>2, <1>3, <1>5, <2>1, <2>2 DEF Ordered
  <2>3. CASE j = Len(s) + 1
    BY <1>2, <1>4, <2>1, <2>3
  <2> QED BY <2>1, <2>2, <2>3
<1>6. Ordered(t)
  BY <1>3, <1>5 DEF Ordered
<1>7. Range(t) = Range(s) \union {f}
  <2>1. 1..(Len(s) + 1) = (1..Len(s)) \union {Len(s) + 1}
    BY <1>3
  <2> QED BY <1>2, <1>3, <2>1 DEF Range
<1> QED BY <1>1, <1>2, <1>6, <1>7

LEMMA TailOrdered ==
  ASSUME NEW s \in Seq(FileMate), s # <<>>, Ordered(s)
  PROVE  /\ Head(s) \in FileMate /\ Tail(s) \in Seq(FileMate) /\ Ordered(Tail(s))
         /\ Len(Tail(s)) = Len(s) - 1
         /\ Range(s) = Range(Tail(s)) \union {Head(s)}
         /\ \A x \in Range(Tail(s)) : BySmallestKey(Head(s), x)
<1>1. PICK t, n : t = Tail(s) /\ n = Len(s)
  OBVIOUS
<1>2. /\ n \in Nat \ {0} /\ DOMAIN s = 1..n /\ t \in Seq(FileMate) /\ Len(t) = n - 1
      /\ \A i \in 1..(n - 1) : t[i] = s[i + 1]
      /\ Head(s) = s[1] /\ s[1] \in FileMate
  BY <1>1
<1>3. DOMAIN t = 1..(n - 1)
  BY <1>2
<1>4. Ordered(t)
  <2>1. ASSUME NEW i \in 1..(n - 1), NEW j \in 1..(n - 1), i < j
        PROVE  BySmallestKey(t[i], t[j])
    <3>1. i + 1 \in 1..n /\ j + 1 \in 1..n /\ i + 1 < j + 1
      BY <1>2, <2>1
    <3>2. BySmallestKey(s[i + 1], s[j + 1])
      BY <1>2, <3>1 DEF Ordered
    <3> QED BY <1>2, <3>2
  <2> QED BY <1>3, <2>1 DEF Ordered
<1>6. Range(s) = Range(t) \union {s[1]}
  <2>1. ASSUME NEW x \in Range(s) PROVE x \in Range(t) \union {s[1]}
    <3>1. PICK i \in 1..n : x = s[i]
      BY <1>2 DEF Range
    <3>2. i = 1 \/ (i - 1 \in 1..(n - 1) /\ t[i - 1] = s[i])
      BY <1>2, <3>1
    <3> QED BY <1>3, <3>1, <3>2 DEF Range
  <2>2. ASSUME NEW x \in Range(t) PROVE x \in Range(s)
    <3>1. PICK i \in 1..(n - 1) : x = t[i]
      BY <1>3 DEF Range
    <3>2. i + 1 \in 1..n /\ x = s[i + 1]
      BY <1>2, <3>1
    <3> QED BY <1>2, <3>2 DEF Range
  <2>3. s[1] \in Range(s)
    <3>1. 1 \in 1..n
      BY <1>2
    <3> QED BY <1>2, <3>1 DEF Range
  <2> QED BY <2>1, <2>2, <2>3
<1>7. ASSUME NEW x \in Range(t) PROVE BySmallestKey(s[1], x)
  <2>1. PICK i \in 1..(n - 1) : x = s[i + 1]
    BY <1>2, <1>3 DEF Range
  <2>2. 1 \in 1..n /\ i + 1 \in 1..n /\ 1 < i + 1
    BY <1>2, <2>1
  <2> QED BY <1>2, <2>1, <2>2 DEF Ordered
<1> QED BY <1>1, <1>2, <1>4, <1>6, <1>7

\* Files left in SaveTo's loop.
Left(s) == Len(s.base) + Cardinality(s.added)

\* One file more is out.
LEMMA TakeNextSaves ==
  ASSUME NEW files \in SUBSET FileMate, IsFiniteSet(files), Distinct(files),
         NEW s \in Saving(files), s.base # <<>> \/ s.added # {}
  PROVE  /\ TakeNext(s, {}) \in Saving(files)
         /\ Left(s) \in Nat /\ Left(TakeNext(s, {})) = Left(s) - 1
<1>1. PICK out, base, added : out = s.out /\ base = s.base /\ added = s.added
  OBVIOUS
<1>2. /\ s = [out |-> out, base |-> base, added |-> added]
      /\ out \in Seq(FileMate) /\ base \in Seq(FileMate) /\ added \in SUBSET FileMate
      /\ Ordered(out) /\ Ordered(base)
      /\ Range(out) \union Range(base) \union added = files
      /\ Range(base) \cap added = {}
      /\ \A x \in Range(out) : \A y \in Range(base) \union added : BySmallestKey(x, y)
  BY <1>1 DEF Saving
<1>3. IsFiniteSet(added) /\ Distinct(added) /\ Cardinality(added) \in Nat
  <2>1. added \subseteq files
    BY <1>2
  <2>2. IsFiniteSet(added)
    BY <2>1, FS_Subset
  <2>3. Distinct(added)
    BY <2>1 DEF Distinct
  <2> QED BY <2>2, <2>3, FS_CardinalityType
<1>4. Len(base) \in Nat
  BY <1>2
<1>5. ASSUME added # {}
      PROVE  /\ First(added) \in added /\ First(added) \in FileMate
             /\ \A g \in added \ {First(added)} : BySmallestKey(First(added), g)
  BY <1>2, <1>3, <1>5, FirstIsFirst
<1>6. \A x \in Range(base) : \A y \in added :
        x \in FileMate /\ y \in FileMate /\ (BySmallestKey(x, y) \/ BySmallestKey(y, x))
  <2> SUFFICES ASSUME NEW x \in Range(base), NEW y \in added
               PROVE  x \in FileMate /\ y \in FileMate /\ (BySmallestKey(x, y) \/ BySmallestKey(y, x))
    OBVIOUS
  <2>1. x \in files /\ y \in files /\ x # y
    BY <1>2
  <2>2. x.num # y.num /\ x \in FileMate /\ y \in FileMate
    BY <2>1 DEF Distinct
  <2> QED BY <2>2, KeyOrder
<1>7. CASE BaseNext(s)
  <2>1. /\ base # <<>>
        /\ added # {} => ~BySmallestKey(First(added), Head(base))
    BY <1>1, <1>7 DEF BaseNext
  <2>2. PICK h, t : h = Head(base) /\ t = Tail(base)
    OBVIOUS
  <2>3. /\ h \in FileMate /\ t \in Seq(FileMate) /\ Ordered(t) /\ Len(t) = Len(base) - 1
        /\ Range(base) = Range(t) \union {h}
        /\ \A x \in Range(t) : BySmallestKey(h, x)
    BY <1>2, <2>1, <2>2, TailOrdered
  <2>4. PICK o : o = Append(out, h)
    OBVIOUS
  <2>5. \A x \in Range(out) : BySmallestKey(x, h)
    BY <1>2, <2>3
  <2>6. o \in Seq(FileMate) /\ Ordered(o) /\ Range(o) = Range(out) \union {h}
    BY <1>2, <2>3, <2>4, <2>5, AppendOrdered
  <2>7. \A y \in added : BySmallestKey(h, y)
    <3> SUFFICES ASSUME NEW y \in added PROVE BySmallestKey(h, y)
      OBVIOUS
    <3>1. h \in Range(base) /\ First(added) \in added
      BY <1>5, <2>3
    <3>2. BySmallestKey(h, First(added)) /\ First(added) \in FileMate /\ y \in FileMate
      BY <1>2, <1>6, <2>1, <2>2, <3>1
    <3>3. y = First(added) \/ BySmallestKey(First(added), y)
      BY <1>5
    <3> QED BY <2>3, <3>2, <3>3, KeyOrder
  <2>8. TakeNext(s, {}) = [out |-> o, base |-> t, added |-> added]
    <3>1. MaybeAddFile(out, {}, h) = o
      BY <2>4 DEF MaybeAddFile
    <3> QED BY <1>2, <1>7, <2>2, <3>1 DEF TakeNext
  <2>9. PICK r : r = [out |-> o, base |-> t, added |-> added]
    OBVIOUS
  <2>10. /\ r \in [out : Seq(FileMate), base : Seq(FileMate), added : SUBSET FileMate]
         /\ r.out = o /\ r.base = t /\ r.added = added
    BY <1>2, <2>3, <2>6, <2>9
  <2>11. Range(o) \union Range(t) \union added = files /\ Range(t) \cap added = {}
    BY <1>2, <2>3, <2>6
  <2>12. \A x \in Range(o) : \A y \in Range(t) \union added : BySmallestKey(x, y)
    BY <1>2, <2>3, <2>6, <2>7
  <2>13. r \in Saving(files)
    BY <2>3, <2>6, <2>10, <2>11, <2>12 DEF Saving
  <2>14. Left(r) = Left(s) - 1 /\ Left(s) \in Nat
    <3>1. Left(s) = Len(base) + Cardinality(added) /\ Left(r) = Len(t) + Cardinality(added)
      BY <1>1, <2>10 DEF Left
    <3> QED BY <1>3, <1>4, <2>3, <3>1
  <2> QED BY <2>8, <2>9, <2>13, <2>14
<1>8. CASE ~BaseNext(s)
  <2>1. /\ added # {}
        /\ base # <<>> => BySmallestKey(First(added), Head(base))
    BY <1>1, <1>8 DEF BaseNext
  <2>2. PICK h, t : h = First(added) /\ t = added \ {h}
    OBVIOUS
  <2>3. h \in added /\ h \in FileMate /\ \A g \in t : BySmallestKey(h, g)
    BY <1>5, <2>1, <2>2
  <2>4. PICK o : o = Append(out, h)
    OBVIOUS
  <2>5. \A x \in Range(out) : BySmallestKey(x, h)
    BY <1>2, <2>3
  <2>6. o \in Seq(FileMate) /\ Ordered(o) /\ Range(o) = Range(out) \union {h}
    BY <1>2, <2>3, <2>4, <2>5, AppendOrdered
  <2>7. \A y \in Range(base) : BySmallestKey(h, y)
    <3> SUFFICES ASSUME NEW y \in Range(base) PROVE BySmallestKey(h, y)
      OBVIOUS
    <3>1. base # <<>>
      <4> SUFFICES ASSUME base = <<>> PROVE FALSE
        OBVIOUS
      <4>1. Range(base) = {}
        <5>1. DOMAIN base = {}
          OBVIOUS
        <5> QED BY <5>1 DEF Range
      <4> QED BY <4>1
    <3>2. /\ Head(base) \in FileMate
          /\ Range(base) = Range(Tail(base)) \union {Head(base)}
          /\ \A x \in Range(Tail(base)) : BySmallestKey(Head(base), x)
      BY <1>2, <3>1, TailOrdered
    <3>3. BySmallestKey(h, Head(base)) /\ y \in FileMate
      BY <1>6, <2>1, <2>2, <2>3, <3>1
    <3> QED BY <2>3, <3>2, <3>3, KeyOrder
  <2>8. TakeNext(s, {}) = [out |-> o, base |-> base, added |-> t]
    <3>1. MaybeAddFile(out, {}, h) = o
      BY <2>4 DEF MaybeAddFile
    <3> QED BY <1>2, <1>8, <2>2, <3>1 DEF TakeNext
  <2>9. PICK r : r = [out |-> o, base |-> base, added |-> t]
    OBVIOUS
  <2>10. /\ r \in [out : Seq(FileMate), base : Seq(FileMate), added : SUBSET FileMate]
         /\ r.out = o /\ r.base = base /\ r.added = t
    <3>1. t \in SUBSET FileMate
      BY <1>2, <2>2
    <3> QED BY <1>2, <2>6, <2>9, <3>1
  <2>11. Range(o) \union Range(base) \union t = files /\ Range(base) \cap t = {}
    BY <1>2, <2>2, <2>3, <2>6
  <2>12. \A x \in Range(o) : \A y \in Range(base) \union t : BySmallestKey(x, y)
    BY <1>2, <2>2, <2>3, <2>6, <2>7
  <2>13. r \in Saving(files)
    BY <1>2, <2>6, <2>10, <2>11, <2>12 DEF Saving
  <2>14. Cardinality(t) = Cardinality(added) - 1
    BY <1>3, <2>2, <2>3, FS_RemoveElement
  <2>15. Left(r) = Left(s) - 1 /\ Left(s) \in Nat
    <3>1. Left(s) = Len(base) + Cardinality(added) /\ Left(r) = Len(base) + Cardinality(t)
      BY <1>1, <2>10 DEF Left
    <3> QED BY <1>3, <1>4, <2>14, <3>1
  <2> QED BY <2>8, <2>9, <2>13, <2>15
<1> QED BY <1>7, <1>8

\* SaveTo on one level: all files, in order.
LEMMA SaveLevelSaves ==
  ASSUME NEW base \in Seq(FileMate), Ordered(base), NEW added \in SUBSET FileMate,
         NEW files, files = Range(base) \union added,
         IsFiniteSet(files), Distinct(files), Range(base) \cap added = {}
  PROVE  /\ SaveLevel(base, added, {}) \in Seq(FileMate)
         /\ Ordered(SaveLevel(base, added, {}))
         /\ Range(SaveLevel(base, added, {})) = files
<1> DEFINE n == Len(base) + Cardinality(added)
           s0 == [out |-> <<>>, base |-> base, added |-> added]
<1>1. files \in SUBSET FileMate
  BY DEF Range
<1>2. IsFiniteSet(added) /\ n \in Nat
  <2>1. added \in SUBSET files
    OBVIOUS
  <2>2. IsFiniteSet(added)
    BY <2>1, FS_Subset
  <2>3. Cardinality(added) \in Nat
    BY <2>2, FS_CardinalityType
  <2> QED BY <2>2, <2>3
<1>3. s0 \in Saving(files) /\ Left(s0) = n
  <2>1. <<>> \in Seq(FileMate) /\ DOMAIN <<>> = {}
    OBVIOUS
  <2>2. Ordered(<<>>) /\ Range(<<>>) = {}
    BY <2>1 DEF Ordered, Range
  <2>3. /\ s0 \in [out : Seq(FileMate), base : Seq(FileMate), added : SUBSET FileMate]
        /\ s0.out = <<>> /\ s0.base = base /\ s0.added = added
    BY <2>1
  <2> HIDE DEF s0
  <2>4. s0 \in Saving(files)
    BY <2>2, <2>3 DEF Saving
  <2> QED BY <2>3, <2>4 DEF Left
<1>4. SaveLevel(base, added, {})
        = (CHOOSE f : f = [i \in 0..n |-> IF i = 0 THEN s0 ELSE TakeNext(f[i - 1], {})])[n].out
  BY DEF SaveLevel
<1> HIDE DEF n, s0
<1> DEFINE S == Saving(files)
           Done(s) == s.base = <<>> /\ s.added = {}
           g == [x \in Nat \X S |-> IF Done(x[2]) THEN x[2] ELSE TakeNext(x[2], {})]
<1>5. g \in [Nat \X S -> S] /\ \A i \in Nat : \A s \in S : ~Done(s) => g[<<i, s>>] = TakeNext(s, {})
  <2>1. \A s \in S : ~Done(s) => TakeNext(s, {}) \in S
    BY <1>1, TakeNextSaves
  <2> HIDE DEF S, Done
  <2> QED BY <2>1
<1>6. \A s \in S : ~Done(s) => Left(s) \in Nat /\ Left(TakeNext(s, {})) = Left(s) - 1
  BY <1>1, TakeNextSaves
<1>7. \A s \in S : Done(s) => Left(s) = 0
  <2>1. Len(<<>>) = 0
    OBVIOUS
  <2> QED BY <2>1, FS_EmptySet DEF Left
<1>8. \A s \in S : Left(s) = 0 => Done(s)
  <2> SUFFICES ASSUME NEW s \in S, Left(s) = 0 PROVE Done(s)
    OBVIOUS
  <2>1. s.added \in SUBSET files /\ s.base \in Seq(FileMate)
    BY DEF Saving
  <2>2. IsFiniteSet(s.added)
    BY <2>1, FS_Subset
  <2>3. Cardinality(s.added) \in Nat /\ Len(s.base) \in Nat
    BY <2>1, <2>2, FS_CardinalityType
  <2>4. Cardinality(s.added) = 0 /\ Len(s.base) = 0
    BY <2>3 DEF Left
  <2>5. s.added = {}
    BY <2>2, <2>4, FS_EmptySet
  <2>6. s.base = <<>>
    BY <2>1, <2>4
  <2> QED BY <2>5, <2>6
<1> HIDE DEF S, Done, g
<1>9. PICK f \in [0..n -> S] : CountsTo(f, n, s0, g)
  BY <1>2, <1>3, <1>5, RecursionUp DEF S
<1>10. \A i \in 0..n : f[i] = IF i = 0 THEN s0 ELSE g[<<i, f[i - 1]>>]
  BY <1>9, Zenon DEF CountsTo
<1> DEFINE T == {i \in 0..n : Left(f[i]) = n - i}
<1>11. ASSUME NEW i \in 1..n, i - 1 \in T
       PROVE  i \in T /\ f[i] = TakeNext(f[i - 1], {})
  <2>1. i - 1 \in 0..n /\ i \in 0..n /\ i \in Nat /\ i # 0 /\ f[i - 1] \in S
    BY <1>2, <1>9
  <2>2. Left(f[i - 1]) = n - (i - 1) /\ n - (i - 1) # 0
    BY <1>2, <1>11
  <2>3. ~Done(f[i - 1])
    BY <1>7, <2>1, <2>2
  <2>4. f[i] = TakeNext(f[i - 1], {})
    BY <1>5, <1>10, <2>1, <2>3
  <2>5. Left(f[i]) = n - i
    <3>1. Left(f[i]) = Left(f[i - 1]) - 1
      BY <1>6, <2>1, <2>3, <2>4
    <3> QED BY <1>2, <2>1, <2>2, <3>1
  <2> QED BY <2>1, <2>4, <2>5
<1>12. 0 \in T
  BY <1>2, <1>3, <1>10
<1>13. \A i \in 0..n : i \in T
  <2>1. \A i \in 1..n : i - 1 \in T => i \in T
    BY <1>11
  <2> HIDE DEF T
  <2> QED BY <1>2, <1>12, <2>1, CountUp
<1>14. f[0] = s0 /\ \A i \in 1..n : f[i] = TakeNext(f[i - 1], {})
  <2>1. \A i \in 1..n : i - 1 \in 0..n
    BY <1>2
  <2>2. f[0] = s0
    BY <1>2, <1>10
  <2> HIDE DEF T
  <2>3. \A i \in 1..n : f[i] = TakeNext(f[i - 1], {})
    BY <1>11, <1>13, <2>1, Zenon
  <2> QED BY <2>2, <2>3
<1>15. PICK h : h = CHOOSE f_1 : f_1 = [i \in 0..n |-> IF i = 0 THEN s0 ELSE TakeNext(f_1[i - 1], {})]
  OBVIOUS
<1>16. f = [i \in 0..n |-> IF i = 0 THEN s0 ELSE TakeNext(f[i - 1], {})]
  <2>1. f = [i \in 0..n |-> f[i]]
    BY <1>9
  <2>2. ASSUME NEW i \in 0..n PROVE f[i] = IF i = 0 THEN s0 ELSE TakeNext(f[i - 1], {})
    <3>1. i = 0 \/ i \in 1..n
      BY <1>2
    <3> QED BY <1>14, <3>1
  <2> HIDE DEF T
  <2> QED BY <2>1, <2>2, Zenon
<1>17. h = [i \in 0..n |-> IF i = 0 THEN s0 ELSE TakeNext(h[i - 1], {})]
  BY <1>15, <1>16, Zenon
<1>18. \A i \in 0..n : h[i] = IF i = 0 THEN s0 ELSE TakeNext(h[i - 1], {})
  BY <1>17, Zenon
<1>19. h[n] = f[n]
  <2> DEFINE U == {i \in 0..n : h[i] = f[i]}
  <2>1. 0 \in U
    BY <1>2, <1>14, <1>18
  <2>2. \A i \in 1..n : i - 1 \in U => i \in U
    <3> SUFFICES ASSUME NEW i \in 1..n, i - 1 \in U PROVE i \in U
      OBVIOUS
    <3>1. i \in 0..n /\ i # 0 /\ h[i - 1] = f[i - 1]
      BY <1>2
    <3>2. h[i] = TakeNext(h[i - 1], {})
      BY <1>18, <3>1
    <3>3. f[i] = TakeNext(f[i - 1], {})
      BY <1>14
    <3> QED BY <3>1, <3>2, <3>3
  <2> HIDE DEF U
  <2>3. n \in U
    <3>1. \A i \in 0..n : i \in U
      BY <1>2, <2>1, <2>2, CountUp
    <3>2. n \in 0..n
      BY <1>2
    <3> QED BY <3>1, <3>2
  <2> QED BY <2>3 DEF U
<1>20. SaveLevel(base, added, {}) = f[n].out
  BY <1>4, <1>15, <1>19
<1>21. f[n] \in S /\ Done(f[n])
  <2>1. n \in 0..n /\ n - n = 0
    BY <1>2
  <2>2. f[n] \in S /\ Left(f[n]) = 0
    BY <1>9, <1>13, <2>1
  <2> QED BY <1>8, <2>2
<1>22. /\ f[n].out \in Seq(FileMate) /\ Ordered(f[n].out)
       /\ Range(f[n].out) \union Range(f[n].base) \union f[n].added = files
       /\ f[n].base = <<>> /\ f[n].added = {}
  BY <1>21 DEF S, Saving, Done
<1>23. Range(<<>>) = {}
  <2>1. DOMAIN <<>> = {}
    OBVIOUS
  <2> QED BY <2>1 DEF Range
<1> QED BY <1>20, <1>22, <1>23
-----------------------------------------------------------------------------
LEMMA NewAtType ==
  ASSUME NEW e \in Edits
  PROVE  /\ NewAt(e, 0) \in SUBSET FileMate /\ IsFiniteSet(NewAt(e, 0))
         /\ NewAt(e, 0) = {e.new[i].file : i \in 1..Len(e.new)}
         /\ \A l \in Levels \ {0} : NewAt(e, l) = {}
<1>1. /\ e.new \in Seq(NewFile) /\ Len(e.new) \in Nat /\ DOMAIN e.new = 1..Len(e.new)
      /\ \A i \in 1..Len(e.new) : e.new[i].level = 0 /\ e.new[i].file \in FileMate
  <2>1. PICK q \in Seq(NewFile) : q = e.new
    BY DEF Edits
  <2>2. \A i \in 1..Len(q) : q[i] \in NewFile
    BY <2>1
  <2>3. \A i \in 1..Len(q) : q[i].level = 0 /\ q[i].file \in FileMate
    BY <2>2 DEF NewFile
  <2> QED BY <2>1, <2>3
<1>2. NewAt(e, 0) = {e.new[i].file : i \in 1..Len(e.new)}
  <2>1. {j \in DOMAIN e.new : e.new[j].level = 0} = 1..Len(e.new)
    BY <1>1
  <2> QED BY <2>1 DEF NewAt
<1>3. \A l \in Levels \ {0} : NewAt(e, l) = {}
  <2> SUFFICES ASSUME NEW l \in Levels \ {0} PROVE NewAt(e, l) = {}
    OBVIOUS
  <2>1. {j \in DOMAIN e.new : e.new[j].level = l} = {}
    BY <1>1
  <2> QED BY <2>1 DEF NewAt
<1>4. IsFiniteSet(NewAt(e, 0))
  <2> DEFINE q == [i \in 1..Len(e.new) |-> e.new[i].file]
  <2>1. \A i \in 1..Len(e.new) : e.new[i].file \in NewAt(e, 0)
    BY <1>2
  <2>2. q \in Seq(NewAt(e, 0)) /\ Len(q) = Len(e.new)
    BY <1>1, <2>1
  <2>3. \A f \in NewAt(e, 0) : \E i \in 1..Len(q) : q[i] = f
    BY <1>2, <2>2
  <2> HIDE DEF q
  <2> QED BY <2>2, <2>3 DEF IsFiniteSet
<1> QED BY <1>1, <1>2, <1>3, <1>4

LEMMA BuilderIsBatch ==
  ASSUME NEW base
  PROVE  Builder(base) = Batch(base, {})
BY DEF Builder, Batch

\* Apply adds the new files; the set drops none when their numbers are new.
LEMMA ApplyAdds ==
  ASSUME NEW base, NEW files \in SUBSET FileMate, NEW e \in Edits
  PROVE  /\ \E more \in SUBSET FileMate : Apply(Batch(base, files), e) = Batch(base, more)
         /\ Distinct(files \union NewAt(e, 0)) /\ files \cap NewAt(e, 0) = {} =>
              Apply(Batch(base, files), e) = Batch(base, files \union NewAt(e, 0))
<1>1. PICK b, none, added :
        /\ b = Batch(base, files) /\ none = [l \in Levels |-> {}]
        /\ added = [l \in Levels |-> IF l = 0 THEN files ELSE {}]
  OBVIOUS
<1>2. b = [base |-> base, deleted |-> none, added |-> added]
  BY <1>1 DEF Batch
<1>3. e.deleted = {}
  BY DEF Edits
<1> DEFINE more == files \union {f \in NewAt(e, 0) :
                     \A g \in files : BySmallestKey(f, g) \/ BySmallestKey(g, f)}
           del == [l \in Levels |-> (b.deleted[l] \cup {d[2] : d \in {x \in e.deleted : x[1] = l}})
                                    \ {f.num : f \in NewAt(e, l)}]
           add == [l \in Levels |-> b.added[l] \cup {f \in NewAt(e, l) :
                     \A g \in b.added[l] : BySmallestKey(f, g) \/ BySmallestKey(g, f)}]
<1>4. Apply(b, e) = [base |-> base, deleted |-> del, added |-> add]
  <2>1. Apply(b, e) = [b EXCEPT !.deleted = del, !.added = add]
    BY DEF Apply
  <2> HIDE DEF del, add, more
  <2> QED BY <1>2, <2>1
<1>5. del = none
  <2>1. \A l \in Levels : b.deleted[l] = {} /\ {d[2] : d \in {x \in e.deleted : x[1] = l}} = {}
    BY <1>1, <1>2, <1>3
  <2>2. \A l \in Levels : del[l] = {}
    BY <2>1
  <2> QED BY <1>1, <2>2
<1>6. add = [l \in Levels |-> IF l = 0 THEN more ELSE {}]
  <2> SUFFICES ASSUME NEW l \in Levels
               PROVE  add[l] = IF l = 0 THEN more ELSE {}
    OBVIOUS
  <2>1. CASE l = 0
    <3>1. b.added[0] = files
      BY <1>1, <1>2, <2>1
    <3> QED BY <2>1, <3>1
  <2>2. CASE l # 0
    <3>1. b.added[l] = {} /\ NewAt(e, l) = {}
      BY <1>1, <1>2, <2>2, NewAtType
    <3> QED BY <2>2, <3>1
  <2> QED BY <2>1, <2>2
<1>7. Apply(b, e) = Batch(base, more)
  <2> HIDE DEF del, add, more
  <2> QED BY <1>1, <1>4, <1>5, <1>6 DEF Batch
<1>8. more \in SUBSET FileMate
  BY NewAtType
<1>9. ASSUME Distinct(files \union NewAt(e, 0)), files \cap NewAt(e, 0) = {}
      PROVE  more = files \union NewAt(e, 0)
  <2>1. ASSUME NEW f \in NewAt(e, 0), NEW g \in files
        PROVE  BySmallestKey(f, g) \/ BySmallestKey(g, f)
    <3>1. f \in FileMate /\ g \in FileMate
      BY NewAtType
    <3>2. f.num # g.num
      BY <1>9 DEF Distinct
    <3> QED BY <3>1, <3>2, KeyOrder
  <2> QED BY <2>1
<1> HIDE DEF more
<1> QED BY <1>1, <1>7, <1>8, <1>9

\* SaveTo of such a builder lists the files.
LEMMA SaveToLists ==
  ASSUME NEW base, NEW old, Lists(base, old), NEW added \in SUBSET FileMate,
         IsFiniteSet(old \union added), Distinct(old \union added), old \cap added = {}
  PROVE  Lists(SaveTo(Batch(base, added)), old \union added)
<1>1. /\ base \in [Levels -> Seq(FileMate)] /\ Range(base[0]) = old /\ Ordered(base[0])
      /\ \A l \in Levels \ {0} : base[l] = <<>>
  BY DEF Lists, Version
<1>2. 0 \in Levels
  BY LevelsAssumption DEF Levels
<1>3. PICK b : b = Batch(base, added)
  OBVIOUS
<1>4. /\ b.base = base /\ \A l \in Levels : b.deleted[l] = {}
      /\ b.added[0] = added /\ \A l \in Levels \ {0} : b.added[l] = {}
  BY <1>2, <1>3 DEF Batch
<1>5. PICK w : w = SaveTo(b)
  OBVIOUS
<1>6. /\ w = [l \in Levels |-> SaveLevel(b.base[l], b.added[l], b.deleted[l])]
  BY <1>5 DEF SaveTo
<1>7. w[0] = SaveLevel(base[0], added, {}) /\ \A l \in Levels \ {0} : w[l] = SaveLevel(<<>>, {}, {})
  BY <1>1, <1>2, <1>4, <1>6
<1>8. w[0] \in Seq(FileMate) /\ Ordered(w[0]) /\ Range(w[0]) = old \union added
  <2>1. base[0] \in Seq(FileMate)
    BY <1>1, <1>2
  <2> QED BY <1>1, <1>7, <2>1, SaveLevelSaves
<1>9. SaveLevel(<<>>, {}, {}) = <<>>
  <2>1. <<>> \in Seq(FileMate) /\ DOMAIN <<>> = {}
    OBVIOUS
  <2>2. Ordered(<<>>) /\ Range(<<>>) = {} /\ Distinct({})
    BY <2>1 DEF Ordered, Range, Distinct
  <2>3. SaveLevel(<<>>, {}, {}) \in Seq(FileMate) /\ Range(SaveLevel(<<>>, {}, {})) = {}
    <3>1. PICK q, none : q = <<>> /\ none = {}
      OBVIOUS
    <3>2. /\ q \in Seq(FileMate) /\ Ordered(q) /\ none \in SUBSET FileMate
          /\ none = Range(q) \union none /\ IsFiniteSet(none) /\ Distinct(none)
          /\ Range(q) \cap none = {}
      BY <2>1, <2>2, <3>1, FS_EmptySet
    <3>3. SaveLevel(q, none, {}) \in Seq(FileMate) /\ Range(SaveLevel(q, none, {})) = none
      BY <3>2, SaveLevelSaves
    <3> QED BY <3>1, <3>3
  <2>4. PICK q \in Seq(FileMate) : q = SaveLevel(<<>>, {}, {}) /\ Range(q) = {}
    BY <2>3
  <2>5. DOMAIN q = {}
    BY <2>4 DEF Range
  <2>6. q = <<>>
    BY <2>5
  <2> QED BY <2>4, <2>6
<1>10. w \in Version
  <2>1. \A l \in Levels : w[l] \in Seq(FileMate)
    <3> SUFFICES ASSUME NEW l \in Levels PROVE w[l] \in Seq(FileMate)
      OBVIOUS
    <3>1. CASE l = 0
      BY <1>8, <3>1
    <3>2. CASE l # 0
      <4>1. w[l] = <<>>
        BY <1>7, <1>9, <3>2
      <4> QED BY <4>1
    <3> QED BY <3>1, <3>2
  <2> QED BY <1>6, <2>1 DEF Version
<1> QED BY <1>3, <1>5, <1>7, <1>8, <1>9, <1>10 DEF Lists

LEMMA NoFilesLists == Lists(NoFiles, {}) /\ NoFiles \in Version
<1>1. <<>> \in Seq(FileMate) /\ DOMAIN <<>> = {}
  OBVIOUS
<1>2. Ordered(<<>>) /\ Range(<<>>) = {}
  BY <1>1 DEF Ordered, Range
<1>3. 0 \in Levels
  BY LevelsAssumption DEF Levels
<1>4. NoFiles \in Version /\ \A l \in Levels : NoFiles[l] = <<>>
  BY <1>1 DEF NoFiles, Version
<1> QED BY <1>2, <1>3, <1>4 DEF Lists
-----------------------------------------------------------------------------
EditOf(log, next, seq, new) ==
  [log |-> log, next |-> next, seq |-> seq, deleted |-> {}, new |-> new]

LEMMA EditShape ==
  /\ \A log, next, seq \in Seq(Nat) : \A new \in Seq(NewFile) : EditOf(log, next, seq, new) \in Edits
  /\ \A e \in Edits : /\ e.log \in Seq(Nat) /\ e.next \in Seq(Nat) /\ e.seq \in Seq(Nat)
                      /\ e.new \in Seq(NewFile) /\ e.deleted = {}
                      /\ e = EditOf(e.log, e.next, e.seq, e.new)
BY DEF Edits, EditOf

LEMMA DecodeLog ==
  ASSUME NEW log, NEW next, NEW seq, NEW new, NEW k
  PROVE  DecodeField(EditOf(log, next, seq, new), [tag |-> "kLogNumber", number |-> k])
           = EditOf(<<k>>, next, seq, new)
<1>1. PICK one, e : one = <<k>> /\ e = EditOf(log, next, seq, new)
  OBVIOUS
<1>2. e = [log |-> log, next |-> next, seq |-> seq, deleted |-> {}, new |-> new]
  BY <1>1 DEF EditOf
<1>3. DecodeField(e, [tag |-> "kLogNumber", number |-> k]) = [e EXCEPT !.log = one]
  BY <1>1 DEF DecodeField
<1>4. DecodeField(e, [tag |-> "kLogNumber", number |-> k]) = EditOf(one, next, seq, new)
  BY <1>2, <1>3 DEF EditOf
<1> QED BY <1>1, <1>4

LEMMA DecodeNext ==
  ASSUME NEW log, NEW next, NEW seq, NEW new, NEW k
  PROVE  DecodeField(EditOf(log, next, seq, new), [tag |-> "kNextFileNumber", number |-> k])
           = EditOf(log, <<k>>, seq, new)
<1>1. PICK one, e : one = <<k>> /\ e = EditOf(log, next, seq, new)
  OBVIOUS
<1>2. e = [log |-> log, next |-> next, seq |-> seq, deleted |-> {}, new |-> new]
  BY <1>1 DEF EditOf
<1>3. DecodeField(e, [tag |-> "kNextFileNumber", number |-> k]) = [e EXCEPT !.next = one]
  BY <1>1 DEF DecodeField
<1>4. DecodeField(e, [tag |-> "kNextFileNumber", number |-> k]) = EditOf(log, one, seq, new)
  BY <1>2, <1>3 DEF EditOf
<1> QED BY <1>1, <1>4

LEMMA DecodeSeq ==
  ASSUME NEW log, NEW next, NEW seq, NEW new, NEW k
  PROVE  DecodeField(EditOf(log, next, seq, new), [tag |-> "kLastSequence", number |-> k])
           = EditOf(log, next, <<k>>, new)
<1>1. PICK one, e : one = <<k>> /\ e = EditOf(log, next, seq, new)
  OBVIOUS
<1>2. e = [log |-> log, next |-> next, seq |-> seq, deleted |-> {}, new |-> new]
  BY <1>1 DEF EditOf
<1>3. DecodeField(e, [tag |-> "kLastSequence", number |-> k]) = [e EXCEPT !.seq = one]
  BY <1>1 DEF DecodeField
<1>4. DecodeField(e, [tag |-> "kLastSequence", number |-> k]) = EditOf(log, next, one, new)
  BY <1>2, <1>3 DEF EditOf
<1> QED BY <1>1, <1>4

LEMMA DecodeNew ==
  ASSUME NEW log, NEW next, NEW seq, NEW new, NEW x
  PROVE  DecodeField(EditOf(log, next, seq, new), [tag |-> "kNewFile", level |-> 0, file |-> x])
           = EditOf(log, next, seq, Append(new, [level |-> 0, file |-> x]))
<1>1. PICK e, f : e = EditOf(log, next, seq, new) /\ f = Append(new, [level |-> 0, file |-> x])
  OBVIOUS
<1>2. e = [log |-> log, next |-> next, seq |-> seq, deleted |-> {}, new |-> new]
  BY <1>1 DEF EditOf
<1>3. e.new = new
  BY <1>2
<1>4. DecodeField(e, [tag |-> "kNewFile", level |-> 0, file |-> x]) = [e EXCEPT !.new = f]
  BY <1>1, <1>3 DEF DecodeField
<1>5. DecodeField(e, [tag |-> "kNewFile", level |-> 0, file |-> x]) = EditOf(log, next, seq, f)
  BY <1>2, <1>4 DEF EditOf
<1> QED BY <1>1, <1>5

LEMMA FieldShape ==
  ASSUME NEW f \in Field
  PROVE  \/ \E t \in Numbers : \E k \in Nat : f = [tag |-> t, number |-> k]
         \/ \E x \in FileMate : f = [tag |-> "kNewFile", level |-> 0, file |-> x]
<1>1. CASE f \in [tag : Numbers, number : Nat]
  <2>1. f.tag \in Numbers /\ f.number \in Nat /\ f = [tag |-> f.tag, number |-> f.number]
    BY <1>1
  <2> QED BY <2>1
<1>2. CASE f \in [tag : {"kNewFile"}, level : {0}, file : FileMate]
  <2>1. f.file \in FileMate /\ f = [tag |-> "kNewFile", level |-> 0, file |-> f.file]
    BY <1>2
  <2> QED BY <2>1
<1> QED BY <1>1, <1>2 DEF Field

LEMMA DecodeFieldType ==
  ASSUME NEW e \in Edits, NEW f \in Field
  PROVE  DecodeField(e, f) \in Edits
<1>1. PICK log, next, seq \in Seq(Nat), new \in Seq(NewFile) : e = EditOf(log, next, seq, new)
  BY EditShape
<1>2. CASE \E t \in Numbers : \E k \in Nat : f = [tag |-> t, number |-> k]
  <2>1. PICK t \in Numbers, k \in Nat : f = [tag |-> t, number |-> k]
    BY <1>2
  <2>2. <<k>> \in Seq(Nat)
    OBVIOUS
  <2>3. \/ DecodeField(e, f) = EditOf(<<k>>, next, seq, new)
        \/ DecodeField(e, f) = EditOf(log, <<k>>, seq, new)
        \/ DecodeField(e, f) = EditOf(log, next, <<k>>, new)
    <3>1. CASE t = "kLogNumber"
      <4>1. DecodeField(EditOf(log, next, seq, new), [tag |-> "kLogNumber", number |-> k]) = EditOf(<<k>>, next, seq, new)
        BY DecodeLog
      <4> QED BY <1>1, <2>1, <3>1, <4>1
    <3>2. CASE t = "kNextFileNumber"
      <4>1. DecodeField(EditOf(log, next, seq, new), [tag |-> "kNextFileNumber", number |-> k]) = EditOf(log, <<k>>, seq, new)
        BY DecodeNext
      <4> QED BY <1>1, <2>1, <3>2, <4>1
    <3>3. CASE t = "kLastSequence"
      <4>1. DecodeField(EditOf(log, next, seq, new), [tag |-> "kLastSequence", number |-> k]) = EditOf(log, next, <<k>>, new)
        BY DecodeSeq
      <4> QED BY <1>1, <2>1, <3>3, <4>1
    <3> QED BY <3>1, <3>2, <3>3 DEF Numbers
  <2>4. /\ EditOf(<<k>>, next, seq, new) \in Edits /\ EditOf(log, <<k>>, seq, new) \in Edits
        /\ EditOf(log, next, <<k>>, new) \in Edits
    BY <2>2, EditShape
  <2> QED BY <2>3, <2>4
<1>3. CASE \E x \in FileMate : f = [tag |-> "kNewFile", level |-> 0, file |-> x]
  <2>1. PICK x \in FileMate : f = [tag |-> "kNewFile", level |-> 0, file |-> x]
    BY <1>3
  <2>2. PICK y \in NewFile : y = [level |-> 0, file |-> x]
    BY DEF NewFile
  <2>3. Append(new, y) \in Seq(NewFile)
    BY AppendProperties
  <2>4. DecodeField(e, f) = EditOf(log, next, seq, Append(new, y))
    <3>1. DecodeField(EditOf(log, next, seq, new), [tag |-> "kNewFile", level |-> 0, file |-> x])
            = EditOf(log, next, seq, Append(new, [level |-> 0, file |-> x]))
      BY DecodeNew
    <3> QED BY <1>1, <2>1, <2>2, <3>1
  <2>5. EditOf(log, next, seq, Append(new, y)) \in Edits
    BY <2>3, EditShape
  <2> QED BY <2>4, <2>5
<1> QED BY <1>2, <1>3, FieldShape

LEMMA NoEditType ==
  /\ NoEdit \in Edits /\ NoEdit.new = <<>> /\ NewAt(NoEdit, 0) = {}
  /\ NoEdit.log = <<>> /\ NoEdit.next = <<>> /\ NoEdit.seq = <<>>
<1>1. NoEdit \in Edits /\ NoEdit.new = <<>>
  BY DEF NoEdit, Edits
<1>2. NewAt(NoEdit, 0) = {}
  <2>1. NewAt(NoEdit, 0) = {NoEdit.new[i].file : i \in 1..Len(NoEdit.new)}
    BY <1>1, NewAtType
  <2>2. 1..Len(NoEdit.new) = {}
    BY <1>1
  <2> QED BY <2>1, <2>2
<1> QED BY <1>1, <1>2 DEF NoEdit

\* DecodeFrom's loop.
DecodedBy(record, d) ==
  /\ d \in [0..Len(record) -> Edits] /\ d[0] = NoEdit
  /\ \A i \in 1..Len(record) : d[i] = DecodeField(d[i - 1], record[i])

LEMMA DecodeLoop ==
  ASSUME NEW record \in Seq(Field)
  PROVE  \E d : DecodedBy(record, d) /\ DecodeFrom(record) = d[Len(record)]
<1> DEFINE n == Len(record)
<1>1. n \in Nat /\ \A i \in 1..n : record[i] \in Field
  OBVIOUS
<1>2. DecodeFrom(record)
        = (CHOOSE d : d = [i \in 0..n |-> IF i = 0 THEN NoEdit ELSE DecodeField(d[i - 1], record[i])])[n]
  BY DEF DecodeFrom
<1> HIDE DEF n
<1> DEFINE g == [x \in Nat \X Edits |-> IF x[1] \in 1..n THEN DecodeField(x[2], record[x[1]]) ELSE NoEdit]
<1>3. g \in [Nat \X Edits -> Edits]
  BY <1>1, DecodeFieldType, NoEditType
<1>4. \A i \in 1..n : \A e \in Edits : g[<<i, e>>] = DecodeField(e, record[i])
  BY <1>1
<1> HIDE DEF g
<1>5. PICK f \in [0..n -> Edits] : CountsTo(f, n, NoEdit, g)
  BY <1>1, <1>3, NoEditType, RecursionUp
<1>6. \A i \in 0..n : f[i] = IF i = 0 THEN NoEdit ELSE g[<<i, f[i - 1]>>]
  BY <1>5, Zenon DEF CountsTo
<1>7. f[0] = NoEdit /\ \A i \in 1..n : f[i] = DecodeField(f[i - 1], record[i])
  <2>1. f[0] = NoEdit
    <3>1. 0 \in 0..n
      BY <1>1
    <3> QED BY <1>6, <3>1
  <2>2. ASSUME NEW i \in 1..n PROVE f[i] = DecodeField(f[i - 1], record[i])
    <3>1. i \in 0..n /\ i # 0 /\ i - 1 \in 0..n
      BY <1>1
    <3>2. f[i] = g[<<i, f[i - 1]>>] /\ f[i - 1] \in Edits
      BY <1>5, <1>6, <3>1
    <3> QED BY <1>4, <3>2
  <2> QED BY <2>1, <2>2
<1>8. PICK d : d = CHOOSE d_1 : d_1 = [i \in 0..n |-> IF i = 0 THEN NoEdit ELSE DecodeField(d_1[i - 1], record[i])]
  OBVIOUS
<1>9. f = [i \in 0..n |-> IF i = 0 THEN NoEdit ELSE DecodeField(f[i - 1], record[i])]
  <2>1. f = [i \in 0..n |-> f[i]]
    BY <1>5
  <2>2. ASSUME NEW i \in 0..n PROVE f[i] = IF i = 0 THEN NoEdit ELSE DecodeField(f[i - 1], record[i])
    <3>1. i = 0 \/ i \in 1..n
      BY <1>1
    <3> QED BY <1>7, <3>1
  <2> QED BY <2>1, <2>2, Zenon
<1>10. d = [i \in 0..n |-> IF i = 0 THEN NoEdit ELSE DecodeField(d[i - 1], record[i])]
  BY <1>8, <1>9, Zenon
<1>11. \A i \in 0..n : d[i] = IF i = 0 THEN NoEdit ELSE DecodeField(d[i - 1], record[i])
  BY <1>10, Zenon
<1>12. d[n] = f[n]
  <2> DEFINE U == {i \in 0..n : d[i] = f[i]}
  <2>1. 0 \in U
    BY <1>1, <1>7, <1>11
  <2>2. \A i \in 1..n : i - 1 \in U => i \in U
    <3> SUFFICES ASSUME NEW i \in 1..n, i - 1 \in U PROVE i \in U
      OBVIOUS
    <3>1. i \in 0..n /\ i # 0 /\ d[i - 1] = f[i - 1]
      BY <1>1
    <3>2. d[i] = DecodeField(d[i - 1], record[i])
      BY <1>11, <3>1
    <3>3. f[i] = DecodeField(f[i - 1], record[i])
      BY <1>7
    <3> QED BY <3>1, <3>2, <3>3
  <2> HIDE DEF U
  <2>3. \A i \in 0..n : i \in U
    BY <1>1, <2>1, <2>2, CountUp
  <2>4. n \in 0..n
    BY <1>1
  <2>5. n \in U
    BY <2>3, <2>4
  <2> QED BY <2>5 DEF U
<1>13. DecodedBy(record, f)
  BY <1>5, <1>7 DEF DecodedBy, n
<1> QED BY <1>2, <1>8, <1>12, <1>13 DEF n

\* The edits that LogAndApply writes: three numbers, and new files.
Stamped(e, l, n, q) ==
  /\ e \in Edits /\ l \in Nat /\ n \in Nat /\ q \in Nat
  /\ e.log = <<l>> /\ e.next = <<n>> /\ e.seq = <<q>>

LEMMA EncodeShape ==
  ASSUME NEW e, NEW l, NEW n, NEW q, Stamped(e, l, n, q)
  PROVE  /\ EncodeTo(e) \in Seq(Field) /\ Len(EncodeTo(e)) = 3 + Len(e.new)
         /\ EncodeTo(e)[1] = [tag |-> "kLogNumber", number |-> l]
         /\ EncodeTo(e)[2] = [tag |-> "kNextFileNumber", number |-> n]
         /\ EncodeTo(e)[3] = [tag |-> "kLastSequence", number |-> q]
         /\ \A i \in 1..Len(e.new) :
              EncodeTo(e)[3 + i] = [tag |-> "kNewFile", level |-> e.new[i].level, file |-> e.new[i].file]
<1>1. PICK a, b, c, new :
        /\ a = [tag |-> "kLogNumber", number |-> l] /\ b = [tag |-> "kNextFileNumber", number |-> n]
        /\ c = [tag |-> "kLastSequence", number |-> q]
        /\ new = e.new
  OBVIOUS
<1>2. new \in Seq(NewFile) /\ Len(new) \in Nat /\ DOMAIN new = 1..Len(new)
  BY <1>1 DEF Stamped, Edits
<1>3. a \in Field /\ b \in Field /\ c \in Field
  BY <1>1 DEF Stamped, Field, Numbers
<1>4. /\ Number("kLogNumber", e.log) = <<a>> /\ Number("kNextFileNumber", e.next) = <<b>>
      /\ Number("kLastSequence", e.seq) = <<c>>
  BY <1>1 DEF Stamped, Number
<1>5. PICK none : none = [i \in 1..Cardinality(e.deleted) |-> [tag |-> "kDeletedFile", at |-> SetToSeq(e.deleted)[i]]]
  OBVIOUS
<1>6. none = <<>>
  <2>1. e.deleted = {}
    BY DEF Stamped, Edits
  <2>2. 1..Cardinality(e.deleted) = {}
    BY <2>1, FS_EmptySet
  <2> QED BY <1>5, <2>2
<1>7. PICK fs : fs = [i \in DOMAIN new |-> [tag |-> "kNewFile", level |-> new[i].level, file |-> new[i].file]]
  OBVIOUS
<1>8. fs \in Seq(Field) /\ Len(fs) = Len(new)
      /\ \A i \in 1..Len(new) : fs[i] = [tag |-> "kNewFile", level |-> new[i].level, file |-> new[i].file]
  <2>1. \A i \in 1..Len(new) : new[i] \in NewFile
    BY <1>2
  <2>2. \A i \in 1..Len(new) : [tag |-> "kNewFile", level |-> new[i].level, file |-> new[i].file] \in Field
    BY <2>1 DEF Field, NewFile
  <2>3. \A i \in 1..Len(new) : fs[i] = [tag |-> "kNewFile", level |-> new[i].level, file |-> new[i].file]
    BY <1>2, <1>7
  <2>4. \A i \in 1..Len(new) : fs[i] \in Field
    BY <2>2, <2>3
  <2>5. fs \in [1..Len(new) -> Field]
    BY <1>2, <1>7, <2>4
  <2> QED BY <1>2, <2>3, <2>5
<1>9. EncodeTo(e) = <<a>> \o <<b>> \o <<c>> \o <<>> \o fs
  BY <1>1, <1>4, <1>5, <1>6, <1>7 DEF EncodeTo
<1>10. PICK p : p = <<a>> \o <<b>> \o <<c>> \o <<>>
  OBVIOUS
<1>11. p \in Seq(Field) /\ Len(p) = 3 /\ p[1] = a /\ p[2] = b /\ p[3] = c
  <2>1. <<a>> \in Seq(Field) /\ Len(<<a>>) = 1 /\ <<a>>[1] = a
    BY <1>3
  <2>2. PICK ab : ab = Append(<<a>>, b)
    OBVIOUS
  <2>3. /\ ab = <<a>> \o <<b>> /\ ab \in Seq(Field) /\ Len(ab) = 2 /\ ab[1] = a /\ ab[2] = b
    <3>1. /\ ab \in Seq(Field) /\ Len(ab) = 1 + 1 /\ ab[1 + 1] = b /\ ab[1] = <<a>>[1]
      BY <1>3, <2>1, <2>2, AppendProperties
    <3>2. ab = <<a>> \o <<b>>
      BY <1>3, <2>1, <2>2, AppendIsConcat
    <3> QED BY <2>1, <3>1, <3>2
  <2>4. PICK abc : abc = Append(ab, c)
    OBVIOUS
  <2>5. /\ abc = ab \o <<c>> /\ abc \in Seq(Field) /\ Len(abc) = 3
        /\ abc[1] = a /\ abc[2] = b /\ abc[3] = c
    <3>1. /\ abc \in Seq(Field) /\ Len(abc) = 2 + 1 /\ abc[2 + 1] = c
          /\ abc[1] = ab[1] /\ abc[2] = ab[2]
      BY <1>3, <2>3, <2>4, AppendProperties
    <3>2. abc = ab \o <<c>>
      BY <1>3, <2>3, <2>4, AppendIsConcat
    <3> QED BY <2>3, <3>1, <3>2
  <2>6. abc \o <<>> = abc
    BY <2>5, ConcatEmptySeq
  <2>7. p = abc
    BY <1>10, <2>3, <2>5, <2>6
  <2> QED BY <2>5, <2>7
<1>12. PICK r : r = p \o fs
  OBVIOUS
<1>13. /\ r \in Seq(Field) /\ Len(r) = 3 + Len(new)
       /\ r[1] = a /\ r[2] = b /\ r[3] = c
       /\ \A i \in 1..Len(new) : r[3 + i] = fs[i]
  <2>1. /\ r \in Seq(Field) /\ Len(r) = 3 + Len(new)
        /\ \A i \in 1..(3 + Len(new)) : r[i] = IF i <= 3 THEN p[i] ELSE fs[i - 3]
    <3>1. Len(p) + Len(fs) = 3 + Len(new)
      BY <1>8, <1>11
    <3>2. p \in Seq(Field) /\ fs \in Seq(Field) /\ Len(p) = 3
      BY <1>8, <1>11
    <3>3. /\ p \o fs \in Seq(Field) /\ Len(p \o fs) = Len(p) + Len(fs)
          /\ \A i \in 1..(Len(p) + Len(fs)) :
               (p \o fs)[i] = IF i <= Len(p) THEN p[i] ELSE fs[i - Len(p)]
      BY <3>2, ConcatProperties
    <3> QED BY <1>12, <3>1, <3>2, <3>3
  <2>2. /\ 1 \in 1..(3 + Len(new)) /\ 2 \in 1..(3 + Len(new)) /\ 3 \in 1..(3 + Len(new))
        /\ \A i \in 1..Len(new) : /\ 3 + i \in 1..(3 + Len(new)) /\ ~(3 + i <= 3)
                                  /\ (3 + i) - 3 = i
    BY <1>2
  <2>3. r[1] = p[1] /\ r[2] = p[2] /\ r[3] = p[3]
    BY <2>1, <2>2
  <2>4. \A i \in 1..Len(new) : r[3 + i] = fs[i]
    BY <2>1, <2>2
  <2> QED BY <1>11, <2>1, <2>3, <2>4
<1> QED BY <1>1, <1>8, <1>9, <1>10, <1>12, <1>13

\* DecodeFrom reads back what EncodeTo wrote.
LEMMA DecodeEncode ==
  ASSUME NEW e, NEW l, NEW n, NEW q, Stamped(e, l, n, q)
  PROVE  DecodeFrom(EncodeTo(e)) = e
<1>1. PICK r : r = EncodeTo(e)
  OBVIOUS
<1>2. PICK new \in Seq(NewFile) : new = e.new
  BY DEF Stamped, Edits
<1>3. /\ r \in Seq(Field) /\ Len(r) = 3 + Len(new) /\ Len(new) \in Nat
      /\ r[1] = [tag |-> "kLogNumber", number |-> l]
      /\ r[2] = [tag |-> "kNextFileNumber", number |-> n]
      /\ r[3] = [tag |-> "kLastSequence", number |-> q]
      /\ \A i \in 1..Len(new) : r[3 + i] = [tag |-> "kNewFile", level |-> new[i].level, file |-> new[i].file]
  <2>1. Len(new) \in Nat
    BY <1>2
  <2> QED BY <1>1, <1>2, <2>1, EncodeShape
<1>4. PICK d : DecodedBy(r, d) /\ DecodeFrom(r) = d[Len(r)]
  BY <1>3, DecodeLoop
<1>5. /\ d[0] = NoEdit /\ \A i \in 0..(3 + Len(new)) : d[i] \in Edits
      /\ \A i \in 1..(3 + Len(new)) : d[i] = DecodeField(d[i - 1], r[i])
  BY <1>3, <1>4 DEF DecodedBy
<1> DEFINE Upto(s) == EditOf(<<l>>, <<n>>, <<q>>, s)
<1>6. d[3] = Upto(<<>>)
  <2>1. /\ 1 \in 1..(3 + Len(new)) /\ 2 \in 1..(3 + Len(new)) /\ 3 \in 1..(3 + Len(new))
        /\ 0 \in 0..(3 + Len(new)) /\ 1 \in 0..(3 + Len(new)) /\ 2 \in 0..(3 + Len(new))
    BY <1>3
  <2>2. d[1] = DecodeField(d[0], r[1]) /\ d[2] = DecodeField(d[1], r[2]) /\ d[3] = DecodeField(d[2], r[3])
    BY <1>5, <2>1
  <2>3. d[0] = EditOf(<<>>, <<>>, <<>>, <<>>)
    BY <1>5 DEF NoEdit, EditOf
  <2>4. d[1] = EditOf(<<l>>, <<>>, <<>>, <<>>)
    <3>1. DecodeField(EditOf(<<>>, <<>>, <<>>, <<>>), [tag |-> "kLogNumber", number |-> l])
            = EditOf(<<l>>, <<>>, <<>>, <<>>)
      BY DecodeLog
    <3> QED BY <1>3, <2>2, <2>3, <3>1
  <2>5. d[2] = EditOf(<<l>>, <<n>>, <<>>, <<>>)
    <3>1. DecodeField(EditOf(<<l>>, <<>>, <<>>, <<>>), [tag |-> "kNextFileNumber", number |-> n])
            = EditOf(<<l>>, <<n>>, <<>>, <<>>)
      BY DecodeNext
    <3> QED BY <1>3, <2>2, <2>4, <3>1
  <2>6. DecodeField(EditOf(<<l>>, <<n>>, <<>>, <<>>), [tag |-> "kLastSequence", number |-> q])
          = EditOf(<<l>>, <<n>>, <<q>>, <<>>)
    BY DecodeSeq
  <2> QED BY <1>3, <2>2, <2>5, <2>6
<1> DEFINE T == {i \in 0..Len(new) : \E s \in Seq(NewFile) :
                   d[3 + i] = Upto(s) /\ Len(s) = i /\ \A j \in 1..i : s[j] = new[j]}
<1>7. 0 \in T
  <2>1. <<>> \in Seq(NewFile) /\ Len(<<>>) = 0 /\ 3 + 0 = 3 /\ 1..0 = {} /\ 0 \in 0..Len(new)
    BY <1>3
  <2> HIDE DEF Upto
  <2> QED BY <1>6, <2>1
<1>8. \A i \in 1..Len(new) : i - 1 \in T => i \in T
  <2> SUFFICES ASSUME NEW i \in 1..Len(new), i - 1 \in T PROVE i \in T
    OBVIOUS
  <2>1. PICK s \in Seq(NewFile) :
          d[3 + (i - 1)] = Upto(s) /\ Len(s) = i - 1 /\ \A j \in 1..(i - 1) : s[j] = new[j]
    OBVIOUS
  <2>2. /\ i \in 0..Len(new) /\ 3 + i \in 1..(3 + Len(new)) /\ (3 + i) - 1 = 3 + (i - 1)
        /\ 3 + (i - 1) \in 0..(3 + Len(new)) /\ i \in Nat
    BY <1>3
  <2> HIDE DEF T
  <2>3. d[3 + i] = DecodeField(d[3 + (i - 1)], r[3 + i]) /\ d[3 + (i - 1)] \in Edits
    BY <1>5, <2>2
  <2>4. new[i] \in NewFile
    OBVIOUS
  <2>5. PICK x \in FileMate : new[i] = [level |-> 0, file |-> x]
    <3>1. new[i].file \in FileMate /\ new[i] = [level |-> 0, file |-> new[i].file]
      BY <2>4 DEF NewFile
    <3> QED BY <3>1
  <2>6. r[3 + i] = [tag |-> "kNewFile", level |-> 0, file |-> x]
    <3>1. new[i].level = 0 /\ new[i].file = x
      BY <2>5
    <3> QED BY <1>3, <3>1
  <2>7. PICK s1 : s1 = Append(s, new[i])
    OBVIOUS
  <2>8. s1 \in Seq(NewFile) /\ Len(s1) = i /\ \A j \in 1..i : s1[j] = new[j]
    <3>1. /\ s1 \in Seq(NewFile) /\ Len(s1) = (i - 1) + 1 /\ s1[(i - 1) + 1] = new[i]
          /\ \A j \in 1..(i - 1) : s1[j] = s[j]
      BY <2>1, <2>4, <2>7, AppendProperties
    <3>2. (i - 1) + 1 = i /\ \A j \in 1..i : j = i \/ j \in 1..(i - 1)
      BY <2>2
    <3> QED BY <2>1, <3>1, <3>2
  <2>9. d[3 + i] = Upto(s1)
    <3>1. DecodeField(Upto(s), [tag |-> "kNewFile", level |-> 0, file |-> x])
            = Upto(Append(s, [level |-> 0, file |-> x]))
      BY DecodeNew
    <3> HIDE DEF Upto
    <3> QED BY <2>1, <2>3, <2>5, <2>6, <2>7, <3>1
  <2> HIDE DEF Upto
  <2> QED BY <2>2, <2>8, <2>9 DEF T
<1>9. Len(new) \in T
  <2>1. Len(new) \in 0..Len(new)
    BY <1>3
  <2> HIDE DEF T
  <2>2. \A i \in 0..Len(new) : i \in T
    BY <1>3, <1>7, <1>8, CountUp
  <2> QED BY <2>1, <2>2
<1>10. PICK s \in Seq(NewFile) :
         d[3 + Len(new)] = Upto(s) /\ Len(s) = Len(new) /\ \A j \in 1..Len(new) : s[j] = new[j]
  <2> HIDE DEF Upto
  <2> QED BY <1>9
<1>11. s = new
  BY <1>10, SeqEqual
<1>12. e = Upto(new)
  BY <1>2, EditShape DEF Stamped
<1> QED BY <1>1, <1>3, <1>4, <1>10, <1>11, <1>12
-----------------------------------------------------------------------------
Unread == [log |-> <<>>, next |-> <<>>, seq |-> <<>>, builder |-> Builder(NoFiles)]

LEMMA UnreadType == Unread \in Reading
<1>1. Builder(NoFiles) = Batch(NoFiles, {}) /\ {} \in SUBSET FileMate
  BY BuilderIsBatch
<1>2. Builder(NoFiles) \in {Batch(NoFiles, files) : files \in SUBSET FileMate}
  BY <1>1
<1> QED BY <1>2 DEF Unread, Reading

LEMMA ReadRecordType ==
  ASSUME NEW s \in Reading, NEW record \in Seq(Field)
  PROVE  ReadRecord(s, DecodeFrom(record)) \in Reading
<1>1. PICK e \in Edits : e = DecodeFrom(record)
  <2>1. PICK d : DecodedBy(record, d) /\ DecodeFrom(record) = d[Len(record)]
    BY DecodeLoop
  <2>2. Len(record) \in 0..Len(record)
    OBVIOUS
  <2> QED BY <2>1, <2>2 DEF DecodedBy
<1>2. e.log \in Seq(Nat) /\ e.next \in Seq(Nat) /\ e.seq \in Seq(Nat)
  BY EditShape
<1>3. /\ s.log \in Seq(Nat) /\ s.next \in Seq(Nat) /\ s.seq \in Seq(Nat)
      /\ s.builder \in {Batch(NoFiles, files) : files \in SUBSET FileMate}
  BY DEF Reading
<1>4. PICK files \in SUBSET FileMate : s.builder = Batch(NoFiles, files)
  BY <1>3
<1>5. Apply(s.builder, e) \in {Batch(NoFiles, more) : more \in SUBSET FileMate}
  <2>1. PICK more \in SUBSET FileMate : Apply(Batch(NoFiles, files), e) = Batch(NoFiles, more)
    BY ApplyAdds
  <2> QED BY <1>4, <2>1
<1>6. /\ Latest(s.log, e.log) \in Seq(Nat) /\ Latest(s.next, e.next) \in Seq(Nat)
      /\ Latest(s.seq, e.seq) \in Seq(Nat)
  BY <1>2, <1>3 DEF Latest
<1> QED BY <1>1, <1>5, <1>6 DEF ReadRecord, Reading

\* ReadAll's loop.
ReadBy(records, d) ==
  /\ d \in [0..Len(records) -> Reading] /\ d[0] = Unread
  /\ \A i \in 1..Len(records) : d[i] = ReadRecord(d[i - 1], DecodeFrom(records[i]))

LEMMA ReadLoop ==
  ASSUME NEW records \in Seq(Seq(Field))
  PROVE  \E d : ReadBy(records, d) /\ ReadAll(records) = d[Len(records)]
<1> DEFINE n == Len(records)
           Step(s, i) == ReadRecord(s, DecodeFrom(records[i]))
<1>1. n \in Nat /\ \A i \in 1..n : \A s \in Reading : Step(s, i) \in Reading
  <2>1. n \in Nat /\ \A i \in 1..n : records[i] \in Seq(Field)
    OBVIOUS
  <2> QED BY <2>1, ReadRecordType
<1>2. ReadAll(records) = (CHOOSE d : d = [i \in 0..n |-> IF i = 0 THEN Unread ELSE Step(d[i - 1], i)])[n]
  BY DEF ReadAll, Unread
<1> HIDE DEF n, Step
<1> DEFINE g == [x \in Nat \X Reading |-> IF x[1] \in 1..n THEN Step(x[2], x[1]) ELSE Unread]
<1>3. g \in [Nat \X Reading -> Reading]
  BY <1>1, UnreadType
<1>4. \A i \in 1..n : \A s \in Reading : g[<<i, s>>] = Step(s, i)
  BY <1>1
<1> HIDE DEF g
<1>5. PICK f \in [0..n -> Reading] : CountsTo(f, n, Unread, g)
  BY <1>1, <1>3, UnreadType, RecursionUp
<1>6. \A i \in 0..n : f[i] = IF i = 0 THEN Unread ELSE g[<<i, f[i - 1]>>]
  BY <1>5, Zenon DEF CountsTo
<1>7. f[0] = Unread /\ \A i \in 1..n : f[i] = Step(f[i - 1], i)
  <2>1. f[0] = Unread
    <3>1. 0 \in 0..n
      BY <1>1
    <3> QED BY <1>6, <3>1
  <2>2. ASSUME NEW i \in 1..n PROVE f[i] = Step(f[i - 1], i)
    <3>1. i \in 0..n /\ i # 0 /\ i - 1 \in 0..n
      BY <1>1
    <3>2. f[i] = g[<<i, f[i - 1]>>] /\ f[i - 1] \in Reading
      BY <1>5, <1>6, <3>1
    <3> QED BY <1>4, <3>2
  <2> QED BY <2>1, <2>2
<1>8. PICK d : d = CHOOSE d_1 : d_1 = [i \in 0..n |-> IF i = 0 THEN Unread ELSE Step(d_1[i - 1], i)]
  OBVIOUS
<1>9. f = [i \in 0..n |-> IF i = 0 THEN Unread ELSE Step(f[i - 1], i)]
  <2>1. f = [i \in 0..n |-> f[i]]
    BY <1>5
  <2>2. ASSUME NEW i \in 0..n PROVE f[i] = IF i = 0 THEN Unread ELSE Step(f[i - 1], i)
    <3>1. i = 0 \/ i \in 1..n
      BY <1>1
    <3> QED BY <1>7, <3>1
  <2> QED BY <2>1, <2>2, Zenon
<1>10. d = [i \in 0..n |-> IF i = 0 THEN Unread ELSE Step(d[i - 1], i)]
  BY <1>8, <1>9, Zenon
<1>11. \A i \in 0..n : d[i] = IF i = 0 THEN Unread ELSE Step(d[i - 1], i)
  BY <1>10, Zenon
<1>12. d[n] = f[n]
  <2> DEFINE U == {i \in 0..n : d[i] = f[i]}
  <2>1. 0 \in U
    BY <1>1, <1>7, <1>11
  <2>2. \A i \in 1..n : i - 1 \in U => i \in U
    <3> SUFFICES ASSUME NEW i \in 1..n, i - 1 \in U PROVE i \in U
      OBVIOUS
    <3>1. i \in 0..n /\ i # 0 /\ d[i - 1] = f[i - 1]
      BY <1>1
    <3>2. d[i] = Step(d[i - 1], i) /\ f[i] = Step(f[i - 1], i)
      BY <1>7, <1>11, <3>1
    <3> QED BY <3>1, <3>2
  <2> HIDE DEF U
  <2>3. \A i \in 0..n : i \in U
    BY <1>1, <2>1, <2>2, CountUp
  <2>4. n \in 0..n
    BY <1>1
  <2>5. n \in U
    BY <2>3, <2>4
  <2> QED BY <2>5 DEF U
<1>13. ReadBy(records, f)
  BY <1>5, <1>7 DEF ReadBy, n, Step
<1> QED BY <1>2, <1>8, <1>12, <1>13 DEF n

LEMMA ReadNone == ReadAll(<<>>) = Unread
<1>1. PICK none : none = <<>> /\ none \in Seq(Seq(Field)) /\ Len(none) = 0
  <2>1. <<>> \in Seq(Seq(Field)) /\ Len(<<>>) = 0
    OBVIOUS
  <2> QED BY <2>1
<1>2. PICK d : ReadBy(none, d) /\ ReadAll(none) = d[Len(none)]
  BY <1>1, ReadLoop
<1> QED BY <1>1, <1>2 DEF ReadBy

\* A record more is read after the others.
LEMMA ReadOneMore ==
  ASSUME NEW records \in Seq(Seq(Field)), NEW record \in Seq(Field)
  PROVE  /\ ReadAll(records) \in Reading
         /\ ReadAll(Append(records, record)) = ReadRecord(ReadAll(records), DecodeFrom(record))
<1>1. PICK more, n : more = Append(records, record) /\ n = Len(records)
  OBVIOUS
<1>2. /\ more \in Seq(Seq(Field)) /\ n \in Nat /\ Len(more) = n + 1 /\ more[n + 1] = record
      /\ \A i \in 1..n : more[i] = records[i]
  BY <1>1, AppendProperties
<1>3. PICK d : ReadBy(records, d) /\ ReadAll(records) = d[n]
  BY <1>1, ReadLoop
<1>4. PICK c : ReadBy(more, c) /\ ReadAll(more) = c[n + 1]
  BY <1>2, ReadLoop
<1>5. /\ d \in [0..n -> Reading] /\ d[0] = Unread
      /\ \A i \in 1..n : d[i] = ReadRecord(d[i - 1], DecodeFrom(records[i]))
  BY <1>1, <1>3 DEF ReadBy
<1>6. /\ c[0] = Unread
      /\ \A i \in 1..(n + 1) : c[i] = ReadRecord(c[i - 1], DecodeFrom(more[i]))
  BY <1>2, <1>4 DEF ReadBy
<1> DEFINE U == {i \in 0..n : c[i] = d[i]}
<1>7. 0 \in U
  BY <1>2, <1>5, <1>6
<1>8. \A i \in 1..n : i - 1 \in U => i \in U
  <2> SUFFICES ASSUME NEW i \in 1..n, i - 1 \in U PROVE i \in U
    OBVIOUS
  <2>1. i \in 0..n /\ i \in 1..(n + 1) /\ c[i - 1] = d[i - 1] /\ more[i] = records[i]
    BY <1>2
  <2>2. c[i] = ReadRecord(c[i - 1], DecodeFrom(more[i]))
    BY <1>6, <2>1
  <2>3. d[i] = ReadRecord(d[i - 1], DecodeFrom(records[i]))
    BY <1>5
  <2> QED BY <2>1, <2>2, <2>3
<1>9. c[n] = d[n]
  <2>1. n \in 0..n
    BY <1>2
  <2> HIDE DEF U
  <2>2. \A i \in 0..n : i \in U
    BY <1>2, <1>7, <1>8, CountUp
  <2>3. n \in U
    BY <2>1, <2>2
  <2> QED BY <2>3 DEF U
<1>10. c[n + 1] = ReadRecord(c[n], DecodeFrom(record))
  <2>1. n + 1 \in 1..(n + 1) /\ (n + 1) - 1 = n
    BY <1>2
  <2>2. c[n + 1] = ReadRecord(c[(n + 1) - 1], DecodeFrom(more[n + 1]))
    BY <1>6, <2>1
  <2> QED BY <1>2, <2>1, <2>2
<1>11. d[n] \in Reading
  BY <1>2, <1>5
<1> QED BY <1>1, <1>3, <1>4, <1>9, <1>10, <1>11

\* One edit after the other: what the manifest gives grows by the edit.
LEMMA GivesMore ==
  ASSUME NEW records, NEW files, NEW e, NEW l, NEW n, NEW q, Stamped(e, l, n, q), l < n,
         \/ records = <<>> /\ files = {}
         \/ \E k, m \in Nat : Gives(records, k, m, files),
         Distinct(files \union NewAt(e, 0)), files \cap NewAt(e, 0) = {},
         \A f \in files \union NewAt(e, 0) : f.num < n
  PROVE  Gives(Append(records, EncodeTo(e)), l, n, files \union NewAt(e, 0))
<1>1. PICK r : r = EncodeTo(e)
  OBVIOUS
<1>2. r \in Seq(Field) /\ DecodeFrom(r) = e
  BY <1>1, EncodeShape, DecodeEncode
<1>3. /\ e \in Edits /\ l \in Nat /\ n \in Nat /\ q \in Nat
      /\ e.log = <<l>> /\ e.next = <<n>> /\ e.seq = <<q>>
  BY DEF Stamped
<1>4. /\ records \in Seq(Seq(Field)) /\ files \in SUBSET FileMate /\ IsFiniteSet(files)
      /\ ReadAll(records).builder = Batch(NoFiles, files)
  <2>1. CASE records = <<>> /\ files = {}
    <3>1. ReadAll(records).builder = Batch(NoFiles, files)
      BY <2>1, ReadNone, BuilderIsBatch DEF Unread
    <3> QED BY <2>1, <3>1, FS_EmptySet
  <2>2. CASE \E k, m \in Nat : Gives(records, k, m, files)
    BY <2>2 DEF Gives
  <2> QED BY <2>1, <2>2
<1>5. PICK s : s = ReadAll(records)
  OBVIOUS
<1>6. PICK more : more = Append(records, r)
  OBVIOUS
<1>7. more \in Seq(Seq(Field)) /\ more # <<>>
  BY <1>2, <1>4, <1>6, AppendProperties
<1>8. ReadAll(more) = ReadRecord(s, e)
  BY <1>2, <1>4, <1>5, <1>6, ReadOneMore
<1>9. PICK all : all = files \union NewAt(e, 0)
  OBVIOUS
<1>10. all \in SUBSET FileMate /\ IsFiniteSet(all)
  BY <1>3, <1>4, <1>9, NewAtType, FS_Union
<1>11. Apply(s.builder, e) = Batch(NoFiles, all)
  BY <1>3, <1>4, <1>5, <1>9, ApplyAdds
<1>12. /\ Latest(s.log, e.log) = <<l>> /\ Latest(s.next, e.next) = <<n>>
       /\ Latest(s.seq, e.seq) = <<q>>
  BY <1>3 DEF Latest
<1>13. ReadAll(more) = [log |-> <<l>>, next |-> <<n>>, seq |-> <<q>>, builder |-> Batch(NoFiles, all)]
  BY <1>8, <1>11, <1>12 DEF ReadRecord
<1>14. Gives(more, l, n, all)
  BY <1>3, <1>7, <1>9, <1>10, <1>13 DEF Gives
<1> QED BY <1>1, <1>6, <1>9, <1>14

\* What Recover makes of such a manifest.
LEMMA ReplayedGives ==
  ASSUME NEW records, NEW l, NEW n, NEW files, Gives(records, l, n, files)
  PROVE  /\ Replayed(records).log = l /\ Replayed(records).next = n
         /\ Replayed(records).seq \in Nat /\ Lists(Replayed(records).version, files)
<1>1. PICK q \in Nat : ReadAll(records) = [log |-> <<l>>, next |-> <<n>>, seq |-> <<q>>,
                                           builder |-> Batch(NoFiles, files)]
  BY DEF Gives
<1>2. /\ Replayed(records).log = l /\ Replayed(records).next = n /\ Replayed(records).seq = q
      /\ Replayed(records).version = SaveTo(Batch(NoFiles, files))
  BY <1>1 DEF Replayed
<1>3. /\ {} \union files = files /\ {} \cap files = {}
      /\ files \in SUBSET FileMate /\ IsFiniteSet(files) /\ Distinct(files)
  BY DEF Gives
<1>4. PICK none : none = {}
  OBVIOUS
<1>5. Lists(SaveTo(Batch(NoFiles, files)), none \union files)
  <2>1. /\ Lists(NoFiles, none) /\ files \in SUBSET FileMate
        /\ IsFiniteSet(none \union files) /\ Distinct(none \union files) /\ none \cap files = {}
    BY <1>3, <1>4, NoFilesLists
  <2> QED BY <2>1, SaveToLists
<1> QED BY <1>2, <1>3, <1>4, <1>5

\* The snapshot of an empty version is an empty record.
LEMMA SnapshotNoFiles == Snapshot(NoFiles) = <<>>
<1> DEFINE parts == [i \in 1..NumLevels |->
             [j \in DOMAIN NoFiles[i - 1] |-> [level |-> i - 1, file |-> NoFiles[i - 1][j]]]]
           n == NumLevels
           Step(f, i) == IF i = 1 THEN parts[i] ELSE f[i - 1] \o parts[i]
<1>1. n \in Nat /\ n > 1
  BY LevelsAssumption
<1>2. \A i \in 1..n : parts[i] = <<>>
  <2> SUFFICES ASSUME NEW i \in 1..n PROVE parts[i] = <<>>
    OBVIOUS
  <2>1. i - 1 \in Levels
    BY <1>1 DEF Levels
  <2>2. NoFiles[i - 1] = <<>>
    BY <2>1 DEF NoFiles
  <2>3. DOMAIN NoFiles[i - 1] = {}
    BY <2>2
  <2> QED BY <2>3
<1>3. parts \in Seq({<<>>}) /\ Len(parts) = n
  <2>1. parts \in [1..n -> {<<>>}]
    BY <1>2
  <2> HIDE DEF parts
  <2> QED BY <1>1, <2>1
<1> HIDE DEF parts
<1>4. FlattenSeq(parts)
        = (CHOOSE f : f = [i \in 1..n |-> IF i = 1 THEN parts[i] ELSE f[i - 1] \o parts[i]])[n]
  BY <1>1, <1>3 DEF FlattenSeq
<1> HIDE DEF n
<1> DEFINE w == [i \in 1..n |-> <<>>]
<1>5. w = [i \in 1..n |-> IF i = 1 THEN parts[i] ELSE w[i - 1] \o parts[i]]
  <2>1. ASSUME NEW i \in 1..n PROVE w[i] = IF i = 1 THEN parts[i] ELSE w[i - 1] \o parts[i]
    <3>1. parts[i] = <<>> /\ w[i] = <<>>
      BY <1>2
    <3>2. CASE i = 1
      BY <3>1, <3>2
    <3>3. CASE i # 1
      <4>1. i - 1 \in 1..n
        BY <1>1, <3>3
      <4>2. w[i - 1] = <<>>
        BY <4>1
      <4>3. <<>> \o <<>> = <<>>
        OBVIOUS
      <4> QED BY <3>1, <3>3, <4>2, <4>3
    <3> QED BY <3>2, <3>3
  <2>2. w = [i \in 1..n |-> w[i]]
    OBVIOUS
  <2> HIDE DEF w
  <2> QED BY <2>1, <2>2, Zenon
<1> HIDE DEF w
<1>6. PICK h : h = CHOOSE f : f = [i \in 1..n |-> IF i = 1 THEN parts[i] ELSE f[i - 1] \o parts[i]]
  OBVIOUS
<1>7. h = [i \in 1..n |-> IF i = 1 THEN parts[i] ELSE h[i - 1] \o parts[i]]
  BY <1>5, <1>6, Zenon
<1>8. \A i \in 1..n : h[i] = IF i = 1 THEN parts[i] ELSE h[i - 1] \o parts[i]
  BY <1>7, Zenon
<1> DEFINE U == {i \in 0..n : i = 0 \/ h[i] = <<>>}
<1>9. 0 \in U /\ \A i \in 1..n : i - 1 \in U => i \in U
  <2>1. 0 \in U
    BY <1>1
  <2>2. ASSUME NEW i \in 1..n, i - 1 \in U PROVE i \in U
    <3>1. parts[i] = <<>> /\ i \in 0..n
      BY <1>1, <1>2
    <3>2. CASE i = 1
      BY <1>8, <3>1, <3>2
    <3>3. CASE i # 1
      <4>1. h[i - 1] = <<>>
        BY <1>1, <2>2, <3>3
      <4>2. <<>> \o <<>> = <<>>
        OBVIOUS
      <4> QED BY <1>8, <3>1, <3>3, <4>1, <4>2
    <3> QED BY <3>2, <3>3
  <2> QED BY <2>1, <2>2
<1>10. h[n] = <<>>
  <2>1. n \in 0..n /\ n # 0
    BY <1>1
  <2> HIDE DEF U
  <2>2. \A i \in 0..n : i \in U
    BY <1>1, <1>9, CountUp
  <2>3. n \in U
    BY <2>1, <2>2
  <2> QED BY <2>1, <2>3 DEF U
<1>11. FlattenSeq(parts) = <<>>
  BY <1>4, <1>6, <1>10
<1>12. Snapshot(NoFiles) = EncodeTo([NoEdit EXCEPT !.new = <<>>])
  BY <1>11 DEF Snapshot, parts
<1>13. [NoEdit EXCEPT !.new = <<>>] = NoEdit
  BY DEF NoEdit
<1>14. EncodeTo(NoEdit) = <<>>
  <2>1. /\ NoEdit.log = <<>> /\ NoEdit.next = <<>> /\ NoEdit.seq = <<>> /\ NoEdit.deleted = {}
        /\ NoEdit.new = <<>>
    BY DEF NoEdit
  <2>2. DOMAIN <<>> = {}
    OBVIOUS
  <2>3. /\ Number("kLogNumber", NoEdit.log) = <<>> /\ Number("kNextFileNumber", NoEdit.next) = <<>>
        /\ Number("kLastSequence", NoEdit.seq) = <<>>
    BY <2>1, <2>2 DEF Number
  <2>4. [i \in 1..Cardinality(NoEdit.deleted) |->
          [tag |-> "kDeletedFile", at |-> SetToSeq(NoEdit.deleted)[i]]] = <<>>
    <3>1. 1..Cardinality(NoEdit.deleted) = {}
      BY <2>1, FS_EmptySet
    <3> QED BY <3>1
  <2>5. [i \in DOMAIN NoEdit.new |->
          [tag |-> "kNewFile", level |-> NoEdit.new[i].level, file |-> NoEdit.new[i].file]] = <<>>
    <3>1. DOMAIN NoEdit.new = {}
      BY <2>1, <2>2
    <3> QED BY <3>1
  <2>6. <<>> \o <<>> = <<>>
    OBVIOUS
  <2> QED BY <2>3, <2>4, <2>5, <2>6 DEF EncodeTo
<1> QED BY <1>12, <1>13, <1>14
-----------------------------------------------------------------------------
LEMMA ListsUnique ==
  ASSUME NEW u, NEW w, NEW files, Lists(u, files), Lists(w, files)
  PROVE  u = w
<1>1. /\ u \in [Levels -> Seq(FileMate)] /\ w \in [Levels -> Seq(FileMate)]
      /\ Range(u[0]) = Range(w[0]) /\ Ordered(u[0]) /\ Ordered(w[0])
      /\ \A l \in Levels \ {0} : u[l] = <<>> /\ w[l] = <<>>
  BY DEF Lists, Version
<1>2. 0 \in Levels
  BY LevelsAssumption DEF Levels
<1>3. u[0] = w[0]
  BY <1>1, <1>2, OrderUnique
<1>4. \A l \in Levels : u[l] = w[l]
  BY <1>1, <1>3
<1> QED BY <1>1, <1>4

LEMMA ListsIdle ==
  ASSUME NEW w, NEW files, Lists(w, files)
  PROVE  ~Finalize(w)
<1>1. \A l \in 1..(NumLevels - 2) : l \in Levels \ {0}
  BY LevelsAssumption DEF Levels
<1>2. \A l \in 1..(NumLevels - 2) : w[l] = <<>>
  BY <1>1 DEF Lists
<1>3. ~(Len(<<>>) > 0)
  OBVIOUS
<1> QED BY <1>2, <1>3 DEF Finalize

\* An edit with its numbers set has the same new files.
LEMMA SetLogNumber ==
  ASSUME NEW e \in Edits, NEW k \in Nat, NEW x, x = [e EXCEPT !.log = <<k>>]
  PROVE  x \in Edits /\ x.log = <<k>> /\ NewAt(x, 0) = NewAt(e, 0)
<1>1. PICK a : a = <<k>>
  OBVIOUS
<1>2. a \in Seq(Nat)
  BY <1>1
<1>3. x = [e EXCEPT !.log = a]
  BY <1>1
<1>4. x \in Edits /\ x.log = a /\ x.new = e.new
  BY <1>2, <1>3 DEF Edits
<1>5. NewAt(x, 0) = NewAt(e, 0)
  BY <1>4 DEF NewAt
<1> QED BY <1>1, <1>4, <1>5

LEMMA StampSets ==
  ASSUME NEW e \in Edits, next_file_number \in Nat, last_sequence \in Nat, NEW x, x = Stamp(e)
  PROVE  /\ x \in Edits /\ x.next = <<next_file_number>> /\ x.seq = <<last_sequence>>
         /\ x.log = e.log /\ NewAt(x, 0) = NewAt(e, 0)
<1>1. PICK a, b : a = <<next_file_number>> /\ b = <<last_sequence>>
  OBVIOUS
<1>2. a \in Seq(Nat) /\ b \in Seq(Nat)
  BY <1>1
<1>3. x = [e EXCEPT !.next = a, !.seq = b]
  BY <1>1 DEF Stamp
<1>4. x \in Edits /\ x.next = a /\ x.seq = b /\ x.log = e.log /\ x.new = e.new
  BY <1>2, <1>3 DEF Edits
<1>5. NewAt(x, 0) = NewAt(e, 0)
  BY <1>4 DEF NewAt
<1> QED BY <1>1, <1>4, <1>5

\* WriteLevel0Table gives the edit one new file, with the next number.
LEMMA AddFileAdds ==
  ASSUME NEW e \in Edits, NEW range \in Ranges, next_file_number \in Nat
  PROVE  /\ AddFile(range, e) \in Edits
         /\ \E f \in FileMate : /\ f.num = next_file_number
                                /\ NewAt(AddFile(range, e), 0) = NewAt(e, 0) \union {f}
<1>1. range[1] \in Keys /\ range[2] \in Keys
  BY DEF Ranges
<1>2. PICK f : f = [num |-> next_file_number, smallest |-> range[1], largest |-> range[2]]
  OBVIOUS
<1>3. f \in FileMate /\ f.num = next_file_number
  BY <1>1, <1>2 DEF FileMate
<1>4. PICK x : x = [level |-> 0, file |-> f]
  OBVIOUS
<1>5. x \in NewFile /\ x.file = f
  BY <1>3, <1>4 DEF NewFile
<1>6. PICK new \in Seq(NewFile) : new = e.new
  BY EditShape
<1>7. PICK more : more = Append(new, x)
  OBVIOUS
<1>8. /\ more \in Seq(NewFile) /\ Len(more) = Len(new) + 1 /\ more[Len(new) + 1] = x
      /\ Len(new) \in Nat /\ \A i \in 1..Len(new) : more[i] = new[i]
  BY <1>5, <1>7, AppendProperties
<1>9. PICK a : a = AddFile(range, e)
  OBVIOUS
<1>10. a = [e EXCEPT !.new = more]
  BY <1>2, <1>4, <1>6, <1>7, <1>9 DEF AddFile
<1>11. a \in Edits /\ a.new = more
  BY <1>8, <1>10 DEF Edits
<1>12. NewAt(a, 0) = NewAt(e, 0) \union {f}
  <2>1. /\ NewAt(a, 0) = {more[i].file : i \in 1..Len(more)}
        /\ NewAt(e, 0) = {new[i].file : i \in 1..Len(new)}
    BY <1>6, <1>11, NewAtType
  <2>2. 1..Len(more) = (1..Len(new)) \union {Len(new) + 1}
    BY <1>8
  <2> QED BY <1>5, <1>8, <2>1, <2>2
<1> QED BY <1>3, <1>9, <1>11, <1>12

\* A file with the next number joins those before it.
LEMMA NextIsNew ==
  ASSUME NEW n \in Nat, NEW old, NEW new, old \in SUBSET FileMate, new \in SUBSET FileMate,
         Distinct(old \union new), old \cap new = {},
         \A f \in old \union new : f.num < n, NEW g \in FileMate, g.num = n
  PROVE  /\ Distinct(old \union (new \union {g})) /\ old \cap (new \union {g}) = {}
         /\ \A f \in old \union (new \union {g}) : f.num < n + 1
<1>1. \A f \in old \union new : f.num \in Nat /\ f.num # g.num
  BY FileNumbers
<1>2. Distinct(old \union (new \union {g}))
  BY <1>1 DEF Distinct
<1>3. old \cap (new \union {g}) = {}
  BY <1>1
<1>4. \A f \in old \union (new \union {g}) : f.num < n + 1
  <2> SUFFICES ASSUME NEW f \in old \union (new \union {g}) PROVE f.num < n + 1
    OBVIOUS
  <2>1. CASE f = g
    BY <2>1
  <2>2. CASE f \in old \union new
    <3>1. f.num \in Nat /\ f.num < n
      BY <1>1, <2>2
    <3> QED BY <3>1
  <2> QED BY <2>1, <2>2
<1> QED BY <1>2, <1>3, <1>4
-----------------------------------------------------------------------------
New == NewAt(edit, 0)
Opening == pc \in {"closed", "replay"}
           \/ (caller = "Open" /\ pc \in {"apply", "write", "current", "install"})

\* Numbers go up: a table of this session, in force or in the edit, has its own.
NumbersInv ==
  /\ edit \in Edits
  /\ IsFiniteSet(installed) /\ Distinct(installed \union New) /\ installed \cap New = {}
  /\ \A f \in installed \union New : f.num < next_file_number
  /\ pc \notin {"closed", "error"} => log_number < next_file_number

\* Where the edit stands: its log is the one in use, and its version is made.
EditInv ==
  /\ pc \in {"closed", "open"} => edit = NoEdit
  /\ pc \in {"apply", "write", "current", "install"} =>
       edit.log = <<logfilenum>> /\ log_number <= logfilenum /\ logfilenum < next_file_number
  /\ pc \in {"write", "current", "install"} =>
       /\ edit.next = <<next_file_number>> /\ edit.seq = <<last_sequence>>
       /\ Lists(v, installed \union New)
  /\ pc = "open" => log_number <= logfilenum /\ logfilenum < next_file_number

\* Where the manifest stands.
ManifestInv ==
  /\ \E l, n \in Nat : \E files \in SUBSET FileMate : Gives(manifest, l, n, files)
  /\ Opening => installed = {} /\ caller = "Open"
  /\ Opening /\ pc \notin {"current", "install"} => descriptor = <<>> /\ ~isCurrent
  /\ pc = "open" \/ (~Opening /\ pc \in {"apply", "write"}) =>
       /\ isCurrent /\ manifest = descriptor
       /\ \E n \in Nat : n <= next_file_number /\ Gives(descriptor, log_number, n, installed)
  /\ pc \in {"current", "install"} =>
       Gives(descriptor, logfilenum, next_file_number, installed \union New)
  /\ pc = "install" \/ (pc = "current" /\ isCurrent) => isCurrent /\ manifest = descriptor

\* No version has a score of 1: without it PickCompaction is not reached, no compact
\* pointer is set and no edit deletes a table.
CompactionIdle == ~score

VersionsInv == TypeOK /\ Lists(nowversion, installed) /\ CompactionIdle
               /\ NumbersInv /\ EditInv /\ ManifestInv

LEMMA VersionsInitInv == Init => VersionsInv
<1> SUFFICES ASSUME Init PROVE VersionsInv
  OBVIOUS
<1>1. PICK e : e = [NoEdit EXCEPT !.log = <<0>>, !.next = <<2>>, !.seq = <<0>>]
  OBVIOUS
<1>2. Stamped(e, 0, 2, 0) /\ NewAt(e, 0) = {}
  <2>1. PICK a, b : a = <<0>> /\ b = <<2>>
    OBVIOUS
  <2>2. a \in Seq(Nat) /\ b \in Seq(Nat)
    BY <2>1
  <2>3. e = [NoEdit EXCEPT !.log = a, !.next = b, !.seq = a]
    BY <1>1, <2>1
  <2>4. e \in Edits /\ e.log = a /\ e.next = b /\ e.seq = a /\ e.new = NoEdit.new
    BY <2>2, <2>3, NoEditType DEF Edits
  <2>5. NewAt(e, 0) = NewAt(NoEdit, 0)
    BY <2>4 DEF NewAt
  <2> QED BY <2>1, <2>4, <2>5, NoEditType DEF Stamped
<1>3. manifest = Append(<<>>, EncodeTo(e))
  <2>1. PICK r : r = EncodeTo(e)
    OBVIOUS
  <2>2. manifest = <<r>>
    BY <1>1, <2>1 DEF Init
  <2>3. Append(<<>>, r) = <<r>>
    OBVIOUS
  <2> QED BY <2>1, <2>2, <2>3
<1>4. Gives(manifest, 0, 2, {})
  <2>1. PICK none, files : none = <<>> /\ files = {}
    OBVIOUS
  <2>2. /\ Distinct(files \union NewAt(e, 0)) /\ files \cap NewAt(e, 0) = {}
        /\ \A f \in files \union NewAt(e, 0) : f.num < 2
        /\ 0 < 2 /\ none = <<>> /\ files = {}
    BY <1>2, <2>1 DEF Distinct
  <2>3. Gives(Append(none, EncodeTo(e)), 0, 2, files \union NewAt(e, 0))
    BY <1>2, <2>2, GivesMore
  <2> QED BY <1>2, <1>3, <2>1, <2>3
<1>5. /\ descriptor = <<>> /\ isCurrent = FALSE /\ next_file_number = 2 /\ log_number = 0
      /\ last_sequence = 0 /\ nowversion = NoFiles /\ versionlist = {NoFiles} /\ score = FALSE
      /\ edit = NoEdit /\ v = NoFiles /\ logfilenum = 0 /\ imm = FALSE /\ flushed = FALSE
      /\ pc = "closed" /\ caller = "Open" /\ opens = 0 /\ installed = {}
  BY DEF Init
<1>6. TypeOK
  <2>1. manifest # <<>>
    BY <1>4 DEF Gives
  <2>2. opens \in 0..MaxOpens
    BY <1>5, LevelsAssumption
  <2>3. nowversion \in Version /\ v \in Version /\ versionlist \subseteq Version
    BY <1>5, NoFilesLists
  <2>4. isCurrent \in BOOLEAN /\ score \in BOOLEAN /\ imm \in BOOLEAN /\ flushed \in BOOLEAN
    BY <1>5, Zenon
  <2> QED BY <1>5, <2>1, <2>2, <2>3, <2>4 DEF TypeOK
<1>7. Lists(nowversion, installed) /\ CompactionIdle
  BY <1>5, NoFilesLists DEF CompactionIdle
<1>8. New = {}
  BY <1>5, NoEditType DEF New
<1>9. NumbersInv
  <2>1. Distinct({})
    BY DEF Distinct
  <2> QED BY <1>5, <1>8, <2>1, NoEditType, FS_EmptySet DEF NumbersInv
<1>10. EditInv
  BY <1>5 DEF EditInv
<1>11. ManifestInv
  BY <1>4, <1>5 DEF ManifestInv, Opening
<1> QED BY <1>6, <1>7, <1>9, <1>10, <1>11 DEF VersionsInv

\* A process that ends leaves the manifest and nothing else.
Ends == /\ Volatile /\ pc' = "closed"
        /\ next_file_number' = 2 /\ log_number' = 0 /\ last_sequence' = 0
        /\ versionlist' = {NoFiles}
        /\ UNCHANGED <<manifest, opens>>

LEMMA EndsInv == VersionsInv /\ Ends => VersionsInv'
<1> SUFFICES ASSUME VersionsInv, Ends PROVE VersionsInv'
  OBVIOUS
<1>1. /\ descriptor' = <<>> /\ isCurrent' = FALSE /\ nowversion' = NoFiles /\ score' = FALSE
      /\ edit' = NoEdit /\ v' = NoFiles /\ logfilenum' = 0 /\ imm' = FALSE /\ flushed' = FALSE
      /\ caller' = "Open" /\ installed' = {} /\ pc' = "closed"
      /\ next_file_number' = 2 /\ log_number' = 0 /\ last_sequence' = 0
      /\ versionlist' = {NoFiles} /\ manifest' = manifest /\ opens' = opens
  BY DEF Ends, Volatile
<1>2. TypeOK'
  <2>1. manifest # <<>> /\ opens \in 0..MaxOpens
    BY DEF VersionsInv, TypeOK
  <2>2. nowversion' \in Version /\ v' \in Version /\ versionlist' \subseteq Version
    BY <1>1, NoFilesLists
  <2>3. isCurrent' \in BOOLEAN /\ score' \in BOOLEAN /\ imm' \in BOOLEAN /\ flushed' \in BOOLEAN
    BY <1>1, Zenon
  <2> QED BY <1>1, <2>1, <2>2, <2>3 DEF TypeOK
<1>3. Lists(nowversion, installed)' /\ CompactionIdle'
  BY <1>1, NoFilesLists DEF CompactionIdle
<1>4. New' = {}
  BY <1>1, NoEditType DEF New
<1>5. NumbersInv'
  <2>1. Distinct({})
    BY DEF Distinct
  <2> QED BY <1>1, <1>4, <2>1, NoEditType, FS_EmptySet DEF NumbersInv
<1>6. EditInv'
  BY <1>1 DEF EditInv
<1>7. ManifestInv'
  <2>1. \E l, n \in Nat : \E files \in SUBSET FileMate : Gives(manifest, l, n, files)
    BY DEF VersionsInv, ManifestInv
  <2> QED BY <1>1, <2>1 DEF ManifestInv, Opening
<1> QED BY <1>2, <1>3, <1>5, <1>6, <1>7 DEF VersionsInv

LEMMA RecoverInv == VersionsInv /\ Recover => VersionsInv'
<1> SUFFICES ASSUME VersionsInv, Recover PROVE VersionsInv'
  OBVIOUS
<1>1. PICK l \in Nat, n \in Nat, files \in SUBSET FileMate : Gives(manifest, l, n, files)
  BY DEF VersionsInv, ManifestInv
<1>2. PICK r : r = Replayed(manifest)
  OBVIOUS
<1>3. r.log = l /\ r.next = n /\ r.seq \in Nat /\ Lists(r.version, files)
  BY <1>1, <1>2, ReplayedGives
<1>4. l < n
  BY <1>1 DEF Gives
<1>5. /\ pc = "closed" /\ opens < MaxOpens /\ next_file_number' = n + 1 /\ log_number' = l
      /\ last_sequence' = r.seq /\ versionlist' = {NoFiles, r.version}
      /\ score' = Finalize(r.version) /\ pc' = "replay" /\ opens' = opens + 1
      /\ manifest' = manifest /\ descriptor' = descriptor /\ isCurrent' = isCurrent
      /\ nowversion' = nowversion /\ edit' = edit /\ v' = v /\ logfilenum' = logfilenum
      /\ imm' = imm /\ flushed' = flushed /\ caller' = caller /\ installed' = installed
  BY <1>2, <1>3 DEF Recover
<1>6. score' = FALSE
  <2>1. ~score'
    BY <1>3, <1>5, ListsIdle
  <2>2. score' \in BOOLEAN
    BY <1>5, Zenon DEF Finalize
  <2> QED BY <2>1, <2>2, Zenon
<1>7. TypeOK'
  <2>1. /\ manifest # <<>> /\ opens \in 0..MaxOpens /\ nowversion \in Version /\ v \in Version
        /\ logfilenum \in Nat /\ caller \in {"Open", "Flush"} /\ installed \subseteq FileMate
    BY DEF VersionsInv, TypeOK
  <2>2. opens' \in 0..MaxOpens
    BY <1>5, <2>1, LevelsAssumption
  <2>3. versionlist' \subseteq Version
    <3>1. r.version \in Version
      BY <1>3 DEF Lists
    <3> QED BY <1>5, <3>1, NoFilesLists
  <2>4. isCurrent' \in BOOLEAN /\ score' \in BOOLEAN /\ imm' \in BOOLEAN /\ flushed' \in BOOLEAN
    BY <1>5, <1>6, Zenon DEF VersionsInv, TypeOK
  <2> QED BY <1>3, <1>5, <2>1, <2>2, <2>3, <2>4 DEF TypeOK
<1>8. Lists(nowversion, installed)' /\ CompactionIdle'
  BY <1>5, <1>6 DEF CompactionIdle, VersionsInv
<1>9. edit = NoEdit /\ New = {} /\ New' = {} /\ installed = {} /\ caller = "Open"
      /\ descriptor = <<>> /\ ~isCurrent
  BY <1>5, NoEditType DEF VersionsInv, EditInv, ManifestInv, Opening, New
<1>10. NumbersInv'
  <2>1. Distinct({})
    BY DEF Distinct
  <2>2. l < n + 1
    BY <1>4
  <2> QED BY <1>5, <1>9, <2>1, <2>2, NoEditType, FS_EmptySet DEF NumbersInv
<1>11. EditInv'
  BY <1>5 DEF EditInv
<1>12. ManifestInv'
  BY <1>1, <1>5, <1>9 DEF ManifestInv, Opening
<1> QED BY <1>7, <1>8, <1>10, <1>11, <1>12 DEF VersionsInv

LEMMA ReplayTableInv ==
  ASSUME VersionsInv, NEW range \in Ranges, ReplayTable(range)
  PROVE  VersionsInv'
<1>1. /\ pc = "replay" /\ edit' = AddFile(range, edit) /\ next_file_number' = next_file_number + 1
      /\ manifest' = manifest /\ descriptor' = descriptor /\ isCurrent' = isCurrent
      /\ log_number' = log_number /\ last_sequence' = last_sequence /\ nowversion' = nowversion
      /\ versionlist' = versionlist /\ score' = score /\ v' = v /\ logfilenum' = logfilenum
      /\ imm' = imm /\ flushed' = flushed /\ pc' = pc /\ caller' = caller /\ opens' = opens
      /\ installed' = installed
  BY DEF ReplayTable
<1>2. TypeOK /\ Lists(nowversion, installed) /\ CompactionIdle /\ NumbersInv /\ EditInv /\ ManifestInv
  BY DEF VersionsInv
<1>3. next_file_number \in Nat /\ log_number \in Nat /\ installed \subseteq FileMate
  BY <1>2 DEF TypeOK
<1>4. TypeOK'
  <2>1. isCurrent' \in BOOLEAN /\ score' \in BOOLEAN /\ imm' \in BOOLEAN /\ flushed' \in BOOLEAN
    BY <1>1, <1>2, Zenon DEF TypeOK
  <2> QED BY <1>1, <1>2, <2>1 DEF TypeOK
<1>5. Lists(nowversion, installed)' /\ CompactionIdle'
  BY <1>1, <1>2 DEF CompactionIdle
<1>6. edit \in Edits /\ New \in SUBSET FileMate
  BY <1>2, NewAtType DEF NumbersInv, New
<1>7. PICK f \in FileMate : f.num = next_file_number /\ New' = New \union {f} /\ edit' \in Edits
  BY <1>1, <1>3, <1>6, AddFileAdds DEF New
<1>8. NumbersInv'
  <2>1. /\ Distinct(installed \union New) /\ installed \cap New = {}
        /\ (\A g \in installed \union New : g.num < next_file_number) /\ IsFiniteSet(installed)
        /\ log_number < next_file_number
    BY <1>1, <1>2 DEF NumbersInv
  <2>2. /\ Distinct(installed \union (New \union {f})) /\ installed \cap (New \union {f}) = {}
        /\ \A g \in installed \union (New \union {f}) : g.num < next_file_number + 1
    BY <1>3, <1>6, <1>7, <2>1, NextIsNew
  <2>3. log_number < next_file_number + 1
    BY <1>3, <2>1
  <2> QED BY <1>1, <1>7, <2>1, <2>2, <2>3 DEF NumbersInv
<1>9. EditInv'
  BY <1>1 DEF EditInv
<1>10. ManifestInv'
  BY <1>1, <1>2 DEF ManifestInv, Opening
<1> QED BY <1>4, <1>5, <1>8, <1>9, <1>10 DEF VersionsInv

LEMMA NewLogInv == VersionsInv /\ NewLog => VersionsInv'
<1> SUFFICES ASSUME VersionsInv, NewLog PROVE VersionsInv'
  OBVIOUS
<1>1. /\ pc = "replay" /\ logfilenum' = next_file_number
      /\ next_file_number' = next_file_number + 1
      /\ edit' = [edit EXCEPT !.log = <<next_file_number>>] /\ pc' = "apply"
      /\ manifest' = manifest /\ descriptor' = descriptor /\ isCurrent' = isCurrent
      /\ log_number' = log_number /\ last_sequence' = last_sequence /\ nowversion' = nowversion
      /\ versionlist' = versionlist /\ score' = score /\ v' = v
      /\ imm' = imm /\ flushed' = flushed /\ caller' = caller /\ opens' = opens
      /\ installed' = installed
  BY DEF NewLog
<1>2. TypeOK /\ Lists(nowversion, installed) /\ CompactionIdle /\ NumbersInv /\ EditInv /\ ManifestInv
  BY DEF VersionsInv
<1>3. next_file_number \in Nat /\ log_number \in Nat /\ installed \subseteq FileMate
  BY <1>2 DEF TypeOK
<1>4. TypeOK'
  <2>1. isCurrent' \in BOOLEAN /\ score' \in BOOLEAN /\ imm' \in BOOLEAN /\ flushed' \in BOOLEAN
    BY <1>1, <1>2, Zenon DEF TypeOK
  <2> QED BY <1>1, <1>2, <2>1 DEF TypeOK
<1>5. Lists(nowversion, installed)' /\ CompactionIdle'
  BY <1>1, <1>2 DEF CompactionIdle
<1>6. edit \in Edits /\ New \in SUBSET FileMate
  BY <1>2, NewAtType DEF NumbersInv, New
<1>7. edit' \in Edits /\ edit'.log = <<next_file_number>> /\ New' = New
  <2>1. PICK x : x = [edit EXCEPT !.log = <<next_file_number>>]
    OBVIOUS
  <2>2. x \in Edits /\ x.log = <<next_file_number>> /\ NewAt(x, 0) = NewAt(edit, 0)
    BY <1>3, <1>6, <2>1, SetLogNumber
  <2>3. edit' = x
    BY <1>1, <2>1
  <2> QED BY <2>2, <2>3 DEF New
<1>8. log_number < next_file_number
  BY <1>1, <1>2 DEF NumbersInv
<1>9. NumbersInv'
  <2>1. \A f \in installed \union New : f.num < next_file_number + 1
    <3> SUFFICES ASSUME NEW f \in installed \union New PROVE f.num < next_file_number + 1
      OBVIOUS
    <3>1. f \in FileMate /\ f.num < next_file_number
      BY <1>2, <1>3, <1>6 DEF NumbersInv
    <3>2. f.num \in Nat
      BY <3>1, FileNumbers
    <3> QED BY <1>3, <3>1, <3>2
  <2>2. log_number < next_file_number + 1
    BY <1>3, <1>8
  <2> QED BY <1>1, <1>2, <1>7, <2>1, <2>2 DEF NumbersInv
<1>10. EditInv'
  <2>1. log_number <= next_file_number /\ next_file_number < next_file_number + 1
    BY <1>3, <1>8
  <2> QED BY <1>1, <1>7, <2>1 DEF EditInv
<1>11. ManifestInv'
  BY <1>1, <1>2 DEF ManifestInv, Opening
<1> QED BY <1>4, <1>5, <1>9, <1>10, <1>11 DEF VersionsInv

LEMMA RotateInv == VersionsInv /\ Rotate => VersionsInv'
<1> SUFFICES ASSUME VersionsInv, Rotate PROVE VersionsInv'
  OBVIOUS
<1>1. /\ pc = "open" /\ logfilenum' = next_file_number /\ last_sequence' = last_sequence + 1
      /\ next_file_number' = next_file_number + 1 /\ imm' = TRUE
      /\ manifest' = manifest /\ descriptor' = descriptor /\ isCurrent' = isCurrent
      /\ log_number' = log_number /\ nowversion' = nowversion
      /\ versionlist' = versionlist /\ score' = score /\ v' = v /\ edit' = edit
      /\ flushed' = flushed /\ caller' = caller /\ opens' = opens
      /\ installed' = installed /\ pc' = pc
  BY DEF Rotate
<1>2. TypeOK /\ Lists(nowversion, installed) /\ CompactionIdle /\ NumbersInv /\ EditInv /\ ManifestInv
  BY DEF VersionsInv
<1>3. next_file_number \in Nat /\ log_number \in Nat /\ installed \subseteq FileMate
  BY <1>2 DEF TypeOK
<1>4. TypeOK'
  <2>1. isCurrent' \in BOOLEAN /\ score' \in BOOLEAN /\ imm' \in BOOLEAN /\ flushed' \in BOOLEAN
    BY <1>1, <1>2, Zenon DEF TypeOK
  <2> QED BY <1>1, <1>2, <2>1 DEF TypeOK
<1>5. Lists(nowversion, installed)' /\ CompactionIdle'
  BY <1>1, <1>2 DEF CompactionIdle
<1>6. edit \in Edits /\ New \in SUBSET FileMate
  BY <1>2, NewAtType DEF NumbersInv, New
<1>7. New' = New /\ log_number < next_file_number
  BY <1>1, <1>2 DEF New, NumbersInv
<1>8. NumbersInv'
  <2>1. \A f \in installed \union New : f.num < next_file_number + 1
    <3> SUFFICES ASSUME NEW f \in installed \union New PROVE f.num < next_file_number + 1
      OBVIOUS
    <3>1. f \in FileMate /\ f.num < next_file_number
      BY <1>2, <1>3, <1>6 DEF NumbersInv
    <3>2. f.num \in Nat
      BY <3>1, FileNumbers
    <3> QED BY <1>3, <3>1, <3>2
  <2>2. log_number < next_file_number + 1
    BY <1>3, <1>7
  <2> QED BY <1>1, <1>2, <1>7, <2>1, <2>2 DEF NumbersInv
<1>9. EditInv'
  <2>1. log_number <= next_file_number /\ next_file_number < next_file_number + 1
    BY <1>3, <1>7
  <2> QED BY <1>1, <1>2, <2>1 DEF EditInv
<1>10. ManifestInv'
  <2>1. PICK n \in Nat : n <= next_file_number /\ Gives(descriptor, log_number, n, installed)
    BY <1>1, <1>2 DEF ManifestInv
  <2>2. n <= next_file_number + 1
    BY <1>3, <2>1
  <2> QED BY <1>1, <1>2, <2>1, <2>2 DEF ManifestInv, Opening
<1> QED BY <1>4, <1>5, <1>8, <1>9, <1>10 DEF VersionsInv

LEMMA FlushInv ==
  ASSUME VersionsInv, NEW range \in Ranges, Flush(range)
  PROVE  VersionsInv'
<1>1. /\ pc = "open" /\ edit' = [AddFile(range, NoEdit) EXCEPT !.log = <<logfilenum>>]
      /\ next_file_number' = next_file_number + 1 /\ flushed' = TRUE /\ pc' = "apply"
      /\ caller' = "Flush"
      /\ manifest' = manifest /\ descriptor' = descriptor /\ isCurrent' = isCurrent
      /\ log_number' = log_number /\ last_sequence' = last_sequence /\ nowversion' = nowversion
      /\ versionlist' = versionlist /\ score' = score /\ v' = v /\ logfilenum' = logfilenum
      /\ imm' = imm /\ opens' = opens /\ installed' = installed
  BY DEF Flush
<1>2. TypeOK /\ Lists(nowversion, installed) /\ CompactionIdle /\ NumbersInv /\ EditInv /\ ManifestInv
  BY DEF VersionsInv
<1>3. /\ next_file_number \in Nat /\ log_number \in Nat /\ logfilenum \in Nat
      /\ installed \subseteq FileMate
  BY <1>2 DEF TypeOK
<1>4. TypeOK'
  <2>1. isCurrent' \in BOOLEAN /\ score' \in BOOLEAN /\ imm' \in BOOLEAN /\ flushed' \in BOOLEAN
    BY <1>1, <1>2, Zenon DEF TypeOK
  <2> QED BY <1>1, <1>2, <2>1 DEF TypeOK
<1>5. Lists(nowversion, installed)' /\ CompactionIdle'
  BY <1>1, <1>2 DEF CompactionIdle
<1>6. PICK e : e = AddFile(range, NoEdit)
  OBVIOUS
<1>7. PICK f \in FileMate : f.num = next_file_number /\ NewAt(e, 0) = {} \union {f} /\ e \in Edits
  BY <1>3, <1>6, AddFileAdds, NoEditType
<1>8. edit' \in Edits /\ edit'.log = <<logfilenum>> /\ New' = {} \union {f}
  <2>1. PICK x : x = [e EXCEPT !.log = <<logfilenum>>]
    OBVIOUS
  <2>2. x \in Edits /\ x.log = <<logfilenum>> /\ NewAt(x, 0) = NewAt(e, 0)
    BY <1>3, <1>7, <2>1, SetLogNumber
  <2>3. edit' = x
    BY <1>1, <1>6, <2>1
  <2> QED BY <1>7, <2>2, <2>3 DEF New
<1>9. edit = NoEdit /\ New = {} /\ log_number <= logfilenum /\ logfilenum < next_file_number
  BY <1>1, <1>2, NoEditType DEF EditInv, New
<1>10. NumbersInv'
  <2>1. PICK none : none = {} /\ none \in SUBSET FileMate
    <3>1. {} \in SUBSET FileMate
      OBVIOUS
    <3> QED BY <3>1
  <2>2. /\ Distinct(installed \union none) /\ installed \cap none = {}
        /\ (\A g \in installed \union none : g.num < next_file_number) /\ IsFiniteSet(installed)
        /\ log_number < next_file_number
    BY <1>1, <1>2, <1>9, <2>1 DEF NumbersInv
  <2>3. /\ Distinct(installed \union (none \union {f})) /\ installed \cap (none \union {f}) = {}
        /\ \A g \in installed \union (none \union {f}) : g.num < next_file_number + 1
    <3>1. PICK n \in Nat : n = next_file_number
      BY <1>3
    <3>2. /\ installed \in SUBSET FileMate /\ none \in SUBSET FileMate
          /\ Distinct(installed \union none) /\ installed \cap none = {}
          /\ (\A g \in installed \union none : g.num < n) /\ f.num = n
      BY <1>3, <1>7, <2>1, <2>2, <3>1
    <3>3. /\ Distinct(installed \union (none \union {f})) /\ installed \cap (none \union {f}) = {}
          /\ \A g \in installed \union (none \union {f}) : g.num < n + 1
      BY <3>2, NextIsNew, Zenon
    <3> QED BY <3>1, <3>3
  <2>4. log_number < next_file_number + 1
    BY <1>3, <2>2
  <2> QED BY <1>1, <1>8, <2>1, <2>2, <2>3, <2>4 DEF NumbersInv
<1>11. EditInv'
  <2>1. logfilenum < next_file_number + 1
    BY <1>3, <1>9
  <2> QED BY <1>1, <1>8, <1>9, <2>1 DEF EditInv
<1>12. ManifestInv'
  <2>1. PICK n \in Nat : n <= next_file_number /\ Gives(descriptor, log_number, n, installed)
    BY <1>1, <1>2 DEF ManifestInv
  <2>2. n <= next_file_number + 1
    BY <1>3, <2>1
  <2> QED BY <1>1, <1>2, <2>1, <2>2 DEF ManifestInv, Opening
<1> QED BY <1>4, <1>5, <1>10, <1>11, <1>12 DEF VersionsInv

LEMMA LogAndApplyInv == VersionsInv /\ LogAndApply => VersionsInv'
<1> SUFFICES ASSUME VersionsInv, LogAndApply PROVE VersionsInv'
  OBVIOUS
<1>1. /\ pc = "apply" /\ edit' = Stamp(edit)
      /\ v' = SaveTo(Apply(Builder(nowversion), edit)) /\ score' = Finalize(v')
      /\ pc' = "write" /\ manifest' = manifest /\ isCurrent' = isCurrent
      /\ next_file_number' = next_file_number /\ log_number' = log_number
      /\ last_sequence' = last_sequence /\ nowversion' = nowversion
      /\ versionlist' = versionlist /\ logfilenum' = logfilenum
      /\ imm' = imm /\ flushed' = flushed /\ caller' = caller /\ opens' = opens
      /\ installed' = installed
  BY DEF LogAndApply
<1>2. TypeOK /\ Lists(nowversion, installed) /\ CompactionIdle /\ NumbersInv /\ EditInv /\ ManifestInv
  BY DEF VersionsInv
<1>3. /\ next_file_number \in Nat /\ last_sequence \in Nat /\ installed \subseteq FileMate
  BY <1>2 DEF TypeOK
<1>4. /\ edit \in Edits /\ New \in SUBSET FileMate /\ IsFiniteSet(New) /\ New = NewAt(edit, 0)
      /\ IsFiniteSet(installed) /\ Distinct(installed \union New) /\ installed \cap New = {}
  BY <1>2, NewAtType DEF NumbersInv, New
<1>5. /\ edit' \in Edits /\ edit'.next = <<next_file_number>> /\ edit'.seq = <<last_sequence>>
      /\ edit'.log = edit.log /\ New' = New
  <2>1. PICK e : e = Stamp(edit)
    OBVIOUS
  <2>2. /\ e \in Edits /\ e.next = <<next_file_number>> /\ e.seq = <<last_sequence>>
        /\ e.log = edit.log /\ NewAt(e, 0) = NewAt(edit, 0)
    BY <1>3, <1>4, <2>1, StampSets
  <2>3. edit' = e
    BY <1>1, <2>1
  <2> QED BY <2>2, <2>3 DEF New
<1>6. Lists(v', installed \union New)
  <2>1. PICK none : none = {}
    OBVIOUS
  <2>2. Builder(nowversion) = Batch(nowversion, none) /\ none \in SUBSET FileMate
    BY <2>1, BuilderIsBatch
  <2>3. Distinct(none \union NewAt(edit, 0)) /\ none \cap NewAt(edit, 0) = {}
        /\ none \union NewAt(edit, 0) = New
    BY <1>4, <2>1 DEF Distinct
  <2>4. Apply(Batch(nowversion, none), edit) = Batch(nowversion, none \union NewAt(edit, 0))
    BY <1>4, <2>2, <2>3, ApplyAdds
  <2>5. v' = SaveTo(Batch(nowversion, New))
    BY <1>1, <2>2, <2>3, <2>4
  <2>6. IsFiniteSet(installed \union New)
    BY <1>4, FS_Union
  <2>7. Lists(SaveTo(Batch(nowversion, New)), installed \union New)
    BY <1>2, <1>4, <2>6, SaveToLists
  <2> QED BY <2>5, <2>7
<1>7. score' = FALSE
  <2>1. ~score'
    BY <1>1, <1>6, ListsIdle
  <2>2. score' \in BOOLEAN
    BY <1>1, Zenon DEF Finalize
  <2> QED BY <2>1, <2>2, Zenon
<1>8. descriptor' = descriptor
  <2>1. CASE Opening
    <3>1. installed = {}
      BY <1>2, <2>1 DEF ManifestInv
    <3>2. nowversion = NoFiles
      BY <1>2, <3>1, NoFilesLists, ListsUnique
    <3> QED BY <3>2, SnapshotNoFiles DEF LogAndApply
  <2>2. CASE ~Opening
    <3>1. descriptor # <<>>
      BY <1>1, <1>2, <2>2 DEF ManifestInv, Gives
    <3> QED BY <3>1 DEF LogAndApply
  <2> QED BY <2>1, <2>2
<1>9. TypeOK'
  <2>1. isCurrent' \in BOOLEAN /\ score' \in BOOLEAN /\ imm' \in BOOLEAN /\ flushed' \in BOOLEAN
    BY <1>1, <1>2, <1>7, Zenon DEF TypeOK
  <2>2. v' \in Version
    BY <1>6 DEF Lists
  <2> QED BY <1>1, <1>2, <2>1, <2>2 DEF TypeOK
<1>10. Lists(nowversion, installed)' /\ CompactionIdle'
  BY <1>1, <1>2, <1>7 DEF CompactionIdle
<1>11. NumbersInv'
  BY <1>1, <1>2, <1>5 DEF NumbersInv
<1>12. EditInv'
  BY <1>1, <1>2, <1>5, <1>6 DEF EditInv
<1>13. ManifestInv'
  BY <1>1, <1>2, <1>8 DEF ManifestInv, Opening
<1> QED BY <1>9, <1>10, <1>11, <1>12, <1>13 DEF VersionsInv

LEMMA WriteEditInv == VersionsInv /\ WriteEdit => VersionsInv'
<1> SUFFICES ASSUME VersionsInv, WriteEdit PROVE VersionsInv'
  OBVIOUS
<1>1. /\ pc = "write" /\ descriptor' = Append(descriptor, EncodeTo(edit))
      /\ manifest' = IF isCurrent THEN descriptor' ELSE manifest
      /\ pc' = "current" /\ isCurrent' = isCurrent
      /\ next_file_number' = next_file_number /\ log_number' = log_number
      /\ last_sequence' = last_sequence /\ nowversion' = nowversion
      /\ versionlist' = versionlist /\ score' = score /\ edit' = edit /\ v' = v
      /\ logfilenum' = logfilenum
      /\ imm' = imm /\ flushed' = flushed /\ caller' = caller /\ opens' = opens
      /\ installed' = installed
  BY DEF WriteEdit, vset
<1>2. TypeOK /\ Lists(nowversion, installed) /\ CompactionIdle /\ NumbersInv /\ EditInv /\ ManifestInv
  BY DEF VersionsInv
<1>3. /\ next_file_number \in Nat /\ last_sequence \in Nat /\ logfilenum \in Nat
      /\ installed \in SUBSET FileMate
  BY <1>2 DEF TypeOK
<1>4. /\ edit \in Edits /\ New = NewAt(edit, 0) /\ New' = New
      /\ Distinct(installed \union New) /\ installed \cap New = {}
      /\ \A f \in installed \union New : f.num < next_file_number
  BY <1>1, <1>2 DEF NumbersInv, New
<1>5. /\ Stamped(edit, logfilenum, next_file_number, last_sequence)
      /\ logfilenum < next_file_number
  BY <1>1, <1>2, <1>3, <1>4 DEF EditInv, Stamped
<1>6. \/ descriptor = <<>> /\ installed = {} /\ ~isCurrent /\ Opening
      \/ (\E k, m \in Nat : Gives(descriptor, k, m, installed)) /\ isCurrent /\ ~Opening
  <2>1. CASE Opening
    BY <1>1, <1>2, <2>1 DEF ManifestInv
  <2>2. CASE ~Opening
    <3>1. log_number \in Nat
      BY <1>2 DEF TypeOK
    <3>2. isCurrent /\ \E m \in Nat : Gives(descriptor, log_number, m, installed)
      BY <1>1, <1>2, <2>2 DEF ManifestInv
    <3> QED BY <2>2, <3>1, <3>2
  <2> QED BY <2>1, <2>2
<1>7. Gives(descriptor', logfilenum, next_file_number, installed \union New)
  <2>1. \/ descriptor = <<>> /\ installed = {}
        \/ \E k, m \in Nat : Gives(descriptor, k, m, installed)
    BY <1>6
  <2>2. Gives(Append(descriptor, EncodeTo(edit)), logfilenum, next_file_number,
              installed \union NewAt(edit, 0))
    BY <1>4, <1>5, <2>1, GivesMore
  <2> QED BY <1>1, <1>4, <2>2
<1>8. installed \union New \in SUBSET FileMate
  BY <1>3, <1>4, NewAtType
<1>9. \E l, n \in Nat : \E files \in SUBSET FileMate : Gives(manifest', l, n, files)
  <2>1. CASE isCurrent
    BY <1>1, <1>3, <1>7, <1>8, <2>1
  <2>2. CASE ~isCurrent
    BY <1>1, <1>2, <2>2 DEF ManifestInv
  <2> QED BY <2>1, <2>2
<1>10. TypeOK'
  <2>1. isCurrent' \in BOOLEAN /\ score' \in BOOLEAN /\ imm' \in BOOLEAN /\ flushed' \in BOOLEAN
    BY <1>1, <1>2, Zenon DEF TypeOK
  <2>2. manifest' # <<>>
    BY <1>9 DEF Gives
  <2> QED BY <1>1, <1>2, <2>1, <2>2 DEF TypeOK
<1>11. Lists(nowversion, installed)' /\ CompactionIdle'
  BY <1>1, <1>2 DEF CompactionIdle
<1>12. NumbersInv'
  BY <1>1, <1>2, <1>4 DEF NumbersInv
<1>13. EditInv'
  BY <1>1, <1>2, <1>4 DEF EditInv
<1>14. ManifestInv'
  <2>1. Opening' => installed' = {} /\ caller' = "Open"
    BY <1>1, <1>2 DEF ManifestInv, Opening
  <2>2. isCurrent' => manifest' = descriptor'
    BY <1>1
  <2> QED BY <1>1, <1>4, <1>7, <1>9, <2>1, <2>2 DEF ManifestInv
<1> QED BY <1>10, <1>11, <1>12, <1>13, <1>14 DEF VersionsInv

LEMMA SetCurrentFileInv == VersionsInv /\ SetCurrentFile => VersionsInv'
<1> SUFFICES ASSUME VersionsInv, SetCurrentFile PROVE VersionsInv'
  OBVIOUS
<1>1. /\ pc = "current" /\ isCurrent' = TRUE /\ manifest' = descriptor /\ pc' = "install"
      /\ descriptor' = descriptor
      /\ next_file_number' = next_file_number /\ log_number' = log_number
      /\ last_sequence' = last_sequence /\ nowversion' = nowversion
      /\ versionlist' = versionlist /\ score' = score /\ edit' = edit /\ v' = v
      /\ logfilenum' = logfilenum
      /\ imm' = imm /\ flushed' = flushed /\ caller' = caller /\ opens' = opens
      /\ installed' = installed
  BY DEF SetCurrentFile, vset
<1>2. TypeOK /\ Lists(nowversion, installed) /\ CompactionIdle /\ NumbersInv /\ EditInv /\ ManifestInv
  BY DEF VersionsInv
<1>3. New' = New
  BY <1>1 DEF New
<1>4. Gives(descriptor, logfilenum, next_file_number, installed \union New)
  BY <1>1, <1>2 DEF ManifestInv
<1>5. \E l, n \in Nat : \E files \in SUBSET FileMate : Gives(manifest', l, n, files)
  BY <1>1, <1>4 DEF Gives
<1>6. TypeOK'
  <2>1. isCurrent' \in BOOLEAN /\ score' \in BOOLEAN /\ imm' \in BOOLEAN /\ flushed' \in BOOLEAN
    BY <1>1, <1>2, Zenon DEF TypeOK
  <2>2. manifest' # <<>>
    BY <1>5 DEF Gives
  <2> QED BY <1>1, <1>2, <2>1, <2>2 DEF TypeOK
<1>7. Lists(nowversion, installed)' /\ CompactionIdle'
  BY <1>1, <1>2 DEF CompactionIdle
<1>8. NumbersInv'
  BY <1>1, <1>2, <1>3 DEF NumbersInv
<1>9. EditInv'
  BY <1>1, <1>2, <1>3 DEF EditInv
<1>10. ManifestInv'
  <2>1. Opening' => installed' = {} /\ caller' = "Open"
    BY <1>1, <1>2 DEF ManifestInv, Opening
  <2> QED BY <1>1, <1>3, <1>4, <1>5, <2>1 DEF ManifestInv
<1> QED BY <1>6, <1>7, <1>8, <1>9, <1>10 DEF VersionsInv

LEMMA InstallInv == VersionsInv /\ Install => VersionsInv'
<1> SUFFICES ASSUME VersionsInv, Install PROVE VersionsInv'
  OBVIOUS
<1>1. /\ pc = "install" /\ nowversion' = v /\ score' = FALSE
      /\ versionlist' = versionlist \cup {v} /\ log_number' = edit.log[1]
      /\ imm' = (imm /\ caller = "Open") /\ installed' = installed \union New
      /\ edit' = NoEdit /\ v' = NoFiles /\ pc' = "open"
      /\ manifest' = manifest /\ descriptor' = descriptor /\ isCurrent' = isCurrent
      /\ next_file_number' = next_file_number /\ last_sequence' = last_sequence
      /\ logfilenum' = logfilenum /\ flushed' = flushed /\ caller' = caller /\ opens' = opens
  BY DEF Install, New
<1>2. TypeOK /\ Lists(nowversion, installed) /\ CompactionIdle /\ NumbersInv /\ EditInv /\ ManifestInv
  BY DEF VersionsInv
<1>3. /\ edit.log = <<logfilenum>> /\ logfilenum < next_file_number
      /\ Lists(v, installed \union New)
  BY <1>1, <1>2 DEF EditInv
<1>4. /\ next_file_number \in Nat /\ logfilenum \in Nat /\ installed \in SUBSET FileMate
      /\ log_number' = logfilenum
  BY <1>1, <1>2, <1>3 DEF TypeOK
<1>5. /\ New \in SUBSET FileMate /\ IsFiniteSet(installed \union New)
  <2>1. edit \in Edits /\ IsFiniteSet(installed)
    BY <1>2 DEF NumbersInv
  <2>2. New \in SUBSET FileMate /\ IsFiniteSet(New)
    BY <2>1, NewAtType DEF New
  <2> QED BY <2>1, <2>2, FS_Union
<1>6. TypeOK'
  <2>1. isCurrent' \in BOOLEAN /\ score' \in BOOLEAN /\ flushed' \in BOOLEAN
    BY <1>1, <1>2, Zenon DEF TypeOK
  <2>2. imm' \in BOOLEAN
    BY <1>1, Zenon
  <2>3. v \in Version /\ v' \in Version /\ installed' \subseteq FileMate
    BY <1>1, <1>3, <1>4, <1>5, NoFilesLists DEF Lists
  <2> QED BY <1>1, <1>2, <1>4, <2>1, <2>2, <2>3 DEF TypeOK
<1>7. Lists(nowversion, installed)' /\ CompactionIdle'
  BY <1>1, <1>3 DEF CompactionIdle
<1>8. New' = {}
  BY <1>1, NoEditType DEF New
<1>9. NumbersInv'
  <2>1. /\ Distinct(installed \union New)
        /\ \A f \in installed \union New : f.num < next_file_number
    BY <1>2 DEF NumbersInv
  <2>2. installed' \union New' = installed \union New /\ installed' \cap New' = {}
    BY <1>1, <1>8
  <2>3. edit' \in Edits /\ IsFiniteSet(installed')
    BY <1>1, <1>5, NoEditType
  <2> QED BY <1>1, <1>3, <1>4, <2>1, <2>2, <2>3 DEF NumbersInv
<1>10. EditInv'
  <2>1. logfilenum <= logfilenum
    BY <1>4
  <2> QED BY <1>1, <1>3, <1>4, <2>1 DEF EditInv
<1>11. ManifestInv'
  <2>1. /\ Gives(descriptor, logfilenum, next_file_number, installed \union New)
        /\ isCurrent /\ manifest = descriptor
        /\ \E l, n \in Nat : \E files \in SUBSET FileMate : Gives(manifest, l, n, files)
    BY <1>1, <1>2 DEF ManifestInv
  <2>2. next_file_number <= next_file_number
    BY <1>4
  <2> QED BY <1>1, <1>4, <2>1, <2>2 DEF ManifestInv, Opening
<1> QED BY <1>6, <1>7, <1>9, <1>10, <1>11 DEF VersionsInv

LEMMA LogAndApplyFailsInv == VersionsInv /\ LogAndApplyFails => VersionsInv'
<1> SUFFICES ASSUME VersionsInv, LogAndApplyFails PROVE VersionsInv'
  OBVIOUS
<1>1. CASE caller = "Open"
  BY <1>1, EndsInv DEF LogAndApplyFails, Ends
<1>2. CASE caller # "Open"
  <2>1. /\ descriptor' = <<>> /\ pc' = "error" /\ manifest' = manifest
        /\ isCurrent' = isCurrent /\ next_file_number' = next_file_number
        /\ log_number' = log_number /\ last_sequence' = last_sequence /\ nowversion' = nowversion
        /\ versionlist' = versionlist /\ score' = score /\ edit' = edit /\ v' = v
        /\ logfilenum' = logfilenum /\ imm' = imm /\ flushed' = flushed /\ caller' = caller
        /\ opens' = opens /\ installed' = installed
    BY <1>2 DEF LogAndApplyFails, vset
  <2>2. TypeOK /\ Lists(nowversion, installed) /\ CompactionIdle /\ NumbersInv /\ EditInv /\ ManifestInv
    BY DEF VersionsInv
  <2>3. TypeOK'
    <3>1. isCurrent' \in BOOLEAN /\ score' \in BOOLEAN /\ imm' \in BOOLEAN /\ flushed' \in BOOLEAN
      BY <2>1, <2>2, Zenon DEF TypeOK
    <3> QED BY <2>1, <2>2, <3>1 DEF TypeOK
  <2>4. Lists(nowversion, installed)' /\ CompactionIdle'
    BY <2>1, <2>2 DEF CompactionIdle
  <2>5. NumbersInv'
    BY <2>1, <2>2 DEF NumbersInv, New
  <2>6. EditInv'
    BY <2>1 DEF EditInv
  <2>7. ManifestInv'
    BY <2>1, <2>2 DEF ManifestInv, Opening
  <2> QED BY <2>3, <2>4, <2>5, <2>6, <2>7 DEF VersionsInv
<1> QED BY <1>1, <1>2

LEMMA VersionsStutterInv == VersionsInv /\ UNCHANGED vars => VersionsInv'
<1> SUFFICES ASSUME VersionsInv, UNCHANGED vars PROVE VersionsInv'
  OBVIOUS
<1>1. /\ manifest' = manifest /\ descriptor' = descriptor /\ isCurrent' = isCurrent
      /\ next_file_number' = next_file_number /\ log_number' = log_number
      /\ last_sequence' = last_sequence /\ nowversion' = nowversion
      /\ versionlist' = versionlist /\ score' = score /\ edit' = edit /\ v' = v
      /\ logfilenum' = logfilenum /\ imm' = imm /\ flushed' = flushed /\ caller' = caller
      /\ opens' = opens /\ installed' = installed /\ pc' = pc
  BY DEF vars, vset
<1>2. TypeOK /\ Lists(nowversion, installed) /\ CompactionIdle /\ NumbersInv /\ EditInv /\ ManifestInv
  BY DEF VersionsInv
<1>3. TypeOK'
  <2>1. isCurrent' \in BOOLEAN /\ score' \in BOOLEAN /\ imm' \in BOOLEAN /\ flushed' \in BOOLEAN
    BY <1>1, <1>2, Zenon DEF TypeOK
  <2> QED BY <1>1, <1>2, <2>1 DEF TypeOK
<1>4. Lists(nowversion, installed)' /\ CompactionIdle'
  BY <1>1, <1>2 DEF CompactionIdle
<1>5. NumbersInv'
  BY <1>1, <1>2 DEF NumbersInv, New
<1>6. EditInv'
  BY <1>1, <1>2 DEF EditInv, New
<1>7. ManifestInv'
  BY <1>1, <1>2 DEF ManifestInv, Opening, New
<1> QED BY <1>3, <1>4, <1>5, <1>6, <1>7 DEF VersionsInv

\* The inductive invariant holds in every state, for every number of sessions, tables
\* and levels.
THEOREM VersionsInductive == Spec => []VersionsInv
<1>1. Init => VersionsInv
  BY VersionsInitInv
<1>2. VersionsInv /\ [Next]_vars => VersionsInv'
  <2> SUFFICES ASSUME VersionsInv, [Next]_vars PROVE VersionsInv'
    OBVIOUS
  <2>1. CASE Recover
    BY <2>1, RecoverInv
  <2>2. CASE NewLog
    BY <2>2, NewLogInv
  <2>3. CASE Rotate
    BY <2>3, RotateInv
  <2>4. CASE \E range \in Ranges : ReplayTable(range) \/ Flush(range)
    BY <2>4, ReplayTableInv, FlushInv
  <2>5. CASE LogAndApply
    BY <2>5, LogAndApplyInv
  <2>6. CASE WriteEdit
    BY <2>6, WriteEditInv
  <2>7. CASE SetCurrentFile
    BY <2>7, SetCurrentFileInv
  <2>8. CASE Install
    BY <2>8, InstallInv
  <2>9. CASE LogAndApplyFails
    BY <2>9, LogAndApplyFailsInv
  <2>10. CASE Stop
    BY <2>10, EndsInv DEF Stop, Ends
  <2>11. CASE UNCHANGED vars
    BY <2>11, VersionsStutterInv
  <2> QED BY <2>1, <2>2, <2>3, <2>4, <2>5, <2>6, <2>7, <2>8, <2>9, <2>10, <2>11 DEF Next
<1> QED BY <1>1, <1>2, PTL DEF Spec

\* Every variable keeps its type: the version that SaveTo makes has ordered lists of
\* tables on all levels, and the manifest is never empty.
THEOREM VersionsTypeCorrect == Spec => []TypeOK
<1>1. VersionsInv => TypeOK
  BY DEF VersionsInv
<1> QED BY <1>1, VersionsInductive, PTL

\* SaveTo's merges, edit after edit, leave level 0 of the current version with every
\* table of the session's edits, once, in BySmallestKey order.
THEOREM VersionAlwaysExact == Spec => []VersionExact
<1>1. VersionsInv => VersionExact
  BY DEF VersionsInv, Lists, Ordered, VersionExact
<1> QED BY <1>1, VersionsInductive, PTL

\* Reading the manifest back with Recover gives the current version, its log, and a
\* next file number beyond every table and log in use.
THEOREM ReplayAlwaysAgrees == Spec => []ReplayAgrees
<1>1. VersionsInv => ReplayAgrees
  <2> SUFFICES ASSUME VersionsInv, pc = "open" PROVE ReplayAgrees
    BY DEF ReplayAgrees
  <2>1. /\ Lists(nowversion, installed) /\ manifest = descriptor
        /\ \E n \in Nat : n <= next_file_number /\ Gives(descriptor, log_number, n, installed)
    BY DEF VersionsInv, ManifestInv
  <2>2. PICK n \in Nat : n <= next_file_number /\ Gives(manifest, log_number, n, installed)
    BY <2>1
  <2>3. PICK r : r = Replayed(manifest)
    OBVIOUS
  <2>4. r.log = log_number /\ r.next = n /\ Lists(r.version, installed)
    BY <2>2, <2>3, ReplayedGives
  <2>5. r.version = nowversion
    BY <2>1, <2>4, ListsUnique
  <2>6. log_number < n /\ \A f \in installed : f.num < n
    BY <2>2 DEF Gives
  <2>7. \A i \in DOMAIN nowversion[0] : nowversion[0][i] \in installed
    BY <2>1 DEF Lists, Range
  <2> QED BY <2>2, <2>3, <2>4, <2>5, <2>6, <2>7 DEF ReplayAgrees
<1> QED BY <1>1, VersionsInductive, PTL

\* The asserts at the head of LogAndApply never fail, in any session.
THEOREM EditLogAlwaysKnown == Spec => []EditLogKnown
<1>1. VersionsInv => EditLogKnown
  BY DEF VersionsInv, EditInv, EditLogKnown
<1> QED BY <1>1, VersionsInductive, PTL
=============================================================================
