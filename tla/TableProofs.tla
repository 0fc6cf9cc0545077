---------------------------- MODULE TableProofs ----------------------------
(***************************************************************************)
(* For any keys, values, hash and sizes, and whatever becomes of the       *)
(* writes: the filter of a table denies no key of it, and a table that is  *)
(* reported as built lies in the file as its handles say, unless bytes got *)
(* out of their order on the way.                                          *)
(***************************************************************************)
EXTENDS Table, SequenceTheorems, NumberLemmas, TLAPS

Key == Seq(Nat)

Entry == [off : Nat, end : Nat, shared : Nat, suffix : Key, val : Nat]

BlockState ==
  [entries : Seq(Entry), size : Nat, restarts : Seq(Nat), entrynum : Nat, last_key : Key]

\* The entries of a block spell the keys ks, each from the one before.
SpelledBy(b, ks) ==
  /\ ks \in [0..Len(b.entries) -> Key] /\ ks[0] = <<>>
  /\ \A i \in 1..Len(b.entries) :
       ks[i] = SubSeq(ks[i - 1], 1, b.entries[i].shared) \o b.entries[i].suffix

BlockInv(b) ==
  /\ b \in BlockState
  /\ \E ks : SpelledBy(b, ks) /\ b.last_key = ks[Len(b.entries)]

AllProbes == UNION {Probes(x[1], x[2]) : x \in (DOMAIN Hash) \X Nat}

Filter == [start : Nat, len : Nat, bits : SUBSET AllProbes]

FilterState ==
  [keys : Seq(DOMAIN Hash), offsets : Seq(Nat), filters : Seq(Filter), size : Nat]

\* The filter of the range in which off lies knows the key, or will, when it is made.
Known(fb, off, key) ==
  \/ off \div FilterBase = Len(fb.offsets) /\ \E i \in 1..Len(fb.keys) : fb.keys[i] = key
  \/ /\ off \div FilterBase < Len(fb.offsets)
     /\ BloomMayMatch(fb.filters, FilterAt(fb, off \div FilterBase),
                      FilterAt(fb, (off \div FilterBase) + 1), key)

Kept(fb, fc) == \A off \in Nat : \A key : Known(fb, off, key) => Known(fc, off, key)

Cell == Int \X Nat

FileState == [buf : Seq(Cell), offset : Nat, disk : Seq(Cell), lost : BOOLEAN]

FileInv(f) == f \in FileState /\ (f.offset = Len(f.buf) \/ Broken(f))

Kinds == {"data", "filter", "metaindex", "index"}

Placement ==
  [kind : Kinds, handle : [offset : Nat, size : Nat], holds : SUBSET (Key \union Nat),
   cells : Seq(Cell)]

\* pending_index_entry is never true, and so nothing gets into the index.
TableState ==
  [data : BlockState, index : {EmptyBlock}, filter : FilterState, file : FileState,
   offset : Nat, pending_index_entry : {FALSE}, ok : BOOLEAN, last_key : Key,
   placed : Seq(Placement)]

\* u has one block more than t, at the offset that t had.
PlacedLast(t, u, kind, holds) ==
  \E p \in Placement : /\ u.placed = Append(t.placed, p)
                       /\ p.kind = kind /\ p.handle.offset = t.offset /\ p.holds = holds

\* The filter knows every key of every data block under the offset of its handle.
AllKnown(t) ==
  \A i \in 1..Len(t.placed) :
    t.placed[i].kind = "data" =>
      \A key \in t.placed[i].holds : Known(t.filter, t.placed[i].handle.offset, key)

Written(t) == t \in TableState /\ FileInv(t.file) /\ AllKnown(t)

\* While entries are added: there are filters for the ranges before the one in which the
\* next block begins, and the keys of that block wait for the filter of its range.
Building(t) ==
  /\ Written(t) /\ BlockInv(t.data)
  /\ Len(t.filter.offsets) = t.offset \div FilterBase
  /\ \A key \in KeysIn(t.data) : \E i \in 1..Len(t.filter.keys) : t.filter.keys[i] = key

\* The result of snappy::Compress has a length.
CompressedLengths == \A n \in Nat : Compressed(n) \in Nat

TableInv ==
  /\ pc \in {"add", "sync", "close", "built", "deleted"}
  /\ used \in 0..Len(TableKeys)
  /\ Written(tb) /\ (pc = "add" => Building(tb))
  /\ pc \in {"sync", "close", "built"} => tb.filter.keys = <<>>

\* The cells that occur in a sequence.
CellsOf(s) == {s[k] : k \in 1..Len(s)}

\* What the file holds, or will when its buffer is written.
Held(f) == f.disk \o f.buf

Twice(s) == \E i, j \in 1..Len(s) : i < j /\ s[i] = s[j]

\* A sequence that is not an order of the cells in m: one is there twice, or not at all.
Spoiled(s, m) == Twice(s) \/ CellsOf(s) # m

\* Append was given the cells of m, each once.  If bytes got out of their order, then this
\* shows in the file for ever.
Sent(f, m) ==
  ~Broken(f) => CellsOf(Held(f)) \subseteq m /\ (f.lost => Spoiled(Held(f), m))

\* Nothing got out of its order.
Good(f) == ~Broken(f) /\ ~f.lost

\* All cells of data are different, and none is in m.
Fresh(data, m) ==
  /\ \A k, l \in 1..Len(data) : data[k] = data[l] => k = l
  /\ CellsOf(data) \intersect m = {}

\* Append was given data too, all of which is there if the file is good.
Sends(f, m, data, o) ==
  /\ Sent(o.f, m \union CellsOf(data))
  /\ Good(o.f) => Good(f) /\ o.ok /\ Held(o.f) = Held(f) \o data

\* The cells of the n-th block are its own and all different.
Own(s, n) ==
  /\ \A k \in 1..Len(s) : s[k][1] \in {n, -n}
  /\ \A k, l \in 1..Len(s) : s[k] = s[l] => k = l

\* A run of cells of one number, all different.
OwnCells(s, n, size) ==
  /\ s \in Seq(Cell) /\ Len(s) = size
  /\ \A k \in 1..size : s[k][1] = n
  /\ \A k, l \in 1..size : s[k] = s[l] => k = l

Begin(p) == p.handle.offset
End(p)   == p.handle.offset + Len(p.cells)

\* The Appends of a block and of what comes behind it, which is left out if the block could
\* not be appended.
TwoAppends(f, cells, back, o) ==
  \/ o \in FileAppend(f, cells) /\ ~o.ok
  \/ \E x \in FileAppend(f, cells) : o \in FileAppend(x.f, back)

\* u is t with a block more, as WriteRawBlock writes and records it.
OneMore(t, u, size, compressed) ==
  \E p, o, cells, back :
    /\ cells = Cells(Len(t.placed) + 1, size, compressed)
    /\ back = Cells(-(Len(t.placed) + 1), BackSize, FALSE)
    /\ u.placed = Append(t.placed, p) /\ p.handle.offset = t.offset /\ p.cells = cells \o back
    /\ u.file = o.f
    /\ u.offset = IF o.ok THEN t.offset + size + BackSize ELSE t.offset
    /\ TwoAppends(t.file, cells, back, o)

SentBy(t) == UNION {CellsOf(t.placed[i].cells) : i \in 1..Len(t.placed)}

\* The blocks cover the file up to end, and lie in it where their handles say, unless
\* bytes got out of their order.
Laid(t, end) ==
  /\ \A i \in 1..Len(t.placed) : Own(t.placed[i].cells, i)
  /\ \A k \in 1..end : \E i \in 1..Len(t.placed) : Begin(t.placed[i]) < k /\ k <= End(t.placed[i])
  /\ Good(t.file) => \A i \in 1..Len(t.placed) :
       /\ End(t.placed[i]) <= end
       /\ \A k \in 1..Len(t.placed[i].cells) :
            Held(t.file)[Begin(t.placed[i]) + k] = t.placed[i].cells[k]

\* Before the footer: the blocks are all that was sent.
LaidOpen(t) ==
  /\ Laid(t, t.offset) /\ Sent(t.file, SentBy(t))
  /\ Good(t.file) => Len(Held(t.file)) = t.offset

Footer == Cells(0, FooterSize, FALSE)

\* With the footer.
LaidClosed(t) ==
  /\ t.offset >= FooterSize /\ Laid(t, t.offset - FooterSize)
  /\ Sent(t.file, SentBy(t) \union CellsOf(Footer))
  /\ Good(t.file) => /\ Len(Held(t.file)) = t.offset
                     /\ \A k \in 1..FooterSize : Held(t.file)[t.offset - FooterSize + k] = Footer[k]

\* What is wrong with a file is not repaired: the layout of the table while it is written, until
\* a Close that succeeded has emptied the buffer.
LayoutInv ==
  /\ pc = "add" => LaidOpen(tb)
  /\ pc \in {"sync", "close", "built"} => LaidClosed(tb)
  /\ pc = "built" /\ ~Broken(tb.file) => tb.file.buf = <<>>

-----------------------------------------------------------------------------
(***************************************************************************)
(* Blocks                                                                  *)
(***************************************************************************)

LEMMA CommonPrefixType ==
  ASSUME NEW a \in Key, NEW b \in Key
  PROVE  /\ CommonPrefix(a, b) \in 0..Len(a) /\ CommonPrefix(a, b) <= Len(b)
         /\ SubSeq(a, 1, CommonPrefix(a, b)) = SubSeq(b, 1, CommonPrefix(a, b))
<1> DEFINE T == {n \in 0 .. Len(a) : n <= Len(b) /\ SubSeq(a, 1, n) = SubSeq(b, 1, n)}
<1>1. T \subseteq Nat /\ Len(a) \in Nat /\ Len(b) \in Nat /\ \A y \in T : y <= Len(a)
  BY DEF Key
<1>2. 0 \in T
  <2>1. SubSeq(a, 1, 0) = <<>> /\ SubSeq(b, 1, 0) = <<>>
    BY DEF Key
  <2> QED BY <1>1, <2>1
<1>3. \E x \in T : \A y \in T : y <= x
  <2> HIDE DEF T
  <2> QED BY <1>1, <1>2, GreatestNat
<1>4. Max(T) \in T
  <2>1. \E x \in T : \A y \in T : x >= y
    <3> HIDE DEF T
    <3> QED BY <1>1, <1>3
  <2> HIDE DEF T
  <2> QED BY <2>1 DEF Max
<1>5. CommonPrefix(a, b) = Max(T)
  BY DEF CommonPrefix
<1>6. PICK x \in T : x = Max(T)
  BY <1>4
<1>7. x = CommonPrefix(a, b)
  BY <1>5, <1>6
<1> QED BY <1>6, <1>7

\* A prefix and the rest of a key.
LEMMA SplitKey ==
  ASSUME NEW k \in Key, NEW n \in 0..Len(k)
  PROVE  SubSeq(k, 1, n) \o SubSeq(k, n + 1, Len(k)) = k
<1>1. Len(k) \in Nat /\ n \in Nat
  BY DEF Key
<1>2. PICK p : p = SubSeq(k, 1, n)
  OBVIOUS
<1>3. PICK q : q = SubSeq(k, n + 1, Len(k))
  OBVIOUS
<1>4. p \in Key /\ Len(p) = n /\ \A i \in 1..n : p[i] = k[i]
  BY <1>1, <1>2 DEF Key
<1>5. q \in Key /\ Len(q) = Len(k) - n /\ \A i \in 1..(Len(k) - n) : q[i] = k[i + n]
  BY <1>1, <1>3 DEF Key
<1>6. PICK r : r = p \o q
  OBVIOUS
<1>7. r \in Key /\ Len(r) = Len(k) /\ \A i \in 1..Len(k) : r[i] = IF i <= n THEN p[i] ELSE q[i - n]
  <2> HIDE DEF Key
  <2>1. p \in Seq(Nat) /\ q \in Seq(Nat) /\ Len(p) + Len(q) = Len(k)
    BY <1>1, <1>4, <1>5 DEF Key
  <2>2. r \in Seq(Nat) /\ Len(r) = Len(k)
    BY <1>6, <2>1, ConcatProperties
  <2>3. \A i \in 1..Len(k) : r[i] = IF i <= n THEN p[i] ELSE q[i - n]
    BY <1>4, <1>6, <2>1, ConcatProperties
  <2> QED BY <2>2, <2>3 DEF Key
<1>8. \A i \in 1..Len(k) : r[i] = k[i]
  <2> TAKE i \in 1..Len(k)
  <2>1. CASE i <= n
    BY <1>1, <1>4, <1>7, <2>1
  <2>2. CASE i > n
    <3>1. i - n \in 1..(Len(k) - n) /\ (i - n) + n = i
      BY <1>1, <2>2
    <3>2. r[i] = q[i - n]
      BY <1>1, <1>7, <2>2
    <3> QED BY <1>5, <3>1, <3>2
  <2> QED BY <1>1, <2>1, <2>2
<1> QED BY <1>2, <1>3, <1>6, <1>7, <1>8, SeqEqual DEF Key

\* The entries spell the keys ks, one from the other, and so KeysIn finds them.
LEMMA SpelledOnce ==
  ASSUME NEW b \in BlockState, NEW ks, SpelledBy(b, ks)
  PROVE  KeysIn(b) = {ks[i] : i \in 1..Len(b.entries)}
<1> DEFINE n == Len(b.entries)
           Joined(k, i) == SubSeq(k, 1, b.entries[i].shared) \o b.entries[i].suffix
<1>1. n \in Nat
  <2>1. b.entries \in Seq(Entry)
    BY DEF BlockState
  <2> QED BY <2>1
<1>2. /\ ks \in [0..n -> Key] /\ ks[0] = <<>>
      /\ \A i \in 1..n : ks[i] = Joined(ks[i - 1], i)
  BY DEF SpelledBy
<1>3. Spelled(b) = CHOOSE f : f = [i \in 0..n |-> IF i = 0 THEN <<>> ELSE Joined(f[i - 1], i)]
  BY DEF Spelled
<1> HIDE DEF n, Joined
<1>4. ks = [i \in 0..n |-> IF i = 0 THEN <<>> ELSE Joined(ks[i - 1], i)]
  <2>1. ks = [i \in 0..n |-> ks[i]]
    BY <1>2
  <2>2. ASSUME NEW i \in 0..n
        PROVE  ks[i] = IF i = 0 THEN <<>> ELSE Joined(ks[i - 1], i)
    <3>1. i = 0 \/ i \in 1..n
      BY <1>1
    <3> QED BY <1>1, <1>2, <3>1
  <2> QED BY <2>1, <2>2
<1>5. PICK s : s = Spelled(b)
  OBVIOUS
<1>6. s = [i \in 0..n |-> IF i = 0 THEN <<>> ELSE Joined(s[i - 1], i)]
  BY <1>3, <1>4, <1>5, Zenon
<1>7. \A i \in 0..n : s[i] = IF i = 0 THEN <<>> ELSE Joined(s[i - 1], i)
  BY <1>6, Zenon
<1>8. \A i \in 0..n : s[i] = ks[i]
  <2> DEFINE T == {i \in 0..n : s[i] # ks[i]}
  <2> SUFFICES ASSUME T # {} PROVE FALSE
    OBVIOUS
  <2>1. T \subseteq Nat
    OBVIOUS
  <2>2. PICK m \in T : \A y \in T : m <= y
    BY <2>1, LeastNat
  <2>3. m \in 0..n /\ m \in Nat /\ s[m] # ks[m]
    BY <2>2
  <2>4. m # 0
    BY <1>1, <1>2, <1>7, <2>3
  <2>5. m - 1 \in 0..n /\ m - 1 < m /\ m \in 1..n
    BY <1>1, <2>3, <2>4
  <2>6. s[m - 1] = ks[m - 1]
    BY <2>2, <2>3, <2>5
  <2> QED BY <1>2, <1>7, <2>3, <2>4, <2>5, <2>6
<1>9. KeysIn(b) = {s[i] : i \in 1..n}
  BY <1>5 DEF KeysIn, n
<1>10. \A i \in 1..n : s[i] = ks[i]
  BY <1>1, <1>8
<1> QED BY <1>9, <1>10 DEF n

LEMMA EmptyBlockInv == BlockInv(EmptyBlock) /\ KeysIn(EmptyBlock) = {}
<1>1. EmptyBlock \in BlockState /\ EmptyBlock.entries = <<>> /\ EmptyBlock.last_key = <<>>
  BY DEF EmptyBlock, BlockState, Key, Entry
<1> DEFINE ks == [i \in 0..0 |-> <<>>]
<1>2. Len(EmptyBlock.entries) = 0 /\ 1..0 = {}
  BY <1>1
<1>3. ks \in [0..0 -> Key] /\ ks[0] = <<>>
  BY DEF Key
<1> HIDE DEF ks
<1>4. SpelledBy(EmptyBlock, ks)
  BY <1>2, <1>3 DEF SpelledBy
<1>5. BlockInv(EmptyBlock)
  BY <1>1, <1>2, <1>3, <1>4 DEF BlockInv
<1>6. KeysIn(EmptyBlock) = {}
  BY <1>2 DEF KeysIn
<1> QED BY <1>5, <1>6

\* BlockAdd spells the key that is added, after those that were there.
LEMMA BlockAddSpells ==
  ASSUME NEW b, BlockInv(b), NEW key \in Key, NEW val \in Nat, NEW vlen \in Nat
  PROVE  /\ BlockInv(BlockAdd(b, key, val, vlen))
         /\ KeysIn(BlockAdd(b, key, val, vlen)) = KeysIn(b) \union {key}
<1>1. b \in BlockState
  BY DEF BlockInv
<1>2. PICK ks : SpelledBy(b, ks) /\ b.last_key = ks[Len(b.entries)]
  BY DEF BlockInv
<1>3. /\ b.entries \in Seq(Entry) /\ b.size \in Nat /\ b.restarts \in Seq(Nat)
      /\ b.entrynum \in Nat /\ b.last_key \in Key
  BY <1>1 DEF BlockState
<1>4. PICK restart : restart = (b.entrynum >= RestartInterval)
  OBVIOUS
<1>5. PICK shared : shared = IF restart THEN 0 ELSE CommonPrefix(b.last_key, key)
  OBVIOUS
<1>6. /\ shared \in 0..Len(b.last_key) /\ shared \in 0..Len(key)
      /\ SubSeq(b.last_key, 1, shared) = SubSeq(key, 1, shared)
  <2>1. CASE restart
    <3>1. shared = 0 /\ Len(b.last_key) \in Nat /\ Len(key) \in Nat
      BY <1>3, <1>5, <2>1 DEF Key
    <3>2. SubSeq(b.last_key, 1, 0) = <<>> /\ SubSeq(key, 1, 0) = <<>>
      BY <1>3 DEF Key
    <3> QED BY <3>1, <3>2
  <2>2. CASE ~restart
    <3>1. shared = CommonPrefix(b.last_key, key)
      BY <1>5, <2>2
    <3>2. Len(b.last_key) \in Nat /\ Len(key) \in Nat
      BY <1>3 DEF Key
    <3>3. /\ CommonPrefix(b.last_key, key) \in 0..Len(b.last_key)
          /\ CommonPrefix(b.last_key, key) <= Len(key)
          /\ SubSeq(b.last_key, 1, CommonPrefix(b.last_key, key))
               = SubSeq(key, 1, CommonPrefix(b.last_key, key))
      BY <1>3, CommonPrefixType
    <3>4. /\ shared \in 0..Len(b.last_key) /\ shared <= Len(key)
          /\ SubSeq(b.last_key, 1, shared) = SubSeq(key, 1, shared)
      BY <3>1, <3>3
    <3>5. shared \in 0..Len(key)
      BY <3>2, <3>4
    <3> QED BY <3>4, <3>5
  <2> QED BY <2>1, <2>2
<1>7. PICK suffix : suffix = SubSeq(key, shared + 1, Len(key))
  OBVIOUS
<1>8. suffix \in Key /\ Len(suffix) \in Nat /\ SubSeq(b.last_key, 1, shared) \o suffix = key
  <2>1. SubSeq(key, 1, shared) \o SubSeq(key, shared + 1, Len(key)) = key
    BY <1>6, SplitKey
  <2>2. Len(key) \in Nat /\ shared \in Nat
    BY <1>6 DEF Key
  <2>3. suffix \in Key
    BY <1>6, <1>7, <2>2 DEF Key
  <2>4. Len(suffix) \in Nat
    BY <2>3 DEF Key
  <2>5. SubSeq(b.last_key, 1, shared) \o suffix = key
    BY <1>6, <1>7, <2>1, Zenon
  <2> QED BY <2>3, <2>4, <2>5
<1>9. PICK end \in Nat : end = b.size + 1 + Len(suffix) + vlen
  BY <1>3, <1>8
<1>10. PICK e : e = [off |-> b.size, end |-> end, shared |-> shared, suffix |-> suffix, val |-> val]
  OBVIOUS
<1>11. e \in Entry /\ e.shared = shared /\ e.suffix = suffix
  <2>1. shared \in Nat
    BY <1>6
  <2> QED BY <1>3, <1>8, <1>10, <2>1 DEF Entry
<1>12. PICK es : es = Append(b.entries, e)
  OBVIOUS
<1>13. /\ es \in Seq(Entry) /\ Len(b.entries) \in Nat /\ Len(es) = Len(b.entries) + 1
       /\ \A i \in 1..Len(b.entries) : es[i] = b.entries[i]
       /\ es[Len(b.entries) + 1] = e
  BY <1>3, <1>11, <1>12
<1>14. PICK c : c = BlockAdd(b, key, val, vlen)
  OBVIOUS
<1>15. c = [entries  |-> es, size |-> end,
            restarts |-> IF restart THEN Append(b.restarts, b.size) ELSE b.restarts,
            entrynum |-> IF restart THEN 1 ELSE b.entrynum + 1,
            last_key |-> SubSeq(b.last_key, 1, shared) \o suffix]
  BY <1>4, <1>5, <1>7, <1>9, <1>10, <1>12, <1>14 DEF BlockAdd
<1>16. c \in BlockState /\ c.entries = es /\ c.last_key = key
  <2>1. (IF restart THEN Append(b.restarts, b.size) ELSE b.restarts) \in Seq(Nat)
    BY <1>3
  <2>2. (IF restart THEN 1 ELSE b.entrynum + 1) \in Nat
    BY <1>3
  <2> QED BY <1>8, <1>13, <1>15, <2>1, <2>2 DEF BlockState
<1>17. PICK n \in Nat : n = Len(b.entries)
  BY <1>13
<1>18. /\ ks \in [0..n -> Key] /\ ks[0] = <<>>
       /\ \A i \in 1..n : ks[i] = SubSeq(ks[i - 1], 1, b.entries[i].shared) \o b.entries[i].suffix
  BY <1>2, <1>17 DEF SpelledBy
<1> DEFINE js == [i \in 0..(n + 1) |-> IF i = n + 1 THEN key ELSE ks[i]]
<1>19. /\ js \in [0..(n + 1) -> Key] /\ js[n + 1] = key /\ \A i \in 0..n : js[i] = ks[i]
  BY <1>18
<1> HIDE DEF js
<1>20. \A i \in 1..(n + 1) : js[i] = SubSeq(js[i - 1], 1, es[i].shared) \o es[i].suffix
  <2> TAKE i \in 1..(n + 1)
  <2>1. CASE i = n + 1
    <3>1. js[i] = key /\ i - 1 = n /\ js[i - 1] = b.last_key /\ es[i] = e
      BY <1>2, <1>13, <1>17, <1>19, <2>1
    <3> QED BY <1>8, <1>11, <3>1
  <2>2. CASE i # n + 1
    <3>1. i \in 1..n /\ i \in 0..n /\ i - 1 \in 0..n
      BY <2>2
    <3>2. js[i] = ks[i] /\ js[i - 1] = ks[i - 1] /\ es[i] = b.entries[i]
      BY <1>13, <1>17, <1>19, <3>1
    <3> QED BY <1>18, <3>1, <3>2
  <2> QED BY <2>1, <2>2
<1>21. SpelledBy(c, js)
  <2>1. Len(c.entries) = n + 1 /\ c.entries = es /\ js[0] = <<>>
    BY <1>13, <1>16, <1>17, <1>18, <1>19
  <2> QED BY <1>19, <1>20, <2>1 DEF SpelledBy
<1>22. Len(c.entries) = n + 1
  BY <1>13, <1>16, <1>17
<1>23. BlockInv(c)
  BY <1>16, <1>19, <1>21, <1>22 DEF BlockInv
<1>24. KeysIn(c) = {js[i] : i \in 1..(n + 1)}
  BY <1>16, <1>21, <1>22, SpelledOnce
<1>25. KeysIn(b) = {ks[i] : i \in 1..n}
  BY <1>1, <1>2, <1>17, SpelledOnce
<1>26. {js[i] : i \in 1..(n + 1)} = {ks[i] : i \in 1..n} \union {key}
  <2>1. \A i \in 1..n : i \in 0..n /\ i \in 1..(n + 1)
    OBVIOUS
  <2>2. n + 1 \in 1..(n + 1) /\ \A i \in 1..(n + 1) : i = n + 1 \/ i \in 1..n
    OBVIOUS
  <2> QED BY <1>19, <2>1, <2>2
<1> QED BY <1>14, <1>23, <1>24, <1>25, <1>26
-----------------------------------------------------------------------------
(***************************************************************************)
(* The filter block                                                        *)
(***************************************************************************)

LEMMA RangeOf == ASSUME NEW off \in Nat PROVE off \div FilterBase \in Nat
BY FilterAssumption

\* A new filter takes the keys that wait; what earlier filters know they still know.
LEMMA CreateKeeps ==
  ASSUME NEW fb \in FilterState
  PROVE  /\ CreateNewfilter(fb) \in FilterState
         /\ Len(CreateNewfilter(fb).offsets) = Len(fb.offsets) + 1
         /\ Kept(fb, CreateNewfilter(fb))
<1>1. PICK fc : fc = CreateNewfilter(fb)
  OBVIOUS
<1>2. /\ fb.keys \in Seq(DOMAIN Hash) /\ fb.offsets \in Seq(Nat) /\ fb.filters \in Seq(Filter)
      /\ fb.size \in Nat
  BY DEF FilterState
<1>3. PICK os : os = Append(fb.offsets, fb.size)
  OBVIOUS
<1>4. /\ os \in Seq(Nat) /\ Len(fb.offsets) \in Nat /\ Len(os) = Len(fb.offsets) + 1
      /\ \A i \in 1..Len(fb.offsets) : os[i] = fb.offsets[i]
      /\ os[Len(fb.offsets) + 1] = fb.size
  BY <1>2, <1>3
\* The offsets say what they said of the filters there were.
<1>5. ASSUME fc.offsets = os, NEW r \in Nat, r < Len(fb.offsets)
      PROVE  /\ r < Len(fc.offsets)
             /\ FilterAt(fc, r) = FilterAt(fb, r) /\ FilterAt(fc, r + 1) = FilterAt(fb, r + 1)
  <2>1. r < Len(os) /\ r + 1 < Len(os) /\ r + 1 \in 1..Len(fb.offsets)
    BY <1>4, <1>5
  <2>2. FilterAt(fc, r) = os[r + 1] /\ FilterAt(fc, r + 1) = os[r + 2]
    BY <1>5, <2>1 DEF FilterAt
  <2>3. FilterAt(fb, r) = fb.offsets[r + 1]
    BY <1>5 DEF FilterAt
  <2>4. CASE r + 1 < Len(fb.offsets)
    <3>1. FilterAt(fb, r + 1) = fb.offsets[r + 2] /\ r + 2 \in 1..Len(fb.offsets)
      BY <1>4, <2>4 DEF FilterAt
    <3> QED BY <1>4, <1>5, <2>1, <2>2, <2>3, <3>1
  <2>5. CASE ~(r + 1 < Len(fb.offsets))
    <3>1. FilterAt(fb, r + 1) = fb.size /\ r + 2 = Len(fb.offsets) + 1
      BY <1>4, <1>5, <2>5 DEF FilterAt
    <3> QED BY <1>4, <1>5, <2>1, <2>2, <2>3, <3>1
  <2> QED BY <2>4, <2>5
<1>6. CASE fb.keys = <<>>
  <2>1. fc = [fb EXCEPT !.offsets = os]
    BY <1>1, <1>3, <1>6 DEF CreateNewfilter
  <2>2. fc \in FilterState /\ fc.offsets = os /\ fc.filters = fb.filters
    BY <1>4, <2>1 DEF FilterState
  <2>3. ASSUME NEW off \in Nat, NEW key, Known(fb, off, key) PROVE Known(fc, off, key)
    <3>1. PICK r \in Nat : r = off \div FilterBase
      BY RangeOf
    <3>2. Len(fb.keys) = 0
      BY <1>6
    <3>3. r < Len(fb.offsets) /\ BloomMayMatch(fb.filters, FilterAt(fb, r), FilterAt(fb, r + 1), key)
      BY <2>3, <3>1, <3>2 DEF Known
    <3>4. r < Len(fc.offsets) /\ BloomMayMatch(fc.filters, FilterAt(fc, r), FilterAt(fc, r + 1), key)
      BY <1>5, <2>2, <3>3
    <3> QED BY <3>1, <3>4 DEF Known
  <2> QED BY <1>1, <1>4, <2>2, <2>3 DEF Kept
<1>7. CASE fb.keys # <<>>
  <2>1. PICK new : new = CreateFiler(fb.keys, fb.size)
    OBVIOUS
  <2>2. PICK bytes : bytes = ((IF BitsPerKey * Len(fb.keys) < 64 THEN 64
                               ELSE BitsPerKey * Len(fb.keys)) + 7) \div 8
    OBVIOUS
  <2>3. bytes \in Nat /\ bytes >= 8
    <3>1. PICK w : w = BitsPerKey * Len(fb.keys)
      OBVIOUS
    <3>2. w \in Nat
      <4>1. Len(fb.keys) \in Nat
        BY <1>2
      <4> QED BY <3>1, <4>1, FilterAssumption
    <3>3. PICK v \in Nat : v = (IF w < 64 THEN 64 ELSE w) /\ v >= 64
      BY <3>2
    <3>4. (v + 7) \div 8 \in Nat /\ (v + 7) \div 8 >= 8
      BY <3>3
    <3> QED BY <2>2, <3>1, <3>3, <3>4
  <2>4. /\ new.start = fb.size /\ new.len = bytes + 1
        /\ new.bits = UNION {Probes(fb.keys[i], bytes * 8) : i \in 1..Len(fb.keys)}
        /\ new = [start |-> new.start, len |-> new.len, bits |-> new.bits]
    BY <2>1, <2>2 DEF CreateFiler
  <2>5. new \in Filter
    <3>1. bytes * 8 \in Nat /\ bytes + 1 \in Nat
      BY <2>3
    <3>2. \A i \in 1..Len(fb.keys) : fb.keys[i] \in DOMAIN Hash
      BY <1>2
    <3>3. ASSUME NEW k \in DOMAIN Hash, NEW m \in Nat PROVE Probes(k, m) \subseteq AllProbes
      <4>1. <<k, m>> \in (DOMAIN Hash) \X Nat /\ <<k, m>>[1] = k /\ <<k, m>>[2] = m
        OBVIOUS
      <4> QED BY <4>1, Zenon DEF AllProbes
    <3>4. \A i \in 1..Len(fb.keys) : Probes(fb.keys[i], bytes * 8) \subseteq AllProbes
      BY <3>1, <3>2, <3>3
    <3>5. new.bits \subseteq AllProbes
      BY <2>4, <3>4
    <3> QED BY <1>2, <2>4, <3>1, <3>5 DEF Filter
  <2>6. PICK fs : fs = Append(fb.filters, new)
    OBVIOUS
  <2>7. /\ fs \in Seq(Filter) /\ Len(fb.filters) \in Nat /\ Len(fs) = Len(fb.filters) + 1
        /\ \A i \in 1..Len(fb.filters) : fs[i] = fb.filters[i]
        /\ fs[Len(fb.filters) + 1] = new
    BY <1>2, <2>5, <2>6
  <2>8. fc = [keys |-> <<>>, offsets |-> os, filters |-> fs, size |-> fb.size + new.len]
    BY <1>1, <1>3, <1>7, <2>1, <2>6 DEF CreateNewfilter
  <2>9. /\ fc.offsets = os /\ fc.filters = fs /\ fc.size = fb.size + (bytes + 1)
        /\ fc \in FilterState
    <3>1. fb.size + new.len \in Nat /\ fb.size + new.len = fb.size + (bytes + 1)
      BY <1>2, <2>3, <2>4
    <3> QED BY <1>4, <2>7, <2>8, <3>1 DEF FilterState
  <2>10. ASSUME NEW off \in Nat, NEW key, Known(fb, off, key) PROVE Known(fc, off, key)
    <3>1. PICK r \in Nat : r = off \div FilterBase
      BY RangeOf
    <3>2. CASE r = Len(fb.offsets)
      <4>1. PICK i \in 1..Len(fb.keys) : fb.keys[i] = key
        BY <1>4, <2>10, <3>1, <3>2 DEF Known
      <4>2. r < Len(fc.offsets) /\ FilterAt(fc, r) = fb.size /\ FilterAt(fc, r + 1) = fb.size + (bytes + 1)
        BY <1>4, <2>9, <3>2 DEF FilterAt
      <4>3. PICK a \in Nat, z \in Nat : a = fb.size /\ z = fb.size + (bytes + 1)
        BY <1>2, <2>3
      <4>4. z - a = bytes + 1 /\ z - a >= 2 /\ (z - a) - 1 = bytes
        <5>1. z = a + (bytes + 1) /\ a \in Nat /\ bytes \in Nat /\ bytes >= 8
          BY <2>3, <4>3
        <5> QED BY <5>1
      <4>5. Probes(key, (z - a - 1) * 8) \subseteq new.bits
        BY <2>4, <4>1, <4>4, Zenon
      <4>6. BloomMayMatch(fs, a, z, key)
        <5>1. PICK j \in 1..Len(fs) : fs[j] = new
          BY <2>7
        <5>2. fs[j].start = a /\ fs[j].len = z - a /\ Probes(key, (z - a - 1) * 8) \subseteq fs[j].bits
          BY <2>4, <4>3, <4>4, <4>5, <5>1
        <5> QED BY <4>4, <5>2 DEF BloomMayMatch
      <4>7. BloomMayMatch(fc.filters, FilterAt(fc, r), FilterAt(fc, r + 1), key)
        BY <2>9, <4>2, <4>3, <4>6
      <4> QED BY <3>1, <4>2, <4>7 DEF Known
    <3>3. CASE r # Len(fb.offsets)
      <4>1. r < Len(fb.offsets) /\ BloomMayMatch(fb.filters, FilterAt(fb, r), FilterAt(fb, r + 1), key)
        BY <2>10, <3>1, <3>3 DEF Known
      <4>2. /\ r < Len(fc.offsets)
            /\ FilterAt(fc, r) = FilterAt(fb, r) /\ FilterAt(fc, r + 1) = FilterAt(fb, r + 1)
        BY <1>5, <2>9, <4>1
      <4>3. PICK a, z : a = FilterAt(fb, r) /\ z = FilterAt(fb, r + 1)
        OBVIOUS
      <4>4. BloomMayMatch(fs, a, z, key)
        <5>1. PICK j \in 1..Len(fb.filters) :
                /\ fb.filters[j].start = a /\ fb.filters[j].len = z - a
                /\ Probes(key, (z - a - 1) * 8) \subseteq fb.filters[j].bits
          BY <4>1, <4>3 DEF BloomMayMatch
        <5>2. z - a >= 2
          BY <4>1, <4>3 DEF BloomMayMatch
        <5>3. j \in 1..Len(fs) /\ fs[j] = fb.filters[j]
          BY <2>7
        <5> QED BY <5>1, <5>2, <5>3 DEF BloomMayMatch
      <4>5. BloomMayMatch(fc.filters, FilterAt(fc, r), FilterAt(fc, r + 1), key)
        BY <2>9, <4>2, <4>3, <4>4
      <4> QED BY <3>1, <4>2, <4>5 DEF Known
    <3> QED BY <3>2, <3>3
  <2> QED BY <1>1, <1>4, <2>9, <2>10 DEF Kept
<1> QED BY <1>6, <1>7

LEMMA FinishKeeps ==
  ASSUME NEW fb \in FilterState
  PROVE  /\ FilterFinish(fb) \in FilterState /\ Kept(fb, FilterFinish(fb))
         /\ FilterFinish(fb).keys = <<>>
<1>1. FilterFinish(fb) \in FilterState /\ Kept(fb, FilterFinish(fb))
  BY CreateKeeps DEF FilterFinish, Kept
<1>2. fb.keys # <<>> => CreateNewfilter(fb).keys = <<>>
  BY DEF CreateNewfilter
<1> QED BY <1>1, <1>2 DEF FilterFinish

LEMMA AddKeeps ==
  ASSUME NEW fb \in FilterState, NEW key \in DOMAIN Hash
  PROVE  /\ AddKey(fb, key) \in FilterState /\ Kept(fb, AddKey(fb, key))
         /\ AddKey(fb, key).offsets = fb.offsets
         /\ \A k : (k = key \/ \E i \in 1..Len(fb.keys) : fb.keys[i] = k) =>
              \E i \in 1..Len(AddKey(fb, key).keys) : AddKey(fb, key).keys[i] = k
<1>1. PICK fc : fc = AddKey(fb, key)
  OBVIOUS
<1>2. PICK ks : ks = Append(fb.keys, key)
  OBVIOUS
<1>3. fc = [fb EXCEPT !.keys = ks]
  BY <1>1, <1>2 DEF AddKey
<1>4. /\ ks \in Seq(DOMAIN Hash) /\ Len(fb.keys) \in Nat /\ Len(ks) = Len(fb.keys) + 1
      /\ \A i \in 1..Len(fb.keys) : ks[i] = fb.keys[i]
      /\ ks[Len(fb.keys) + 1] = key
  <2>1. fb.keys \in Seq(DOMAIN Hash)
    BY DEF FilterState
  <2> QED BY <1>2, <2>1
<1>5. /\ fc \in FilterState /\ fc.keys = ks /\ fc.offsets = fb.offsets
      /\ fc.filters = fb.filters /\ fc.size = fb.size
  BY <1>3, <1>4 DEF FilterState
<1>6. \A k : (k = key \/ \E i \in 1..Len(fb.keys) : fb.keys[i] = k) =>
        \E i \in 1..Len(ks) : ks[i] = k
  <2>1. Len(ks) \in 1..Len(ks) /\ ks[Len(ks)] = key
    BY <1>4
  <2>2. \A i \in 1..Len(fb.keys) : i \in 1..Len(ks) /\ ks[i] = fb.keys[i]
    BY <1>4
  <2> QED BY <2>1, <2>2
<1>7. \A r : FilterAt(fc, r) = FilterAt(fb, r)
  BY <1>5 DEF FilterAt
<1>8. Kept(fb, fc)
  <2> SUFFICES ASSUME NEW off \in Nat, NEW k, Known(fb, off, k) PROVE Known(fc, off, k)
    BY DEF Kept
  <2>1. CASE off \div FilterBase = Len(fb.offsets) /\ \E i \in 1..Len(fb.keys) : fb.keys[i] = k
    <3>1. \E i \in 1..Len(fc.keys) : fc.keys[i] = k
      BY <1>5, <1>6, <2>1
    <3> QED BY <1>5, <2>1, <3>1 DEF Known
  <2>2. CASE /\ off \div FilterBase < Len(fb.offsets)
             /\ BloomMayMatch(fb.filters, FilterAt(fb, off \div FilterBase),
                              FilterAt(fb, (off \div FilterBase) + 1), k)
    BY <1>5, <1>7, <2>2 DEF Known
  <2> QED BY <2>1, <2>2 DEF Known
<1> QED BY <1>1, <1>5, <1>6, <1>8

\* StartBlock makes the filters of all the ranges before the one in which a block will
\* begin, and forgets no key.
LEMMA StartKeeps ==
  ASSUME NEW fb \in FilterState, NEW off \in Nat, Len(fb.offsets) <= off \div FilterBase
  PROVE  /\ StartBlock(fb, off) \in FilterState
         /\ Len(StartBlock(fb, off).offsets) = off \div FilterBase
         /\ Kept(fb, StartBlock(fb, off))
<1>1. PICK r \in Nat : r = off \div FilterBase
  BY RangeOf
<1> DEFINE S == FilterState
           More(p) == IF r > Len(p.offsets) THEN CreateNewfilter(p) ELSE p
           step == [x \in Nat \X S |-> More(x[2])]
<1>2. \A p \in S : More(p) \in S
  BY CreateKeeps
<1> HIDE DEF S, More
<1>3. step \in [Nat \X S -> S] /\ \A i \in Nat, p \in S : step[<<i, p>>] = More(p)
  BY <1>2
<1> HIDE DEF step
<1>4. PICK f \in [0..r -> S] : CountsTo(f, r, fb, step)
  BY <1>3, RecursionUp DEF S
<1>5. f = [i \in 0..r |-> IF i = 0 THEN fb ELSE More(f[i - 1])]
  <2>1. \A i \in 0..r : f[i] = IF i = 0 THEN fb ELSE step[<<i, f[i - 1]>>]
    BY <1>4, Zenon DEF CountsTo
  <2>2. \A i \in 0..r : i # 0 => step[<<i, f[i - 1]>>] = More(f[i - 1])
    <3> SUFFICES ASSUME NEW i \in 0..r, i # 0 PROVE step[<<i, f[i - 1]>>] = More(f[i - 1])
      OBVIOUS
    <3>1. i \in Nat /\ i - 1 \in 0..r
      BY <1>1
    <3>2. f[i - 1] \in S
      BY <1>4, <3>1
    <3> QED BY <1>3, <3>1, <3>2
  <2>3. \A i \in 0..r : f[i] = IF i = 0 THEN fb ELSE More(f[i - 1])
    BY <2>1, <2>2, Zenon
  <2>4. f = [i \in 0..r |-> f[i]]
    BY <1>4
  <2> QED BY <2>3, <2>4
<1>6. PICK made : made = CHOOSE h : h = [i \in 0..r |-> IF i = 0 THEN fb ELSE More(h[i - 1])]
  OBVIOUS
<1>7. made = [i \in 0..r |-> IF i = 0 THEN fb ELSE More(made[i - 1])]
  BY <1>5, <1>6, Zenon
<1>8. \A i \in 0..r : made[i] = IF i = 0 THEN fb ELSE More(made[i - 1])
  BY <1>7, Zenon
<1>9. StartBlock(fb, off) = made[r]
  BY <1>1, <1>6, Zenon DEF StartBlock, More
\* After n rounds there are filters for n ranges, or for all of them.
<1> DEFINE Fine(n) == /\ made[n] \in FilterState /\ Kept(fb, made[n])
                      /\ Len(made[n].offsets) <= r /\ Len(made[n].offsets) >= n
<1>10. \A n \in 0..r : Fine(n)
  <2> DEFINE T == {n \in 0..r : ~Fine(n)}
  <2> SUFFICES ASSUME T # {} PROVE FALSE
    OBVIOUS
  <2>1. T \subseteq Nat
    OBVIOUS
  <2>2. PICK m \in T : \A y \in T : m <= y
    BY <2>1, LeastNat
  <2>3. m \in 0..r /\ m \in Nat /\ ~Fine(m)
    BY <2>2
  <2>4. \A n \in 0..r : n < m => Fine(n)
    BY <2>2, <2>3
  <2> HIDE DEF T
  <2>5. CASE m = 0
    <3>1. made[m] = fb
      BY <1>1, <1>8, <2>5
    <3>2. Len(fb.offsets) \in Nat
      <4>1. fb.offsets \in Seq(Nat)
        BY DEF FilterState
      <4> QED BY <4>1
    <3>3. Kept(fb, fb)
      BY DEF Kept
    <3> QED BY <1>1, <2>3, <2>5, <3>1, <3>2, <3>3
  <2>6. CASE m # 0
    <3>1. m - 1 \in 0..r /\ m - 1 < m
      BY <1>1, <2>3, <2>6
    <3>2. PICK p : p = made[m - 1]
      OBVIOUS
    <3>3. p \in FilterState /\ Kept(fb, p) /\ Len(p.offsets) <= r /\ Len(p.offsets) >= m - 1
      BY <2>4, <3>1, <3>2
    <3>4. made[m] = More(p)
      BY <1>8, <2>3, <2>6, <3>2
    <3>5. Len(p.offsets) \in Nat
      <4>1. p.offsets \in Seq(Nat)
        BY <3>3 DEF FilterState
      <4> QED BY <4>1
    <3>6. CASE r > Len(p.offsets)
      <4>1. made[m] = CreateNewfilter(p)
        BY <3>4, <3>6 DEF More
      <4>2. made[m] \in FilterState /\ Len(made[m].offsets) = Len(p.offsets) + 1 /\ Kept(p, made[m])
        BY <3>3, <4>1, CreateKeeps
      <4>3. Kept(fb, made[m])
        BY <3>3, <4>2 DEF Kept
      <4>4. Len(made[m].offsets) <= r /\ Len(made[m].offsets) >= m
        BY <1>1, <2>3, <3>3, <3>5, <3>6, <4>2
      <4> QED BY <2>3, <4>2, <4>3, <4>4
    <3>7. CASE ~(r > Len(p.offsets))
      <4>1. made[m] = p
        BY <3>4, <3>7 DEF More
      <4>2. Len(p.offsets) >= m
        BY <1>1, <2>3, <3>3, <3>5, <3>7
      <4> QED BY <2>3, <3>3, <4>1, <4>2
    <3> QED BY <3>6, <3>7
  <2> QED BY <2>5, <2>6
<1>11. r \in 0..r
  BY <1>1
<1>12. Fine(r)
  BY <1>10, <1>11
<1>13. Len(made[r].offsets) = r
  <2>1. made[r].offsets \in Seq(Nat)
    BY <1>12 DEF FilterState
  <2>2. Len(made[r].offsets) \in Nat
    BY <2>1
  <2> QED BY <1>1, <1>12, <2>2
<1> QED BY <1>1, <1>9, <1>12, <1>13
-----------------------------------------------------------------------------
(***************************************************************************)
(* The file                                                                *)
(***************************************************************************)

\* What Flush returns is a file; what the buffer holds is what is counted, unless the
\* count has passed its end.
LEMMA FlushType ==
  ASSUME NEW f, FileInv(f), NEW o \in FileFlush(f)
  PROVE  /\ FileInv(o.f) /\ o.ok \in BOOLEAN /\ o = [f |-> o.f, ok |-> o.ok]
         /\ ~Broken(f) => \/ o.f.buf = <<>> /\ o.f.offset = 0
                          \/ o.f.buf = f.buf /\ o.f.offset = f.offset
<1>1. /\ f \in FileState /\ f.buf \in Seq(Cell) /\ f.offset \in Nat /\ f.disk \in Seq(Cell)
      /\ f.lost \in BOOLEAN
  BY DEF FileInv, FileState
<1>2. ASSUME NEW g, FileInv(g), NEW b \in BOOLEAN, o = [f |-> g, ok |-> b],
             ~Broken(f) => \/ g.buf = <<>> /\ g.offset = 0
                           \/ g.buf = f.buf /\ g.offset = f.offset
      PROVE  /\ FileInv(o.f) /\ o.ok \in BOOLEAN /\ o = [f |-> o.f, ok |-> o.ok]
             /\ ~Broken(f) => \/ o.f.buf = <<>> /\ o.f.offset = 0
                              \/ o.f.buf = f.buf /\ o.f.offset = f.offset
  <2>1. o.f = g /\ o.ok = b
    BY <1>2
  <2> QED BY <1>2, <2>1
<1>3. CASE Broken(f)
  <2>1. o \in [f : {f}, ok : BOOLEAN]
    BY <1>3 DEF FileFlush, Anything
  <2>2. PICK b \in BOOLEAN : o = [f |-> f, ok |-> b]
    BY <2>1
  <2> QED BY <1>2, <1>3, <2>2
<1>4. CASE ~Broken(f) /\ f.offset = 0
  <2>1. o = [f |-> f, ok |-> TRUE]
    BY <1>4 DEF FileFlush
  <2> QED BY <1>2, <2>1
<1>5. CASE ~Broken(f) /\ f.offset # 0
  <2>1. f.offset = Len(f.buf)
    BY <1>5 DEF FileInv
  <2>2. ASSUME NEW g, g \in FileState, g.buf = f.buf, g.offset = f.offset,
               NEW n \in 0..Len(f.buf)
        PROVE  /\ Taken(g, n) \in FileState /\ Taken(g, n).buf = f.buf /\ Taken(g, n).offset = f.offset
    <3>1. SubSeq(f.buf, 1, n) \in Seq(Cell)
      BY <1>1
    <3>2. PICK h : h = SubSeq(g.buf, 1, n)
      OBVIOUS
    <3>3. PICK d : d = g.disk \o h
      OBVIOUS
    <3>4. d \in Seq(Cell)
      <4>1. g.disk \in Seq(Cell) /\ h \in Seq(Cell)
        BY <2>2, <3>1, <3>2 DEF FileState
      <4> QED BY <3>3, <4>1
    <3>5. Taken(g, n) = [g EXCEPT !.disk = d]
      BY <3>2, <3>3 DEF Taken
    <3> QED BY <2>2, <3>4, <3>5 DEF FileState
  <2>3. ASSUME NEW g, g \in FileState, g.buf = f.buf, g.offset = f.offset
        PROVE  FileInv(g)
    BY <2>1, <2>3 DEF FileInv
  <2>4. ASSUME NEW g, g \in FileState
        PROVE  FileInv(Emptied(g)) /\ Emptied(g).buf = <<>> /\ Emptied(g).offset = 0
    <3>1. PICK e : e = Emptied(g)
      OBVIOUS
    <3>2. e = [g EXCEPT !.buf = <<>>, !.offset = 0]
      BY <3>1 DEF Emptied
    <3>3. e \in FileState /\ e.buf = <<>> /\ e.offset = 0
      <4>1. PICK w \in Seq(Cell) : w = <<>>
        BY EmptySeq
      <4>2. e = [g EXCEPT !.buf = w, !.offset = 0]
        BY <3>2, <4>1
      <4> QED BY <2>4, <4>1, <4>2 DEF FileState
    <3> QED BY <3>1, <3>3 DEF FileInv
  <2>5. ASSUME NEW g, g \in FileState
        PROVE  Lost(g) \in FileState /\ Lost(g).buf = g.buf /\ Lost(g).offset = g.offset
    BY <2>5 DEF Lost, FileState
  <2>6. \/ o = [f |-> Emptied(Taken(f, f.offset)), ok |-> TRUE]
        \/ o = [f |-> f, ok |-> FALSE]
        \/ \E n \in {k \in PartialLengths : k < f.offset /\ ~f.lost} :
             \/ o = [f |-> Emptied(Taken(Lost(Taken(f, n)), f.offset - n)), ok |-> TRUE]
             \/ o = [f |-> Lost(Taken(f, n)), ok |-> FALSE]
             \/ o = [f |-> Taken(Lost(Taken(f, n)), f.offset), ok |-> FALSE]
    BY <1>5 DEF FileFlush
  <2>7. f.offset \in 0..Len(f.buf)
    BY <1>1, <2>1
  <2>8. CASE o = [f |-> Emptied(Taken(f, f.offset)), ok |-> TRUE]
    <3>1. Taken(f, f.offset) \in FileState
      BY <1>1, <2>2, <2>7
    <3> QED BY <1>2, <2>4, <2>8, <3>1
  <2>9. CASE o = [f |-> f, ok |-> FALSE]
    BY <1>2, <2>9
  <2>10. ASSUME NEW n \in PartialLengths, n < f.offset,
                \/ o = [f |-> Emptied(Taken(Lost(Taken(f, n)), f.offset - n)), ok |-> TRUE]
                \/ o = [f |-> Lost(Taken(f, n)), ok |-> FALSE]
                \/ o = [f |-> Taken(Lost(Taken(f, n)), f.offset), ok |-> FALSE]
         PROVE  /\ FileInv(o.f) /\ o.ok \in BOOLEAN /\ o = [f |-> o.f, ok |-> o.ok]
                /\ ~Broken(f) => \/ o.f.buf = <<>> /\ o.f.offset = 0
                                 \/ o.f.buf = f.buf /\ o.f.offset = f.offset
    <3>1. n \in 0..Len(f.buf) /\ f.offset - n \in 0..Len(f.buf)
      BY <1>1, <2>1, <2>10, FileAssumption
    <3>2. PICK t : t = Taken(f, n)
      OBVIOUS
    <3>3. t \in FileState /\ t.buf = f.buf /\ t.offset = f.offset
      BY <1>1, <2>2, <3>1, <3>2
    <3>4. PICK g : g = Lost(t)
      OBVIOUS
    <3>5. g \in FileState /\ g.buf = f.buf /\ g.offset = f.offset
      BY <2>5, <3>3, <3>4
    <3>6. PICK u, v : u = Taken(g, f.offset - n) /\ v = Taken(g, f.offset)
      OBVIOUS
    <3>7. u \in FileState /\ v \in FileState /\ v.buf = f.buf /\ v.offset = f.offset
      BY <2>2, <2>7, <3>1, <3>5, <3>6
    <3>8. CASE o = [f |-> Emptied(u), ok |-> TRUE]
      BY <1>2, <2>4, <3>7, <3>8
    <3>9. CASE o = [f |-> g, ok |-> FALSE]
      BY <1>2, <2>3, <3>5, <3>9
    <3>10. CASE o = [f |-> v, ok |-> FALSE]
      BY <1>2, <2>3, <3>7, <3>10
    <3> QED BY <2>10, <3>2, <3>4, <3>6, <3>8, <3>9, <3>10
  <2> QED BY <2>6, <2>8, <2>9, <2>10
<1> QED BY <1>3, <1>4, <1>5

\* What Append returns is a file: what did not fit and is copied behind a buffer that
\* could not be flushed takes the count past its end.
LEMMA AppendType ==
  ASSUME NEW f, FileInv(f), NEW data \in Seq(Cell), NEW o \in FileAppend(f, data)
  PROVE  FileInv(o.f) /\ o.ok \in BOOLEAN
<1>1. /\ f \in FileState /\ f.buf \in Seq(Cell) /\ f.offset \in Nat /\ f.disk \in Seq(Cell)
      /\ f.lost \in BOOLEAN
  BY DEF FileInv, FileState
<1>2. CASE Broken(f)
  <2>1. o \in [f : {f}, ok : BOOLEAN]
    BY <1>2 DEF FileAppend, Anything
  <2> QED BY <2>1
<1>3. CASE ~Broken(f)
  <2> DEFINE n == IF Len(data) <= BufferSize - f.offset THEN Len(data) ELSE BufferSize - f.offset
             rest == Len(data) - n
             f1 == [f EXCEPT !.buf = @ \o SubSeq(data, 1, n), !.offset = @ + n]
             Again(g) == [g EXCEPT !.buf = SubSeq(data, 1, rest) \o SubSeq(g.buf, rest + 1, Len(g.buf)),
                                   !.offset = @ + rest,
                                   !.lost = @ \/ n > 0 \/ g.offset > 0]
  <2>0. o \in (IF rest = 0 THEN {[f |-> f1, ok |-> TRUE]}
               ELSE IF rest < BufferSize THEN {[f |-> Again(p.f), ok |-> TRUE] : p \in FileFlush(f1)}
               ELSE UNION {FileFlush(Lost(p.f)) : p \in FileFlush(f1)})
    BY <1>3 DEF FileAppend
  <2> HIDE DEF n, rest, f1, Again
  <2>1. PICK size \in Nat : size = Len(data)
    OBVIOUS
  <2>2. f.offset = Len(f.buf) /\ f.offset <= BufferSize /\ BufferSize \in Nat
    BY <1>1, <1>3, FileAssumption DEF FileInv, Broken
  <2>3. n = IF Len(data) <= BufferSize - f.offset THEN Len(data) ELSE BufferSize - f.offset
    BY DEF n
  <2>4. n \in 0..size /\ f.offset + n <= BufferSize /\ (n < size => f.offset + n = BufferSize)
    <3>1. PICK x \in Nat : x = f.offset
      BY <1>1
    <3>2. x <= BufferSize /\ BufferSize \in Nat /\ n = IF size <= BufferSize - x THEN size ELSE BufferSize - x
      BY <2>1, <2>2, <2>3, <3>1
    <3>3. n \in 0..size /\ x + n <= BufferSize /\ (n < size => x + n = BufferSize)
      BY <3>2
    <3> QED BY <3>1, <3>3
  <2>5. rest = Len(data) - n
    BY DEF rest
  <2>6. rest \in 0..size /\ (rest # 0 => f.offset + n = BufferSize)
    BY <1>1, <2>1, <2>2, <2>4, <2>5
  <2>7. f1 = [f EXCEPT !.buf = @ \o SubSeq(data, 1, n), !.offset = @ + n]
    BY DEF f1
  <2>8. FileInv(f1) /\ ~Broken(f1) /\ f1.buf \in Seq(Cell) /\ f1.offset = f.offset + n
    <3>1. PICK d : d = SubSeq(data, 1, n)
      OBVIOUS
    <3>2. d \in Seq(Cell) /\ Len(d) = n
      BY <2>1, <2>4, <3>1
    <3>3. PICK b : b = f.buf \o d
      OBVIOUS
    <3>4. b \in Seq(Cell) /\ Len(b) = Len(f.buf) + n
      BY <1>1, <3>2, <3>3, ConcatProperties
    <3>5. PICK c \in Nat : c = f.offset + n
      BY <1>1, <2>1, <2>4
    <3>6. f1 = [f EXCEPT !.buf = b, !.offset = c]
      BY <2>7, <3>1, <3>3, <3>5
    <3>7. f1 \in FileState /\ f1.buf = b /\ f1.offset = c
      BY <1>1, <3>4, <3>5, <3>6 DEF FileState
    <3>8. c = Len(b) /\ c <= BufferSize
      BY <2>2, <2>4, <3>4, <3>5
    <3>9. ~(c > BufferSize)
      BY <2>2, <3>5, <3>8
    <3> QED BY <3>4, <3>5, <3>7, <3>8, <3>9 DEF FileInv, Broken
  <2>9. \/ rest = 0 /\ o = [f |-> f1, ok |-> TRUE]
        \/ /\ rest # 0 /\ rest < BufferSize
           /\ \E p \in FileFlush(f1) : o = [f |-> Again(p.f), ok |-> TRUE]
        \/ \E p \in FileFlush(f1) : o \in FileFlush(Lost(p.f))
    BY <2>0
  <2>10. CASE rest = 0 /\ o = [f |-> f1, ok |-> TRUE]
    BY <2>8, <2>10
  <2>11. ASSUME rest # 0, rest < BufferSize, NEW p \in FileFlush(f1), o = [f |-> Again(p.f), ok |-> TRUE]
         PROVE  FileInv(o.f) /\ o.ok \in BOOLEAN
    <3>1. PICK g : g = p.f
      OBVIOUS
    <3>2. /\ FileInv(g)
          /\ \/ g.buf = <<>> /\ g.offset = 0
             \/ g.buf = f1.buf /\ g.offset = f1.offset
      BY <2>8, <3>1, FlushType
    <3>3. g \in FileState /\ g.buf \in Seq(Cell) /\ g.offset \in Nat /\ g.lost \in BOOLEAN
      BY <3>2 DEF FileInv, FileState
    <3>4. PICK a : a = SubSeq(data, 1, rest)
      OBVIOUS
    <3>5. a \in Seq(Cell) /\ Len(a) = rest
      BY <2>1, <2>6, <3>4
    <3>6. PICK z : z = SubSeq(g.buf, rest + 1, Len(g.buf))
      OBVIOUS
    <3>7. z \in Seq(Cell) /\ (g.buf = <<>> => Len(z) = 0)
      <4>1. rest \in Nat /\ rest + 1 \in Nat
        BY <2>6
      <4>2. CASE g.buf = <<>>
        <5>1. Len(g.buf) = 0
          BY <4>2
        <5>2. z = <<>>
          BY <3>3, <3>6, <4>1, <5>1
        <5> QED BY <5>2
      <4>3. CASE g.buf # <<>>
        BY <3>3, <3>6, <4>1, <4>3
      <4> QED BY <4>2, <4>3
    <3>8. PICK b : b = a \o z
      OBVIOUS
    <3>9. b \in Seq(Cell) /\ Len(b) = rest + Len(z)
      BY <3>5, <3>7, <3>8, ConcatProperties
    <3>10. PICK c \in Nat : c = g.offset + rest
      BY <2>6, <3>3
    <3>11. PICK l : l = (g.lost \/ n > 0 \/ g.offset > 0)
      OBVIOUS
    <3>12. l \in BOOLEAN
      BY <3>11, Zenon
    <3>13. PICK h : h = Again(g)
      OBVIOUS
    <3>14. h = [g EXCEPT !.buf = b, !.offset = c, !.lost = l]
      BY <3>4, <3>6, <3>8, <3>10, <3>11, <3>13 DEF Again
    <3>15. h \in FileState /\ h.buf = b /\ h.offset = c
      BY <3>3, <3>9, <3>10, <3>12, <3>14 DEF FileState
    <3>16. c = Len(b) \/ c > BufferSize
      <4>1. CASE g.buf = <<>> /\ g.offset = 0
        BY <2>6, <3>7, <3>9, <3>10, <4>1
      <4>2. CASE g.buf = f1.buf /\ g.offset = f1.offset
        BY <2>2, <2>6, <2>8, <2>11, <3>10, <4>2
      <4> QED BY <3>2, <4>1, <4>2
    <3>17. o = [f |-> h, ok |-> TRUE]
      BY <2>11, <3>1, <3>13
    <3>18. o.f = h /\ o.ok = TRUE
      BY <3>17
    <3>19. FileInv(h)
      BY <3>15, <3>16 DEF FileInv, Broken
    <3> QED BY <3>18, <3>19
  <2>12. ASSUME NEW p \in FileFlush(f1), o \in FileFlush(Lost(p.f))
         PROVE  FileInv(o.f) /\ o.ok \in BOOLEAN
    <3>1. PICK g : g = p.f
      OBVIOUS
    <3>2. FileInv(g)
      BY <2>8, <3>1, FlushType
    <3>3. PICK h : h = Lost(g)
      OBVIOUS
    <3>4. h \in FileState /\ h.buf = g.buf /\ h.offset = g.offset
      BY <3>2, <3>3 DEF Lost, FileState, FileInv
    <3>5. FileInv(h)
      BY <3>2, <3>4 DEF FileInv, Broken
    <3> QED BY <2>12, <3>1, <3>3, <3>5, FlushType
  <2> QED BY <2>9, <2>10, <2>11, <2>12
<1> QED BY <1>2, <1>3

LEMMA SyncType ==
  ASSUME NEW f, FileInv(f), NEW o \in FileSync(f) \union FileClose(f)
  PROVE  FileInv(o.f) /\ o.ok \in BOOLEAN
<1>1. PICK p \in FileFlush(f) : o = p \/ o = [p EXCEPT !.ok = FALSE]
  BY DEF FileSync, FileClose
<1>2. FileInv(p.f) /\ p.ok \in BOOLEAN /\ p = [f |-> p.f, ok |-> p.ok]
  BY FlushType
<1>3. CASE o = p
  BY <1>2, <1>3
<1>4. CASE o = [p EXCEPT !.ok = FALSE]
  <2>1. PICK g, b : g = p.f /\ b = p.ok
    OBVIOUS
  <2>2. p = [f |-> g, ok |-> b]
    BY <1>2, <2>1
  <2>3. o.f = g /\ o.ok = FALSE
    BY <1>4, <2>2
  <2> QED BY <1>2, <2>1, <2>3
<1> QED BY <1>1, <1>3, <1>4
-----------------------------------------------------------------------------
(***************************************************************************)
(* Tablebuilder                                                            *)
(***************************************************************************)

LEMMA CellsType ==
  ASSUME NEW n \in Int, NEW size \in Nat, NEW compressed
  PROVE  Cells(n, size, compressed) \in Seq(Cell)
<1>1. \A i \in 1..size : <<n, IF compressed /\ i = 1 THEN 0 ELSE i>> \in Cell
  BY DEF Cell
<1> QED BY <1>1 DEF Cells

\* What WriteRawBlock leaves: the block is placed where offset was.
LEMMA RawBlock ==
  ASSUME NEW t \in TableState, FileInv(t.file), NEW kind \in Kinds, NEW size \in Nat,
         NEW compressed \in BOOLEAN, NEW holds \in SUBSET (Key \union Nat),
         NEW u \in WriteRawBlock(t, kind, size, compressed, holds)
  PROVE  /\ u \in TableState /\ FileInv(u.file)
         /\ u.data = t.data /\ u.filter = t.filter /\ u.last_key = t.last_key
         /\ u.offset \in Nat /\ u.offset >= t.offset
         /\ PlacedLast(t, u, kind, holds)
<1>1. /\ t.placed \in Seq(Placement) /\ t.offset \in Nat /\ BackSize \in Nat
      /\ t.file \in FileState
  BY TableAssumption DEF TableState
<1> DEFINE n == Len(t.placed) + 1
           cells == Cells(n, size, compressed)
           back == Cells(-n, BackSize, FALSE)
           p == [kind |-> kind, handle |-> [offset |-> t.offset, size |-> size],
                 holds |-> holds, cells |-> cells \o back]
           Done(v) == [v EXCEPT !.placed = Append(@, p),
                                !.offset = IF v.ok THEN @ + size + BackSize ELSE @]
<1>2. u \in UNION {IF o.ok THEN {Done(With(t, q)) : q \in FileAppend(o.f, back)}
                           ELSE {Done(With(t, o))} :
                   o \in FileAppend(t.file, cells)}
  BY DEF WriteRawBlock
<1>3. n \in Int /\ -n \in Int
  BY <1>1
<1> HIDE DEF n
<1>4. cells \in Seq(Cell) /\ back \in Seq(Cell)
  BY <1>1, <1>3, CellsType
<1> HIDE DEF cells, back
<1>5. p.kind = kind /\ p.handle.offset = t.offset /\ p.holds = holds
  OBVIOUS
<1>6. PICK all \in Seq(Cell) : all = cells \o back
  BY <1>4, ConcatProperties
<1>7. p \in Placement
  <2>1. p = [kind |-> kind, handle |-> [offset |-> t.offset, size |-> size],
             holds |-> holds, cells |-> all]
    BY <1>6
  <2> HIDE DEF p
  <2> QED BY <1>1, <1>6, <2>1 DEF Placement
<1> HIDE DEF p, Done
<1>8. \E o \in FileAppend(t.file, cells) :
        \/ u = Done(With(t, o))
        \/ \E q \in FileAppend(o.f, back) : u = Done(With(t, q))
  BY <1>2
<1>9. PICK o : u = Done(With(t, o)) /\ FileInv(o.f) /\ o.ok \in BOOLEAN
  <2>1. PICK x \in FileAppend(t.file, cells) :
          \/ u = Done(With(t, x))
          \/ \E q \in FileAppend(x.f, back) : u = Done(With(t, q))
    BY <1>8
  <2>2. FileInv(x.f) /\ x.ok \in BOOLEAN
    BY <1>4, AppendType
  <2>3. CASE u = Done(With(t, x))
    BY <2>2, <2>3
  <2>4. ASSUME NEW q \in FileAppend(x.f, back), u = Done(With(t, q))
        PROVE  FileInv(q.f) /\ q.ok \in BOOLEAN
    BY <1>4, <2>2, AppendType
  <2> QED BY <2>1, <2>3, <2>4
<1>10. PICK g, b : g = o.f /\ b = o.ok
  OBVIOUS
<1>11. g \in FileState /\ FileInv(g) /\ b \in BOOLEAN
  BY <1>9, <1>10 DEF FileInv
<1>12. PICK v : v = [t EXCEPT !.file = g, !.ok = b]
  OBVIOUS
<1>13. /\ v \in TableState /\ v.file = g /\ v.ok = b /\ v.offset = t.offset /\ v.placed = t.placed
       /\ v.data = t.data /\ v.filter = t.filter /\ v.last_key = t.last_key
  BY <1>11, <1>12 DEF TableState
<1>14. u = Done(v)
  BY <1>9, <1>10, <1>12 DEF With
<1>15. PICK ps \in Seq(Placement) : ps = Append(t.placed, p)
  BY <1>1, <1>7, AppendProperties
<1>16. PICK off \in Nat : off = (IF v.ok THEN t.offset + size + BackSize ELSE t.offset) /\ off >= t.offset
  BY <1>1
<1>17. u = [v EXCEPT !.placed = ps, !.offset = off]
  BY <1>13, <1>14, <1>15, <1>16 DEF Done
<1>18. /\ u \in TableState /\ u.file = g /\ u.offset = off /\ u.placed = ps
       /\ u.data = v.data /\ u.filter = v.filter /\ u.last_key = v.last_key
  BY <1>13, <1>17 DEF TableState
<1>19. PlacedLast(t, u, kind, holds)
  BY <1>5, <1>7, <1>15, <1>18 DEF PlacedLast
<1> QED BY <1>11, <1>13, <1>16, <1>18, <1>19

\* The filter knows what is placed, if it knows what is placed last.
LEMMA PlacedKnown ==
  ASSUME NEW t \in TableState, AllKnown(t), NEW p \in Placement, NEW u \in TableState,
         u.placed = Append(t.placed, p), u.filter = t.filter,
         p.kind = "data" => \A key \in p.holds : Known(t.filter, p.handle.offset, key)
  PROVE  AllKnown(u)
<1>1. t.placed \in Seq(Placement)
  BY DEF TableState
<1>2. /\ Len(t.placed) \in Nat /\ Len(u.placed) = Len(t.placed) + 1
      /\ \A i \in 1..Len(t.placed) : u.placed[i] = t.placed[i]
      /\ u.placed[Len(t.placed) + 1] = p
  BY <1>1
<1> SUFFICES ASSUME NEW i \in 1..Len(u.placed), u.placed[i].kind = "data", NEW key \in u.placed[i].holds
             PROVE  Known(u.filter, u.placed[i].handle.offset, key)
  BY DEF AllKnown
<1>3. CASE i = Len(t.placed) + 1
  BY <1>2, <1>3
<1>4. CASE i # Len(t.placed) + 1
  <2>1. i \in 1..Len(t.placed) /\ u.placed[i] = t.placed[i]
    BY <1>2, <1>4
  <2> QED BY <2>1 DEF AllKnown
<1> QED BY <1>3, <1>4

\* Another filter that knows what this one does will do.
LEMMA KeptKnown ==
  ASSUME NEW t \in TableState, AllKnown(t), NEW u \in TableState,
         u.placed = t.placed, Kept(t.filter, u.filter)
  PROVE  AllKnown(u)
<1> SUFFICES ASSUME NEW i \in 1..Len(u.placed), u.placed[i].kind = "data", NEW key \in u.placed[i].holds
             PROVE  Known(u.filter, u.placed[i].handle.offset, key)
  BY DEF AllKnown
<1>1. Known(t.filter, t.placed[i].handle.offset, key)
  BY DEF AllKnown
<1>2. t.placed[i].handle.offset \in Nat
  <2>1. t.placed \in Seq(Placement)
    BY DEF TableState
  <2>2. t.placed[i] \in Placement
    BY <2>1
  <2> QED BY <2>2 DEF Placement
<1> QED BY <1>1, <1>2 DEF Kept

LEMMA OtherBlock ==
  ASSUME NEW t, Written(t), NEW kind \in Kinds \ {"data"}, NEW size \in Nat,
         NEW compressed \in BOOLEAN, NEW holds \in SUBSET (Key \union Nat),
         NEW u \in WriteRawBlock(t, kind, size, compressed, holds)
  PROVE  Written(u)
<1>1. t \in TableState /\ FileInv(t.file) /\ AllKnown(t)
  BY DEF Written
<1>2. u \in TableState /\ FileInv(u.file) /\ u.filter = t.filter /\ PlacedLast(t, u, kind, holds)
  BY <1>1, RawBlock
<1>3. PICK p \in Placement : u.placed = Append(t.placed, p) /\ p.kind = kind
  BY <1>2 DEF PlacedLast
<1>4. p.kind # "data"
  BY <1>3
<1>5. AllKnown(u)
  BY <1>1, <1>2, <1>3, <1>4, PlacedKnown
<1> QED BY <1>2, <1>5 DEF Written

SameFilter(t, u) == u.filter = t.filter

LEMMA OtherFilter ==
  ASSUME NEW t, Written(t), NEW kind \in Kinds \ {"data"}, NEW size \in Nat,
         NEW compressed \in BOOLEAN, NEW holds \in SUBSET (Key \union Nat),
         NEW u \in WriteRawBlock(t, kind, size, compressed, holds)
  PROVE  SameFilter(t, u)
<1>1. t \in TableState /\ FileInv(t.file)
  BY DEF Written
<1> QED BY <1>1, RawBlock DEF SameFilter

LEMMA SizeEstimate ==
  ASSUME NEW b \in BlockState PROVE CurrentSizeEstimate(b) \in Nat
<1>1. b.size \in Nat /\ b.restarts \in Seq(Nat)
  BY DEF BlockState
<1>2. Len(b.restarts) \in Nat
  BY <1>1
<1> QED BY <1>1, <1>2 DEF CurrentSizeEstimate

LEMMA KeysAreKeys ==
  ASSUME NEW b, BlockInv(b) PROVE KeysIn(b) \subseteq Key
<1>1. b \in BlockState
  BY DEF BlockInv
<1>2. PICK ks : SpelledBy(b, ks)
  BY DEF BlockInv
<1>3. ks \in [0..Len(b.entries) -> Key]
  BY <1>2 DEF SpelledBy
<1>4. KeysIn(b) = {ks[i] : i \in 1..Len(b.entries)}
  BY <1>1, <1>2, SpelledOnce
<1>5. b.entries \in Seq(Entry)
  BY <1>1 DEF BlockState
<1>6. \A i \in 1..Len(b.entries) : i \in 0..Len(b.entries)
  BY <1>5
<1> QED BY <1>3, <1>4, <1>6

\* Tablebuilder::Flush: the keys of the block are known to the filter of the range in
\* which it begins, and the filter is ready for the range in which the next one begins.
LEMMA FlushKeeps ==
  ASSUME CompressedLengths, NEW t, Building(t), NEW u \in FlushBlock(t)
  PROVE  Building(u)
<1>1. CASE t.data.entries = <<>>
  BY <1>1 DEF FlushBlock
<1>2. CASE t.data.entries # <<>>
  <2>1. PICK v \in WriteBlock(t, "data", t.data, KeysIn(t.data)) : \E o \in FileFlush(v.file) :
          u = [With(v, o) EXCEPT !.ok = v.ok, !.data = EmptyBlock, !.pending_index_entry = FALSE,
                                 !.filter = StartBlock(@, v.offset)]
    BY <1>2 DEF FlushBlock
  <2>2. PICK o \in FileFlush(v.file) :
          u = [With(v, o) EXCEPT !.ok = v.ok, !.data = EmptyBlock, !.pending_index_entry = FALSE,
                                 !.filter = StartBlock(@, v.offset)]
    BY <2>1
  <2>3. /\ t \in TableState /\ FileInv(t.file) /\ AllKnown(t) /\ BlockInv(t.data)
        /\ Len(t.filter.offsets) = t.offset \div FilterBase
        /\ \A key \in KeysIn(t.data) : \E i \in 1..Len(t.filter.keys) : t.filter.keys[i] = key
    BY DEF Building, Written
  <2>4. /\ "data" \in Kinds /\ TRUE \in BOOLEAN /\ KeysIn(t.data) \in SUBSET (Key \union Nat)
        /\ Compressed(CurrentSizeEstimate(t.data)) \in Nat
    <3>1. CurrentSizeEstimate(t.data) \in Nat
      BY <2>3, SizeEstimate DEF BlockInv
    <3>2. KeysIn(t.data) \subseteq Key
      BY <2>3, KeysAreKeys
    <3> QED BY <3>1, <3>2 DEF CompressedLengths, Kinds
  <2>5. PICK size \in Nat, held \in SUBSET (Key \union Nat), kind \in Kinds, packed \in BOOLEAN :
          /\ size = Compressed(CurrentSizeEstimate(t.data)) /\ held = KeysIn(t.data)
          /\ kind = "data" /\ packed = TRUE
          /\ v \in WriteRawBlock(t, kind, size, packed, held)
    BY <2>1, <2>4 DEF WriteBlock
  <2>6. /\ v \in TableState /\ FileInv(v.file) /\ v.filter = t.filter
        /\ v.offset \in Nat /\ v.offset >= t.offset /\ PlacedLast(t, v, kind, held)
    <3>1. t \in TableState /\ FileInv(t.file) /\ v \in WriteRawBlock(t, kind, size, packed, held)
      BY <2>3, <2>5
    <3> QED BY <3>1, RawBlock
  <2>7. PICK p \in Placement : /\ v.placed = Append(t.placed, p) /\ p.kind = "data"
                               /\ p.handle.offset = t.offset /\ p.holds = KeysIn(t.data)
    BY <2>5, <2>6 DEF PlacedLast
  <2>8. \A key \in p.holds : Known(t.filter, p.handle.offset, key)
    BY <2>3, <2>7 DEF Known
  <2>9. AllKnown(v)
    BY <2>3, <2>6, <2>7, <2>8, PlacedKnown
  <2>10. Len(v.filter.offsets) <= v.offset \div FilterBase
    <3>1. t.offset \in Nat
      BY <2>3 DEF TableState
    <3>2. t.offset \div FilterBase <= v.offset \div FilterBase
      BY <2>6, <3>1, DivMono, FilterAssumption
    <3> QED BY <2>3, <2>6, <3>2
  <2>11. PICK fc : fc = StartBlock(v.filter, v.offset)
    OBVIOUS
  <2>12. v.filter \in FilterState
    BY <2>6 DEF TableState
  <2>13. fc \in FilterState /\ Len(fc.offsets) = v.offset \div FilterBase /\ Kept(v.filter, fc)
    BY <2>6, <2>10, <2>11, <2>12, StartKeeps
  <2>14. PICK g : g = o.f
    OBVIOUS
  <2>15. FileInv(g) /\ g \in FileState
    BY <2>6, <2>14, FlushType DEF FileInv
  <2>16. PICK e : e = EmptyBlock
    OBVIOUS
  <2>17. BlockInv(e) /\ e \in BlockState /\ KeysIn(e) = {}
    BY <2>16, EmptyBlockInv DEF BlockInv
  <2>18. u = [v EXCEPT !.file = g, !.data = e, !.pending_index_entry = FALSE, !.filter = fc]
    <3>1. PICK b : b = o.ok
      OBVIOUS
    <3>2. u = [[v EXCEPT !.file = g, !.ok = b] EXCEPT !.ok = v.ok, !.data = e,
                          !.pending_index_entry = FALSE, !.filter = StartBlock(@, v.offset)]
      BY <2>2, <2>14, <2>16, <3>1 DEF With
    <3>3. v = [data |-> v.data, index |-> v.index, filter |-> v.filter, file |-> v.file,
               offset |-> v.offset, pending_index_entry |-> v.pending_index_entry, ok |-> v.ok,
               last_key |-> v.last_key, placed |-> v.placed]
      BY <2>6 DEF TableState
    <3> QED BY <2>11, <3>2, <3>3
  <2>19. /\ u \in TableState /\ u.file = g /\ u.data = e /\ u.filter = fc
         /\ u.offset = v.offset /\ u.placed = v.placed
    BY <2>6, <2>13, <2>15, <2>17, <2>18 DEF TableState
  <2>20. AllKnown(u)
    BY <2>6, <2>9, <2>13, <2>19, KeptKnown
  <2>21. Written(u)
    BY <2>15, <2>19, <2>20 DEF Written
  <2> QED BY <2>13, <2>17, <2>19, <2>21 DEF Building
<1> QED BY <1>1, <1>2

\* Add puts an entry more into the block, and then looks whether the block is full.
LEMMA EntryAdded ==
  ASSUME NEW t, Building(t), NEW key \in Key \intersect DOMAIN Hash, NEW vlen \in Nat
  PROVE  \E v : /\ AddEntry(t, key, vlen) =
                     IF CurrentSizeEstimate(v.data) >= DataBlockSize THEN FlushBlock(v) ELSE {v}
                /\ Building(v) /\ v.file = t.file /\ v.offset = t.offset /\ v.placed = t.placed
<1>1. /\ t \in TableState /\ FileInv(t.file) /\ AllKnown(t) /\ BlockInv(t.data)
      /\ Len(t.filter.offsets) = t.offset \div FilterBase
      /\ \A k \in KeysIn(t.data) : \E i \in 1..Len(t.filter.keys) : t.filter.keys[i] = k
  BY DEF Building, Written
<1>2. IndexPending(t, key) = t
  BY <1>1 DEF IndexPending, TableState
<1>3. PICK fc : fc = AddKey(t.filter, key)
  OBVIOUS
<1>4. t.filter \in FilterState
  BY <1>1 DEF TableState
<1>5. /\ fc \in FilterState /\ Kept(t.filter, fc) /\ fc.offsets = t.filter.offsets
      /\ \A k : (k = key \/ \E i \in 1..Len(t.filter.keys) : t.filter.keys[i] = k) =>
           \E i \in 1..Len(fc.keys) : fc.keys[i] = k
  <2>1. key \in DOMAIN Hash
    OBVIOUS
  <2>2. PICK fb \in FilterState : fb = t.filter
    BY <1>4
  <2>3. /\ fc \in FilterState /\ Kept(fb, fc) /\ fc.offsets = fb.offsets
        /\ \A k : (k = key \/ \E i \in 1..Len(fb.keys) : fb.keys[i] = k) =>
             \E i \in 1..Len(fc.keys) : fc.keys[i] = k
    <3>1. /\ AddKey(fb, key) \in FilterState /\ Kept(fb, AddKey(fb, key))
          /\ AddKey(fb, key).offsets = fb.offsets
          /\ \A k : (k = key \/ \E i \in 1..Len(fb.keys) : fb.keys[i] = k) =>
               \E i \in 1..Len(AddKey(fb, key).keys) : AddKey(fb, key).keys[i] = k
      BY <2>1, AddKeeps
    <3> QED BY <1>3, <2>2, <3>1
  <2> QED BY <2>2, <2>3, Zenon
<1>6. PICK e : e = BlockAdd(t.data, key, vlen, vlen)
  OBVIOUS
<1>7. BlockInv(e) /\ KeysIn(e) = KeysIn(t.data) \union {key}
  BY <1>1, <1>6, BlockAddSpells
<1>8. PICK v : v = [t EXCEPT !.filter = fc, !.last_key = key, !.data = e]
  OBVIOUS
<1>9. AddEntry(t, key, vlen) =
        IF CurrentSizeEstimate(v.data) >= DataBlockSize THEN FlushBlock(v) ELSE {v}
  BY <1>2, <1>3, <1>6, <1>8 DEF AddEntry
<1>10. /\ v \in TableState /\ v.file = t.file /\ v.data = e /\ v.filter = fc
       /\ v.offset = t.offset /\ v.placed = t.placed
  <2>1. e \in BlockState
    BY <1>7 DEF BlockInv
  <2> QED BY <1>1, <1>5, <1>8, <2>1 DEF TableState
<1>11. AllKnown(v)
  BY <1>1, <1>5, <1>10, KeptKnown
<1>12. \A k \in KeysIn(v.data) : \E i \in 1..Len(v.filter.keys) : v.filter.keys[i] = k
  <2> SUFFICES ASSUME NEW k \in KeysIn(e) PROVE \E i \in 1..Len(fc.keys) : fc.keys[i] = k
    BY <1>10
  <2>1. k = key \/ \E i \in 1..Len(t.filter.keys) : t.filter.keys[i] = k
    BY <1>1, <1>7
  <2> QED BY <1>5, <2>1
<1>13. Building(v)
  BY <1>1, <1>5, <1>7, <1>10, <1>11, <1>12 DEF Building, Written
<1> QED BY <1>9, <1>10, <1>13

LEMMA AddKeepsBuilding ==
  ASSUME CompressedLengths, NEW t, Building(t), NEW key \in Key \intersect DOMAIN Hash,
         NEW vlen \in Nat, NEW u \in AddEntry(t, key, vlen)
  PROVE  Building(u)
<1>1. PICK v : /\ AddEntry(t, key, vlen) =
                    IF CurrentSizeEstimate(v.data) >= DataBlockSize THEN FlushBlock(v) ELSE {v}
               /\ Building(v)
  BY EntryAdded
<1>2. u = v \/ u \in FlushBlock(v)
  BY <1>1
<1> QED BY <1>1, <1>2, FlushKeeps

\* The rest of Finish changes no data block and asks the filter to forget nothing.
LEMMA FinishFilterKeeps ==
  ASSUME NEW t, Written(t), NEW u \in FinishFilter(t)
  PROVE  Written(u) /\ (u.ok => u.filter.keys = <<>>)
<1>1. t \in TableState /\ FileInv(t.file) /\ AllKnown(t) /\ t.filter \in FilterState
  BY DEF Written, TableState
<1>2. PICK fc : fc = FilterFinish(t.filter)
  OBVIOUS
<1>3. fc \in FilterState /\ Kept(t.filter, fc) /\ fc.keys = <<>>
  BY <1>1, <1>2, FinishKeeps
<1>4. PICK v : v = [t EXCEPT !.filter = fc]
  OBVIOUS
<1>5. v \in TableState /\ v.file = t.file /\ v.filter = fc /\ v.placed = t.placed
  BY <1>1, <1>3, <1>4 DEF TableState
<1>6. Written(v)
  BY <1>1, <1>3, <1>5, KeptKnown DEF Written
<1>7. PICK size \in Nat : size = FilterSize(fc)
  <2>1. fc.size \in Nat /\ fc.offsets \in Seq(Nat)
    BY <1>3 DEF FilterState
  <2>2. Len(fc.offsets) \in Nat
    BY <2>1
  <2> QED BY <2>1, <2>2 DEF FilterSize
<1>8. u \in (IF t.ok THEN WriteRawBlock(v, "filter", FilterSize(v.filter), FALSE, {}) ELSE {t})
  BY <1>2, <1>4 DEF FinishFilter
<1>9. CASE ~t.ok
  BY <1>8, <1>9
<1>10. CASE t.ok
  <2>1. u \in WriteRawBlock(v, "filter", size, FALSE, {})
    BY <1>5, <1>7, <1>8, <1>10
  <2>2. "filter" \in Kinds \ {"data"} /\ {} \in SUBSET (Key \union Nat)
    BY DEF Kinds
  <2>3. Written(u)
    BY <1>6, <2>1, <2>2, OtherBlock
  <2>4. SameFilter(v, u)
    BY <1>6, <2>1, <2>2, OtherFilter
  <2> QED BY <1>3, <1>5, <2>3, <2>4 DEF SameFilter
<1> QED BY <1>9, <1>10

LEMMA FinishMetaKeeps ==
  ASSUME CompressedLengths, NEW t, Written(t), NEW u \in FinishMeta(t)
  PROVE  Written(u) /\ u.filter = t.filter /\ (~t.ok => ~u.ok)
<1>1. t \in TableState
  BY DEF Written
<1>2. PICK n \in Nat : n = Len(t.placed)
  <2>1. t.placed \in Seq(Placement)
    BY <1>1 DEF TableState
  <2> QED BY <2>1
<1>3. PICK meta : meta = BlockAdd(EmptyBlock, <<0, 0>>, n, 2)
  OBVIOUS
<1>4. Compressed(CurrentSizeEstimate(meta)) \in Nat
  <2>1. <<0, 0>> \in Key
    BY DEF Key
  <2>2. BlockInv(meta)
    BY <1>3, <2>1, EmptyBlockInv, BlockAddSpells
  <2> QED BY <2>2, SizeEstimate DEF BlockInv, CompressedLengths
<1>5. u \in (IF t.ok THEN WriteRawBlock(t, "metaindex", Compressed(CurrentSizeEstimate(meta)), TRUE, {n})
             ELSE {t})
  BY <1>2, <1>3 DEF FinishMeta, WriteBlock
<1>6. CASE ~t.ok
  BY <1>5, <1>6
<1>7. CASE t.ok
  <2>1. "metaindex" \in Kinds \ {"data"} /\ {n} \in SUBSET (Key \union Nat)
    BY DEF Kinds
  <2>2. Written(u)
    BY <1>4, <1>5, <1>7, <2>1, OtherBlock
  <2>3. SameFilter(t, u)
    BY <1>4, <1>5, <1>7, <2>1, OtherFilter
  <2> QED BY <1>7, <2>2, <2>3 DEF SameFilter
<1> QED BY <1>6, <1>7

LEMMA FinishIndexKeeps ==
  ASSUME CompressedLengths, NEW t, Written(t), NEW u \in FinishIndex(t)
  PROVE  Written(u) /\ u.filter = t.filter /\ (~t.ok => ~u.ok)
<1>1. t \in TableState /\ ~t.pending_index_entry /\ t.index = EmptyBlock
  BY DEF Written, TableState
<1>2. IndexPending(t, t.last_key) = t
  BY <1>1 DEF IndexPending
<1>3. EmptyBlock.entries = <<>> /\ EmptyBlock \in BlockState
  BY EmptyBlockInv DEF BlockInv, EmptyBlock
<1>4. {t.index.entries[i].val : i \in 1..Len(t.index.entries)} = {}
  <2>1. Len(t.index.entries) = 0
    BY <1>1, <1>3
  <2> QED BY <2>1
<1>5. u \in (IF t.ok THEN WriteRawBlock(t, "index", Compressed(CurrentSizeEstimate(EmptyBlock)), TRUE, {})
             ELSE {t})
  BY <1>1, <1>2, <1>4 DEF FinishIndex, WriteBlock
<1>6. Compressed(CurrentSizeEstimate(EmptyBlock)) \in Nat
  BY <1>3, SizeEstimate DEF CompressedLengths
<1>7. CASE ~t.ok
  BY <1>5, <1>7
<1>8. CASE t.ok
  <2>1. "index" \in Kinds \ {"data"} /\ {} \in SUBSET (Key \union Nat)
    BY DEF Kinds
  <2>2. Written(u)
    BY <1>5, <1>6, <1>8, <2>1, OtherBlock
  <2>3. SameFilter(t, u)
    BY <1>5, <1>6, <1>8, <2>1, OtherFilter
  <2> QED BY <1>8, <2>2, <2>3 DEF SameFilter
<1> QED BY <1>7, <1>8

\* A write of which only the file, the state and the offset are left.
LEMMA WithKeeps ==
  ASSUME NEW t, Written(t), NEW g, FileInv(g), NEW b \in BOOLEAN, NEW off \in Nat, NEW u,
         u = [t EXCEPT !.file = g, !.ok = b, !.offset = off]
  PROVE  Written(u)
<1>1. t \in TableState /\ AllKnown(t) /\ g \in FileState
  BY DEF Written, FileInv
<1>2. u \in TableState /\ u.file = g /\ u.placed = t.placed /\ u.filter = t.filter
  BY <1>1 DEF TableState
<1>3. AllKnown(u)
  BY <1>1, <1>2 DEF AllKnown
<1> QED BY <1>2, <1>3 DEF Written

LEMMA FinishFooterKeeps ==
  ASSUME NEW t, Written(t), NEW u \in FinishFooter(t)
  PROVE  Written(u) /\ u.filter = t.filter /\ (~t.ok => ~u.ok)
<1>1. t \in TableState /\ FileInv(t.file) /\ t.offset \in Nat
  BY DEF Written, TableState
<1>2. CASE ~t.ok
  BY <1>2 DEF FinishFooter
<1>3. CASE t.ok
  <2>1. PICK cells \in Seq(Cell) : cells = Cells(0, FooterSize, FALSE)
    <3>1. FooterSize \in Nat /\ 0 \in Int
      BY TableAssumption
    <3>2. Cells(0, FooterSize, FALSE) \in Seq(Cell)
      BY <3>1, CellsType, Zenon
    <3> QED BY <3>2
  <2>2. PICK o \in FileAppend(t.file, cells) :
          u = [With(t, o) EXCEPT !.offset = IF o.ok THEN @ + FooterSize ELSE @]
    BY <1>3, <2>1 DEF FinishFooter
  <2>3. FileInv(o.f) /\ o.ok \in BOOLEAN
    BY <1>1, <2>1, AppendType
  <2>4. PICK g, b : g = o.f /\ b = o.ok
    OBVIOUS
  <2>5. PICK off \in Nat : off = IF b THEN t.offset + FooterSize ELSE t.offset
    BY <1>1, TableAssumption
  <2>6. u = [t EXCEPT !.file = g, !.ok = b, !.offset = off]
    <3>1. u = [[t EXCEPT !.file = g, !.ok = b] EXCEPT !.offset = IF b THEN @ + FooterSize ELSE @]
      BY <2>2, <2>4 DEF With
    <3>2. t = [data |-> t.data, index |-> t.index, filter |-> t.filter, file |-> t.file,
               offset |-> t.offset, pending_index_entry |-> t.pending_index_entry, ok |-> t.ok,
               last_key |-> t.last_key, placed |-> t.placed]
      BY <1>1 DEF TableState
    <3> QED BY <2>5, <3>1, <3>2
  <2>7. Written(u)
    BY <2>3, <2>4, <2>6, WithKeeps
  <2>8. u.filter = t.filter
    BY <1>1, <2>6 DEF TableState
  <2> QED BY <1>3, <2>7, <2>8
<1> QED BY <1>2, <1>3
-----------------------------------------------------------------------------
(***************************************************************************)
(* The invariant                                                           *)
(***************************************************************************)

LEMMA TableInit == Init => TableInv
<1> SUFFICES ASSUME Init PROVE TableInv
  OBVIOUS
<1>1. tb = NewTable /\ pc = "add" /\ used = 0
  BY DEF Init
<1>2. NewFilter \in FilterState /\ NewFilter.offsets = <<>>
  <2>1. <<>> \in Seq(DOMAIN Hash) /\ <<>> \in Seq(Nat) /\ <<>> \in Seq(Filter)
    BY EmptySeq
  <2> QED BY <2>1 DEF NewFilter, FilterState
<1>3. NewFile \in FileState /\ FileInv(NewFile)
  <2>1. <<>> \in Seq(Cell) /\ Len(<<>>) = 0
    BY EmptySeq
  <2>2. NewFile \in FileState /\ NewFile.offset = 0 /\ NewFile.buf = <<>>
    BY <2>1 DEF NewFile, FileState
  <2> QED BY <2>1, <2>2 DEF FileInv
<1>4. BlockInv(EmptyBlock) /\ EmptyBlock \in BlockState /\ KeysIn(EmptyBlock) = {}
  BY EmptyBlockInv DEF BlockInv
<1>5. <<>> \in Key /\ <<>> \in Seq(Placement) /\ Len(<<>>) = 0
  BY EmptySeq DEF Key
<1>6. /\ tb \in TableState /\ tb.data = EmptyBlock /\ tb.filter = NewFilter /\ tb.file = NewFile
      /\ tb.offset = 0 /\ tb.placed = <<>>
  <2>1. PICK b, fb, f : b = EmptyBlock /\ fb = NewFilter /\ f = NewFile
    OBVIOUS
  <2>2. tb = [data |-> b, index |-> b, filter |-> fb, file |-> f, offset |-> 0,
              pending_index_entry |-> FALSE, ok |-> TRUE, last_key |-> <<>>, placed |-> <<>>]
    BY <1>1, <2>1 DEF NewTable
  <2>3. b \in BlockState /\ b \in {EmptyBlock} /\ fb \in FilterState /\ f \in FileState
    BY <1>2, <1>3, <1>4, <2>1
  <2> QED BY <1>5, <2>1, <2>2, <2>3 DEF TableState
<1>7. AllKnown(tb)
  BY <1>5, <1>6 DEF AllKnown
<1>8. 0 \div FilterBase = 0
  BY FilterAssumption
<1>9. Len(tb.filter.offsets) = tb.offset \div FilterBase
  BY <1>2, <1>5, <1>6, <1>8
<1>10. used \in 0..Len(TableKeys)
  BY <1>1, TableAssumption
<1>11. Written(tb)
  BY <1>3, <1>6, <1>7 DEF Written
<1>12. Building(tb)
  BY <1>4, <1>6, <1>9, <1>11 DEF Building
<1> QED BY <1>1, <1>10, <1>11, <1>12 DEF TableInv

LEMMA TableStep ==
  ASSUME CompressedLengths
  PROVE  TableInv /\ [Next]_vars => TableInv'
<1> SUFFICES ASSUME TableInv, [Next]_vars PROVE TableInv'
  OBVIOUS
<1>1. /\ pc \in {"add", "sync", "close", "built", "deleted"} /\ used \in 0..Len(TableKeys)
      /\ Written(tb) /\ (pc = "add" => Building(tb))
      /\ pc \in {"sync", "close", "built"} => tb.filter.keys = <<>>
  BY DEF TableInv
<1>2. TableKeys \in Seq(Seq(Nat)) /\ Len(TableKeys) \in Nat
  BY TableAssumption
<1>3. ASSUME NEW v \in ValueLengths, Add(v) PROVE TableInv'
  <2>1. /\ pc = "add" /\ used < Len(TableKeys) /\ used' = used + 1 /\ pc' = pc
        /\ tb' \in AddEntry(tb, TableKeys[used + 1], v)
    BY <1>3 DEF Add
  <2>2. PICK key \in Key \intersect DOMAIN Hash : key = TableKeys[used + 1]
    <3>1. used + 1 \in 1..Len(TableKeys)
      BY <1>1, <1>2, <2>1
    <3>2. TableKeys[used + 1] \in Seq(Nat) /\ TableKeys[used + 1] \in DOMAIN Hash
      BY <1>2, <3>1, TableAssumption
    <3> QED BY <3>2 DEF Key
  <2>3. v \in Nat
    BY TableAssumption
  <2>4. PICK u : u = tb'
    OBVIOUS
  <2>5. Building(u)
    BY <1>1, <2>1, <2>2, <2>3, <2>4, AddKeepsBuilding
  <2>6. Building(tb') /\ Written(tb')
    BY <2>4, <2>5 DEF Building
  <2>7. used' \in 0..Len(TableKeys)
    BY <1>1, <1>2, <2>1
  <2> QED BY <2>1, <2>6, <2>7 DEF TableInv
<1>4. CASE Skip
  <2>1. pc' = pc /\ tb' = tb /\ used' \in 0..Len(TableKeys)
    BY <1>1, <1>2, <1>4 DEF Skip
  <2> QED BY <1>1, <2>1 DEF TableInv
<1>5. CASE Finish
  <2>1. pc = "add" /\ used' = used
    BY <1>5 DEF Finish
  <2>2. PICK t \in FlushBlock(tb) : \E u \in FinishFilter(t) : \E v \in FinishMeta(u) :
          \E w \in FinishIndex(v) : tb' \in FinishFooter(w)
    BY <1>5 DEF Finish
  <2>3. Written(t)
    BY <1>1, <2>1, FlushKeeps DEF Building
  <2>4. PICK u \in FinishFilter(t) : \E v \in FinishMeta(u) :
          \E w \in FinishIndex(v) : tb' \in FinishFooter(w)
    BY <2>2
  <2>5. Written(u) /\ (u.ok => u.filter.keys = <<>>)
    BY <2>3, FinishFilterKeeps
  <2>6. PICK v \in FinishMeta(u) : \E w \in FinishIndex(v) : tb' \in FinishFooter(w)
    BY <2>4
  <2>7. Written(v) /\ v.filter = u.filter /\ (~u.ok => ~v.ok)
    BY <2>5, FinishMetaKeeps
  <2>8. PICK w \in FinishIndex(v) : tb' \in FinishFooter(w)
    BY <2>6
  <2>9. Written(w) /\ w.filter = v.filter /\ (~v.ok => ~w.ok)
    BY <2>7, <2>8, FinishIndexKeeps
  <2>10. PICK x : x = tb'
    OBVIOUS
  <2>11. Written(x) /\ x.filter = w.filter /\ (~w.ok => ~x.ok)
    BY <2>8, <2>9, <2>10, FinishFooterKeeps
  <2>12. x.ok => x.filter.keys = <<>>
    BY <2>5, <2>7, <2>9, <2>11
  <2>13. pc' = IF x.ok THEN "sync" ELSE "deleted"
    BY <1>5, <2>10 DEF Finish
  <2>14. pc' # "add" /\ pc' \in {"add", "sync", "close", "built", "deleted"} /\ (pc' # "deleted" => x.ok)
    BY <2>13
  <2> QED BY <1>1, <2>1, <2>10, <2>11, <2>12, <2>14 DEF TableInv
<1>6. ASSUME NEW o, FileInv(o.f), o.ok \in BOOLEAN, tb' = With(tb, o), used' = used,
             pc \in {"sync", "close"}, pc' \in {"close", "built", "deleted"}
      PROVE  TableInv'
  <2>1. PICK g, b : g = o.f /\ b = o.ok
    OBVIOUS
  <2>2. PICK x, off : x = tb' /\ off = tb.offset
    OBVIOUS
  <2>3. tb \in TableState /\ off \in Nat
    BY <1>1, <2>2 DEF Written, TableState
  <2>4. x = [tb EXCEPT !.file = g, !.ok = b, !.offset = off]
    <3>1. tb = [data |-> tb.data, index |-> tb.index, filter |-> tb.filter, file |-> tb.file,
                offset |-> tb.offset, pending_index_entry |-> tb.pending_index_entry, ok |-> tb.ok,
                last_key |-> tb.last_key, placed |-> tb.placed]
      BY <2>3 DEF TableState
    <3>2. x = [tb EXCEPT !.file = g, !.ok = b]
      BY <1>6, <2>1, <2>2 DEF With
    <3> QED BY <2>2, <3>1, <3>2
  <2>5. Written(x)
    BY <1>1, <1>6, <2>1, <2>3, <2>4, WithKeeps
  <2>6. pc' # "add" /\ pc' \in {"add", "sync", "close", "built", "deleted"}
    BY <1>6
  <2>7. x.filter = tb.filter
    BY <2>3, <2>4 DEF TableState
  <2> QED BY <1>1, <1>6, <2>2, <2>5, <2>6, <2>7 DEF TableInv
<1>7. CASE Sync
  <2>1. PICK o \in FileSync(tb.file) : tb' = With(tb, o)
                                       /\ pc' = IF o.ok THEN "close" ELSE "deleted"
    BY <1>7 DEF Sync
  <2>2. used' = used /\ pc = "sync"
    BY <1>7 DEF Sync
  <2>3. FileInv(o.f) /\ o.ok \in BOOLEAN
    BY <1>1, SyncType DEF Written
  <2> QED BY <1>6, <2>1, <2>2, <2>3
<1>8. CASE Close
  <2>1. PICK o \in FileClose(tb.file) : tb' = With(tb, o)
                                        /\ pc' = IF o.ok THEN "built" ELSE "deleted"
    BY <1>8 DEF Close
  <2>2. used' = used /\ pc = "close"
    BY <1>8 DEF Close
  <2>3. FileInv(o.f) /\ o.ok \in BOOLEAN
    BY <1>1, SyncType DEF Written
  <2> QED BY <1>6, <2>1, <2>2, <2>3
<1>9. CASE UNCHANGED vars
  BY <1>1, <1>9 DEF TableInv, vars
<1> QED BY <1>3, <1>4, <1>5, <1>7, <1>8, <1>9 DEF Next

\* The invariant, of every build of a table.
THEOREM TableInductive ==
  ASSUME CompressedLengths
  PROVE  Spec => []TableInv
<1>1. TableInv /\ [Next]_vars => TableInv'
  BY TableStep
<1> QED BY <1>1, TableInit, PTL DEF Spec

\* The builder and its file keep their types: offset counts what buf_ holds until an
\* Append after a failed flush takes it past the end of the buffer.
THEOREM TableTypeCorrect ==
  ASSUME CompressedLengths
  PROVE  Spec => []TypeOK
<1>1. TableInv => TypeOK
  BY DEF TableInv, Written, TableState, FileInv, TypeOK
<1> QED BY <1>1, TableInductive, PTL

\* In a finished table the filter of the range in which a data block begins was made and
\* has the bits of every internal key of the block, for any keys, values, hash function,
\* block size and filter range, also when blocks were placed at the offset of one that
\* could not be written.
THEOREM FilterAlwaysHolds ==
  ASSUME CompressedLengths
  PROVE  Spec => []FilterHolds
<1>1. TableInv => FilterHolds
  <2> SUFFICES ASSUME TableInv, pc \in {"sync", "close", "built"},
                      NEW i \in 1..Len(tb.placed), tb.placed[i].kind = "data",
                      NEW index, index = tb.placed[i].handle.offset \div FilterBase,
                      NEW key \in tb.placed[i].holds
               PROVE  /\ index < Len(tb.filter.offsets)
                      /\ BloomMayMatch(tb.filter.filters, FilterAt(tb.filter, index),
                                       FilterAt(tb.filter, index + 1), key)
    BY DEF FilterHolds
  <2>1. tb \in TableState /\ AllKnown(tb) /\ tb.filter.keys = <<>>
    BY DEF TableInv, Written
  <2>2. Known(tb.filter, tb.placed[i].handle.offset, key)
    BY <2>1 DEF AllKnown
  <2>3. 1..Len(tb.filter.keys) = {}
    BY <2>1
  <2> QED BY <2>2, <2>3 DEF Known
<1> QED BY <1>1, TableInductive, PTL
-----------------------------------------------------------------------------
(***************************************************************************)
(* What the file holds                                                     *)
(***************************************************************************)

LEMMA ConcatThree ==
  ASSUME NEW s \in Seq(Cell), NEW x \in Seq(Cell), NEW y \in Seq(Cell)
  PROVE  (s \o x) \o y = s \o (x \o y)
BY ConcatAssociative

LEMMA ConcatAt ==
  ASSUME NEW s \in Seq(Cell), NEW x \in Seq(Cell), NEW y, y = s \o x
  PROVE  /\ y \in Seq(Cell) /\ Len(y) = Len(s) + Len(x)
         /\ \A k \in 1..Len(s) : y[k] = s[k]
         /\ \A k \in 1..Len(x) : y[Len(s) + k] = x[k]
BY ConcatProperties

LEMMA CellsConcat ==
  ASSUME NEW s \in Seq(Cell), NEW x \in Seq(Cell)
  PROVE  CellsOf(s \o x) = CellsOf(s) \union CellsOf(x)
<1>1. PICK n \in Nat, m \in Nat : n = Len(s) /\ m = Len(x)
  OBVIOUS
<1>2. PICK y : y = s \o x
  OBVIOUS
<1>3. /\ Len(y) = n + m
      /\ \A k \in 1..n : y[k] = s[k]
      /\ \A k \in 1..m : y[n + k] = x[k]
  BY <1>1, <1>2, ConcatProperties
<1>4. CellsOf(y) \subseteq CellsOf(s) \union CellsOf(x)
  <2> SUFFICES ASSUME NEW k \in 1..(n + m) PROVE y[k] \in CellsOf(s) \union CellsOf(x)
    BY <1>3 DEF CellsOf
  <2>1. CASE k <= n
    <3>1. k \in 1..n
      BY <2>1
    <3> QED BY <1>1, <1>3, <3>1 DEF CellsOf
  <2>2. CASE ~(k <= n)
    <3>1. PICK l \in 1..m : k = n + l
      <4>1. k - n \in 1..m /\ k = n + (k - n)
        BY <2>2
      <4> QED BY <4>1
    <3> QED BY <1>1, <1>3, <3>1 DEF CellsOf
  <2> QED BY <2>1, <2>2
<1>5. CellsOf(s) \subseteq CellsOf(y)
  <2> SUFFICES ASSUME NEW k \in 1..n PROVE s[k] \in CellsOf(y)
    BY <1>1 DEF CellsOf
  <2>1. k \in 1..(n + m)
    OBVIOUS
  <2> QED BY <1>3, <2>1 DEF CellsOf
<1>6. CellsOf(x) \subseteq CellsOf(y)
  <2> SUFFICES ASSUME NEW k \in 1..m PROVE x[k] \in CellsOf(y)
    BY <1>1 DEF CellsOf
  <2>1. n + k \in 1..(n + m)
    OBVIOUS
  <2> QED BY <1>3, <2>1 DEF CellsOf
<1> QED BY <1>2, <1>4, <1>5, <1>6

LEMMA TwiceStays ==
  ASSUME NEW s \in Seq(Cell), NEW x \in Seq(Cell), Twice(s)
  PROVE  Twice(s \o x)
<1>1. PICK n \in Nat, m \in Nat : n = Len(s) /\ m = Len(x)
  OBVIOUS
<1>2. PICK y : y = s \o x
  OBVIOUS
<1>3. Len(y) = n + m /\ \A k \in 1..n : y[k] = s[k]
  BY <1>1, <1>2, ConcatProperties
<1>4. PICK i \in 1..n, j \in 1..n : i < j /\ s[i] = s[j]
  BY <1>1 DEF Twice
<1>5. i \in 1..(n + m) /\ j \in 1..(n + m)
  OBVIOUS
<1>6. Twice(y)
  BY <1>3, <1>4, <1>5 DEF Twice
<1> QED BY <1>2, <1>6

\* Two sequences that begin alike, one behind the other.
LEMMA TwiceBehind ==
  ASSUME NEW s \in Seq(Cell), NEW x \in Seq(Cell), NEW y \in Seq(Cell), Len(x) > 0, Len(y) > 0,
         x[1] = y[1]
  PROVE  Twice((s \o x) \o y)
<1>1. PICK n \in Nat, m \in Nat, l \in Nat : n = Len(s) /\ m = Len(x) /\ l = Len(y)
  OBVIOUS
<1>2. PICK z \in Seq(Cell) : z = s \o x
  BY ConcatProperties
<1>3. Len(z) = n + m /\ \A k \in 1..m : z[n + k] = x[k]
  BY <1>1, <1>2, ConcatProperties
<1>4. PICK w : w = z \o y
  OBVIOUS
<1>5. /\ Len(w) = n + m + l /\ \A k \in 1..(n + m) : w[k] = z[k]
      /\ \A k \in 1..l : w[n + m + k] = y[k]
  <2>1. /\ Len(w) = Len(z) + Len(y) /\ \A k \in 1..Len(z) : w[k] = z[k]
        /\ \A k \in 1..Len(y) : w[Len(z) + k] = y[k]
    <3>1. z \in Seq(Cell) /\ y \in Seq(Cell) /\ w = z \o y
      BY <1>4
    <3> QED BY <3>1, ConcatAt
  <2> QED BY <1>1, <1>3, <2>1
<1>6. m > 0 /\ l > 0
  BY <1>1
<1>7. n + 1 \in 1..(n + m) /\ 1 \in 1..m /\ 1 \in 1..l
  BY <1>6
<1>8. w[n + 1] = x[1] /\ w[n + m + 1] = y[1]
  BY <1>3, <1>5, <1>7
<1>9. n + 1 \in 1..(n + m + l) /\ n + m + 1 \in 1..(n + m + l) /\ n + 1 < n + m + 1
  BY <1>6
<1>10. Twice(w)
  BY <1>5, <1>8, <1>9 DEF Twice
<1> QED BY <1>2, <1>4, <1>10

\* What is wrong with a sequence stays wrong when other cells come behind it.
LEMMA SpoiledStays ==
  ASSUME NEW s \in Seq(Cell), NEW x \in Seq(Cell), NEW m, NEW more, Spoiled(s, m),
         CellsOf(s) \subseteq m, CellsOf(x) \subseteq more, more \intersect m = {}
  PROVE  Spoiled(s \o x, m \union more)
<1>1. CASE Twice(s)
  BY <1>1, TwiceStays DEF Spoiled
<1>2. CASE CellsOf(s) # m
  <2>1. PICK c \in m : c \notin CellsOf(s)
    BY <1>2
  <2>2. c \notin CellsOf(x)
    BY <2>1
  <2>3. c \notin CellsOf(s \o x)
    BY <2>1, <2>2, CellsConcat
  <2> QED BY <2>1, <2>3 DEF Spoiled
<1> QED BY <1>1, <1>2 DEF Spoiled

LEMMA HeldType ==
  ASSUME NEW f \in FileState
  PROVE  /\ Held(f) \in Seq(Cell) /\ f.disk \in Seq(Cell) /\ f.buf \in Seq(Cell)
         /\ f.offset \in Nat /\ f.lost \in BOOLEAN /\ Len(Held(f)) \in Nat
<1>1. /\ f.disk \in Seq(Cell) /\ f.buf \in Seq(Cell) /\ f.offset \in Nat /\ f.lost \in BOOLEAN
  BY DEF FileState
<1>2. Held(f) \in Seq(Cell)
  BY <1>1, ConcatProperties DEF Held
<1>3. Len(Held(f)) \in Nat
  BY <1>2
<1> QED BY <1>1, <1>2, <1>3

\* What Flush does to what a file holds: nothing, or a write took a part of the buffer and
\* the next one began with the buffer again.
LEMMA FlushHolds ==
  ASSUME NEW f, FileInv(f), ~Broken(f), NEW o \in FileFlush(f)
  PROVE  /\ \/ o.f.lost = f.lost /\ Held(o.f) = Held(f)
            \/ /\ ~f.lost /\ o.f.lost /\ Twice(Held(o.f))
               /\ CellsOf(Held(o.f)) \subseteq CellsOf(Held(f))
         /\ o.ok => o.f.buf = <<>>
<1>1. f \in FileState /\ f.offset = Len(f.buf)
  BY DEF FileInv
<1>2. f.disk \in Seq(Cell) /\ f.buf \in Seq(Cell) /\ f.offset \in Nat /\ f.lost \in BOOLEAN
  BY <1>1, HeldType
<1>3. PICK d, b : d = f.disk /\ b = f.buf
  OBVIOUS
<1>4. d \in Seq(Cell) /\ b \in Seq(Cell) /\ Held(f) = d \o b /\ f.offset = Len(b)
  BY <1>1, <1>2, <1>3 DEF Held
<1>5. f = [buf |-> b, offset |-> f.offset, disk |-> d, lost |-> f.lost]
  BY <1>1, <1>3 DEF FileState
<1>6. SubSeq(b, 1, f.offset) = b
  BY <1>4
<1>7. CASE f.offset = 0
  <2>1. o = [f |-> f, ok |-> TRUE]
    BY <1>7 DEF FileFlush
  <2>2. f.buf = <<>>
    BY <1>3, <1>4, <1>7, EmptySeq
  <2> QED BY <2>1, <2>2
<1>8. CASE f.offset # 0
  <2>1. \/ o = [f |-> Emptied(Taken(f, f.offset)), ok |-> TRUE]
        \/ o = [f |-> f, ok |-> FALSE]
        \/ \E n \in {k \in PartialLengths : k < f.offset /\ ~f.lost} :
             \/ o = [f |-> Emptied(Taken(Lost(Taken(f, n)), f.offset - n)), ok |-> TRUE]
             \/ o = [f |-> Lost(Taken(f, n)), ok |-> FALSE]
             \/ o = [f |-> Taken(Lost(Taken(f, n)), f.offset), ok |-> FALSE]
    BY <1>8 DEF FileFlush
  <2>2. CASE o = [f |-> Emptied(Taken(f, f.offset)), ok |-> TRUE]
    <3>1. PICK h : h = d \o b
      OBVIOUS
    <3>2. o.f = [buf |-> <<>>, offset |-> 0, disk |-> h, lost |-> f.lost]
      BY <1>3, <1>5, <1>6, <2>2, <3>1 DEF Emptied, Taken
    <3>3. h \in Seq(Cell) /\ h \o <<>> = h
      BY <1>4, <3>1, ConcatProperties, ConcatEmptySeq
    <3> QED BY <1>4, <3>1, <3>2, <3>3 DEF Held
  <2>3. CASE o = [f |-> f, ok |-> FALSE]
    BY <2>3
  <2>4. ASSUME NEW n \in PartialLengths, n < f.offset, ~f.lost,
               \/ o = [f |-> Emptied(Taken(Lost(Taken(f, n)), f.offset - n)), ok |-> TRUE]
               \/ o = [f |-> Lost(Taken(f, n)), ok |-> FALSE]
               \/ o = [f |-> Taken(Lost(Taken(f, n)), f.offset), ok |-> FALSE]
        PROVE  /\ ~f.lost /\ o.f.lost /\ Twice(Held(o.f))
               /\ CellsOf(Held(o.f)) \subseteq CellsOf(Held(f))
               /\ o.ok => o.f.buf = <<>>
    <3>1. n \in 1..(f.offset - 1) /\ f.offset - n \in 1..f.offset
      BY <1>2, <2>4, FileAssumption
    <3>2. PICK x, y : x = SubSeq(b, 1, n) /\ y = SubSeq(b, 1, f.offset - n)
      OBVIOUS
    <3>3. /\ x \in Seq(Cell) /\ Len(x) > 0 /\ x[1] = b[1] /\ CellsOf(x) \subseteq CellsOf(b)
          /\ y \in Seq(Cell) /\ Len(y) > 0 /\ y[1] = b[1] /\ CellsOf(y) \subseteq CellsOf(b)
      <4>1. ASSUME NEW l \in 1..f.offset, NEW z, z = SubSeq(b, 1, l)
            PROVE  z \in Seq(Cell) /\ Len(z) > 0 /\ z[1] = b[1] /\ CellsOf(z) \subseteq CellsOf(b)
        <5>1. z \in Seq(Cell) /\ Len(z) = l /\ \A k \in 1..l : z[k] = b[k]
          BY <1>2, <1>4, <4>1
        <5>2. CellsOf(z) \subseteq CellsOf(b)
          <6> SUFFICES ASSUME NEW k \in 1..l PROVE z[k] \in CellsOf(b)
            BY <5>1 DEF CellsOf
          <6>1. k \in 1..Len(b)
            BY <1>2, <1>4
          <6> QED BY <5>1, <6>1 DEF CellsOf
        <5>3. l > 0 /\ 1 \in 1..l
          BY <1>2
        <5> QED BY <5>1, <5>2, <5>3
      <4>2. n \in 1..f.offset
        BY <1>2, <3>1
      <4> QED BY <3>1, <3>2, <4>1, <4>2
    <3>4. Len(b) > 0
      BY <1>2, <1>4, <1>8
    <3>5. PICK dx : dx = d \o x
      OBVIOUS
    <3>6. dx \in Seq(Cell) /\ CellsOf(dx) \subseteq CellsOf(Held(f)) /\ CellsOf(b) \subseteq CellsOf(Held(f))
      <4>1. CellsOf(dx) = CellsOf(d) \union CellsOf(x)
        BY <1>4, <3>3, <3>5, CellsConcat
      <4>2. CellsOf(Held(f)) = CellsOf(d) \union CellsOf(b)
        BY <1>4, CellsConcat
      <4>3. dx \in Seq(Cell)
        BY <1>4, <3>3, <3>5, ConcatProperties
      <4> QED BY <3>3, <4>1, <4>2, <4>3
    <3>7. PICK g : g = Lost(Taken(f, n))
      OBVIOUS
    <3>8. g = [buf |-> b, offset |-> f.offset, disk |-> dx, lost |-> TRUE]
      BY <1>3, <1>5, <3>2, <3>5, <3>7 DEF Lost, Taken
    <3>9. CASE o = [f |-> Emptied(Taken(g, f.offset - n)), ok |-> TRUE]
      <4>1. PICK h : h = dx \o y
        OBVIOUS
      <4>2. o.f = [buf |-> <<>>, offset |-> 0, disk |-> h, lost |-> TRUE]
        BY <3>2, <3>8, <3>9, <4>1 DEF Emptied, Taken
      <4>3. h \in Seq(Cell) /\ h \o <<>> = h
        BY <3>3, <3>6, <4>1, ConcatProperties, ConcatEmptySeq
      <4>4. Held(o.f) = h
        BY <4>2, <4>3 DEF Held
      <4>5. Twice(h)
        BY <1>4, <3>3, <3>5, <4>1, TwiceBehind
      <4>6. CellsOf(h) \subseteq CellsOf(Held(f))
        BY <3>3, <3>6, <4>1, CellsConcat
      <4>7. o.f.lost = TRUE /\ o.f.buf = <<>>
        BY <4>2
      <4> QED BY <2>4, <4>4, <4>5, <4>6, <4>7
    <3>10. CASE o = [f |-> g, ok |-> FALSE]
      <4>1. Held(o.f) = dx \o b /\ o.f.lost = TRUE /\ o.ok = FALSE
        BY <3>8, <3>10 DEF Held
      <4>2. Twice(dx \o b)
        BY <1>4, <3>3, <3>4, <3>5, TwiceBehind
      <4>3. CellsOf(dx \o b) \subseteq CellsOf(Held(f))
        BY <1>4, <3>6, CellsConcat
      <4> QED BY <2>4, <4>1, <4>2, <4>3
    <3>11. CASE o = [f |-> Taken(g, f.offset), ok |-> FALSE]
      <4>1. PICK h : h = dx \o b
        OBVIOUS
      <4>2. o.f = [buf |-> b, offset |-> f.offset, disk |-> h, lost |-> TRUE] /\ o.ok = FALSE
        BY <1>6, <3>8, <3>11, <4>1 DEF Taken
      <4>3. h \in Seq(Cell) /\ Twice(h)
        BY <1>4, <3>3, <3>4, <3>5, <3>6, <4>1, TwiceBehind, ConcatProperties
      <4>4. Held(o.f) = h \o b
        BY <4>2 DEF Held
      <4>5. Twice(h \o b)
        BY <1>4, <4>3, TwiceStays
      <4>6. CellsOf(h \o b) \subseteq CellsOf(Held(f))
        <5>1. CellsOf(h) \subseteq CellsOf(Held(f))
          BY <1>4, <3>6, <4>1, CellsConcat
        <5> QED BY <1>4, <3>6, <4>3, <5>1, CellsConcat
      <4>7. o.f.lost = TRUE
        BY <4>2
      <4> QED BY <2>4, <4>2, <4>4, <4>5, <4>6, <4>7
    <3> QED BY <2>4, <3>7, <3>9, <3>10, <3>11
  <2> QED BY <2>1, <2>2, <2>3, <2>4
<1> QED BY <1>7, <1>8

\* Flush neither hides what is wrong with the file nor spoils it unnoticed.
LEMMA FlushSends ==
  ASSUME NEW f, FileInv(f), NEW m, Sent(f, m), NEW o \in FileFlush(f)
  PROVE  /\ Sent(o.f, m)
         /\ ~Broken(o.f) => ~Broken(f) /\ (o.ok => o.f.buf = <<>>)
         /\ Good(o.f) => Good(f) /\ Held(o.f) = Held(f)
<1>1. CASE Broken(f)
  <2>1. o \in [f : {f}, ok : BOOLEAN]
    BY <1>1 DEF FileFlush, Anything
  <2>2. o.f = f
    BY <2>1
  <2> QED BY <1>1, <2>2 DEF Sent, Good
<1>2. CASE ~Broken(f)
  <2>1. /\ \/ o.f.lost = f.lost /\ Held(o.f) = Held(f)
           \/ /\ ~f.lost /\ o.f.lost /\ Twice(Held(o.f))
              /\ CellsOf(Held(o.f)) \subseteq CellsOf(Held(f))
        /\ o.ok => o.f.buf = <<>>
    BY <1>2, FlushHolds
  <2>2. CellsOf(Held(f)) \subseteq m /\ (f.lost => Spoiled(Held(f), m))
    BY <1>2 DEF Sent
  <2> QED BY <1>2, <2>1, <2>2 DEF Sent, Good, Spoiled
<1> QED BY <1>1, <1>2

\* Append puts all of data behind what there is, or the file is spoiled.
LEMMA AppendSends ==
  ASSUME NEW f, FileInv(f), NEW data \in Seq(Cell), NEW m, Sent(f, m), Fresh(data, m),
         NEW o \in FileAppend(f, data)
  PROVE  /\ Sent(o.f, m \union CellsOf(data))
         /\ Good(o.f) => Good(f) /\ o.ok /\ Held(o.f) = Held(f) \o data
<1>1. f \in FileState
  BY DEF FileInv
<1>2. /\ f.disk \in Seq(Cell) /\ f.buf \in Seq(Cell) /\ f.offset \in Nat /\ f.lost \in BOOLEAN
      /\ Held(f) \in Seq(Cell)
  BY <1>1, HeldType
<1>3. CASE Broken(f)
  <2>1. o \in [f : {f}, ok : BOOLEAN]
    BY <1>3 DEF FileAppend, Anything
  <2>2. o.f = f
    BY <2>1
  <2> QED BY <1>3, <2>2 DEF Sent, Good
<1>4. CASE ~Broken(f)
  <2> DEFINE n == IF Len(data) <= BufferSize - f.offset THEN Len(data) ELSE BufferSize - f.offset
             rest == Len(data) - n
             f1 == [f EXCEPT !.buf = @ \o SubSeq(data, 1, n), !.offset = @ + n]
             Again(g) == [g EXCEPT !.buf = SubSeq(data, 1, rest) \o SubSeq(g.buf, rest + 1, Len(g.buf)),
                                   !.offset = @ + rest,
                                   !.lost = @ \/ n > 0 \/ g.offset > 0]
  <2>0. o \in (IF rest = 0 THEN {[f |-> f1, ok |-> TRUE]}
               ELSE IF rest < BufferSize THEN {[f |-> Again(p.f), ok |-> TRUE] : p \in FileFlush(f1)}
               ELSE UNION {FileFlush(Lost(p.f)) : p \in FileFlush(f1)})
    BY <1>4 DEF FileAppend
  <2> HIDE DEF n, rest, f1, Again
  <2>1. PICK size \in Nat : size = Len(data)
    OBVIOUS
  <2>2. f.offset = Len(f.buf) /\ f.offset <= BufferSize /\ BufferSize \in Nat
    BY <1>2, <1>4, FileAssumption DEF FileInv, Broken
  <2>3. n = IF Len(data) <= BufferSize - f.offset THEN Len(data) ELSE BufferSize - f.offset
    BY DEF n
  <2>4. n \in 0..size /\ f.offset + n <= BufferSize /\ (n < size => f.offset + n = BufferSize)
    <3>1. PICK x \in Nat : x = f.offset
      BY <1>2
    <3>2. x <= BufferSize /\ BufferSize \in Nat /\ n = IF size <= BufferSize - x THEN size ELSE BufferSize - x
      BY <2>1, <2>2, <2>3, <3>1
    <3>3. n \in 0..size /\ x + n <= BufferSize /\ (n < size => x + n = BufferSize)
      BY <3>2
    <3> QED BY <3>1, <3>3
  <2>5. rest = size - n
    BY <2>1 DEF rest
  <2>6. rest \in 0..size /\ (rest # 0 => f.offset + n = BufferSize)
    BY <1>2, <2>2, <2>4, <2>5
  <2>7. f1 = [f EXCEPT !.buf = @ \o SubSeq(data, 1, n), !.offset = @ + n]
    BY DEF f1
  <2>8. PICK d1, a : d1 = SubSeq(data, 1, n) /\ a = SubSeq(data, 1, rest)
    OBVIOUS
  <2>9. /\ d1 \in Seq(Cell) /\ Len(d1) = n /\ \A k \in 1..n : d1[k] = data[k]
        /\ a \in Seq(Cell) /\ Len(a) = rest /\ \A k \in 1..rest : a[k] = data[k]
    BY <2>1, <2>4, <2>6, <2>8
  <2>10. CellsOf(d1) \subseteq CellsOf(data) /\ CellsOf(a) \subseteq CellsOf(data)
    <3>1. \A k \in 1..n : k \in 1..size
      BY <2>4
    <3>2. \A k \in 1..rest : k \in 1..size
      BY <2>6
    <3> QED BY <2>1, <2>9, <3>1, <3>2 DEF CellsOf
  <2>11. PICK b : b = f.buf \o d1
    OBVIOUS
  <2>12. b \in Seq(Cell) /\ Len(b) = Len(f.buf) + n
    BY <1>2, <2>9, <2>11, ConcatProperties
  <2>13. PICK c \in Nat : c = f.offset + n
    BY <1>2, <2>4
  <2>14. f1 = [buf |-> b, offset |-> c, disk |-> f.disk, lost |-> f.lost]
    <3>1. f = [buf |-> f.buf, offset |-> f.offset, disk |-> f.disk, lost |-> f.lost]
      BY <1>1 DEF FileState
    <3> QED BY <2>7, <2>8, <2>11, <2>13, <3>1
  <2>15. f1 \in FileState /\ FileInv(f1) /\ ~Broken(f1)
    <3>1. f1 \in FileState /\ f1.offset = c /\ f1.buf = b
      BY <1>2, <2>12, <2>13, <2>14 DEF FileState
    <3>2. c = Len(b) /\ ~(c > BufferSize)
      BY <2>2, <2>4, <2>12, <2>13
    <3> QED BY <3>1, <3>2 DEF FileInv, Broken
  <2>16. Held(f1) = Held(f) \o d1 /\ f1.lost = f.lost
    <3>1. f.disk \o (f.buf \o d1) = (f.disk \o f.buf) \o d1
      <4>1. PICK x, y : x = f.disk /\ y = f.buf
        OBVIOUS
      <4>2. x \in Seq(Cell) /\ y \in Seq(Cell) /\ d1 \in Seq(Cell)
        BY <1>2, <2>9, <4>1
      <4>3. (x \o y) \o d1 = x \o (y \o d1)
        BY <4>2, ConcatThree
      <4> QED BY <4>1, <4>3
    <3>2. Held(f1) = f.disk \o b
      BY <2>14 DEF Held
    <3> QED BY <2>11, <2>14, <3>1, <3>2 DEF Held
  <2>17. /\ CellsOf(Held(f)) \subseteq m /\ (f.lost => Spoiled(Held(f), m))
         /\ CellsOf(data) \intersect m = {}
    BY <1>4 DEF Sent, Fresh
  \* Whatever of data comes behind what a spoiled file holds.
  <2>18. ASSUME NEW g, NEW x \in Seq(Cell), CellsOf(x) \subseteq CellsOf(data),
                Held(g) = Held(f) \o x, g.lost => f.lost
         PROVE  Sent(g, m \union CellsOf(data))
    <3>1. CellsOf(Held(g)) \subseteq m \union CellsOf(data)
      BY <1>2, <2>17, <2>18, CellsConcat
    <3>2. g.lost => Spoiled(Held(g), m \union CellsOf(data))
      <4> SUFFICES ASSUME g.lost PROVE Spoiled(Held(g), m \union CellsOf(data))
        OBVIOUS
      <4>1. Spoiled(Held(f), m)
        BY <2>17, <2>18
      <4>2. PICK more : more = CellsOf(data)
        OBVIOUS
      <4>3. more \intersect m = {} /\ CellsOf(x) \subseteq more
        BY <2>17, <2>18, <4>2
      <4>4. Spoiled(Held(f) \o x, m \union more)
        BY <1>2, <2>17, <4>1, <4>3, SpoiledStays
      <4> QED BY <2>18, <4>2, <4>4
    <3> QED BY <3>1, <3>2 DEF Sent
  <2>19. ASSUME NEW p \in FileFlush(f1)
         PROVE  /\ FileInv(p.f) /\ p.f \in FileState /\ ~Broken(p.f)
                /\ \/ p.f.buf = <<>> /\ p.f.offset = 0
                   \/ p.f.offset = BufferSize \/ rest = 0
                /\ \/ p.f.lost = f.lost /\ Held(p.f) = Held(f) \o d1
                   \/ ~f.lost /\ p.f.lost /\ Twice(Held(p.f))
                      /\ CellsOf(Held(p.f)) \subseteq m \union CellsOf(data)
    <3>1. /\ FileInv(p.f)
          /\ \/ p.f.buf = <<>> /\ p.f.offset = 0
             \/ p.f.buf = f1.buf /\ p.f.offset = f1.offset
      BY <2>15, FlushType
    <3>2. p.f \in FileState
      BY <3>1 DEF FileInv
    <3>3. f1.offset = f.offset + n
      BY <2>13, <2>14
    <3>4. ~(p.f.offset > BufferSize)
      BY <1>2, <2>2, <2>4, <3>1, <3>3
    <3>5. (p.f.buf = <<>> /\ p.f.offset = 0) \/ p.f.offset = BufferSize \/ rest = 0
      BY <2>6, <3>1, <3>3
    <3>6. \/ p.f.lost = f1.lost /\ Held(p.f) = Held(f1)
          \/ ~f1.lost /\ p.f.lost /\ Twice(Held(p.f)) /\ CellsOf(Held(p.f)) \subseteq CellsOf(Held(f1))
      BY <2>15, FlushHolds
    <3>7. CellsOf(Held(f1)) \subseteq m \union CellsOf(data)
      BY <1>2, <2>9, <2>10, <2>16, <2>17, CellsConcat
    <3> QED BY <2>16, <3>1, <3>2, <3>4, <3>5, <3>6, <3>7 DEF Broken
  <2>20. CASE rest = 0
    <3>1. o = [f |-> f1, ok |-> TRUE]
      BY <2>0, <2>20
    <3>2. d1 = data
      <4>1. n = size
        BY <2>4, <2>5, <2>20
      <4> QED BY <2>1, <2>8, <4>1
    <3>3. Sent(f1, m \union CellsOf(data))
      BY <2>9, <2>10, <2>16, <2>18
    <3>4. Good(f1) => Good(f)
      BY <1>4, <2>16 DEF Good
    <3> QED BY <2>16, <3>1, <3>2, <3>3, <3>4
  <2>21. CASE rest # 0 /\ rest < BufferSize
    <3>1. PICK p \in FileFlush(f1) : o = [f |-> Again(p.f), ok |-> TRUE]
      BY <2>0, <2>21
    <3>2. PICK g : g = p.f
      OBVIOUS
    <3>3. /\ g \in FileState /\ ~Broken(g)
          /\ \/ g.buf = <<>> /\ g.offset = 0
             \/ g.offset = BufferSize
          /\ \/ g.lost = f.lost /\ Held(g) = Held(f) \o d1
             \/ ~f.lost /\ g.lost /\ Twice(Held(g)) /\ CellsOf(Held(g)) \subseteq m \union CellsOf(data)
      BY <2>19, <2>21, <3>2
    <3>4. PICK h : h = Again(g)
      OBVIOUS
    <3>5. o.f = h /\ o.ok = TRUE
      BY <3>1, <3>2, <3>4
    <3>6. /\ g.buf \in Seq(Cell) /\ g.disk \in Seq(Cell) /\ g.offset \in Nat /\ g.lost \in BOOLEAN
          /\ Held(g) \in Seq(Cell)
      BY <3>3, HeldType
    <3>7. PICK z, l : z = SubSeq(g.buf, rest + 1, Len(g.buf)) /\ l = (g.lost \/ n > 0 \/ g.offset > 0)
      OBVIOUS
    <3>8. h = [g EXCEPT !.buf = a \o z, !.offset = @ + rest, !.lost = l]
      BY <2>8, <3>4, <3>7 DEF Again
    <3>9. h = [buf |-> a \o z, offset |-> g.offset + rest, disk |-> g.disk, lost |-> l]
      <4>1. g = [buf |-> g.buf, offset |-> g.offset, disk |-> g.disk, lost |-> g.lost]
        BY <3>3 DEF FileState
      <4> QED BY <3>8, <4>1
    <3>10. CASE g.offset = BufferSize
      <4>1. h.offset = BufferSize + rest
        BY <3>9, <3>10
      <4>2. Broken(h)
        BY <2>2, <2>6, <2>21, <4>1 DEF Broken
      <4> QED BY <3>5, <4>2 DEF Sent, Good
    <3>11. CASE g.buf = <<>> /\ g.offset = 0
      <4>1. z = <<>>
        <5>1. Len(g.buf) = 0 /\ rest + 1 \in Nat /\ rest + 1 > 0
          BY <2>6, <3>11
        <5> QED BY <3>6, <3>7, <5>1
      <4>2. a \o z = a
        BY <2>9, <4>1, ConcatEmptySeq
      <4>3. Held(g) = g.disk
        BY <3>6, <3>11, ConcatEmptySeq DEF Held
      <4>4. Held(h) = Held(g) \o a /\ h.lost = l
        BY <3>9, <4>2, <4>3 DEF Held
      <4>5. l = (g.lost \/ n > 0)
        BY <3>7, <3>11
      <4>6. CASE ~f.lost /\ g.lost /\ Twice(Held(g)) /\ CellsOf(Held(g)) \subseteq m \union CellsOf(data)
        <5>1. Twice(Held(h))
          BY <2>9, <3>6, <4>4, <4>6, TwiceStays
        <5>2. CellsOf(Held(h)) \subseteq m \union CellsOf(data)
          BY <2>9, <2>10, <3>6, <4>4, <4>6, CellsConcat
        <5>3. h.lost
          BY <4>4, <4>5, <4>6
        <5> QED BY <3>5, <5>1, <5>2, <5>3 DEF Sent, Good, Spoiled
      <4>7. CASE g.lost = f.lost /\ Held(g) = Held(f) \o d1
        <5>1. PICK x : x = d1 \o a
          OBVIOUS
        <5>2. x \in Seq(Cell) /\ CellsOf(x) \subseteq CellsOf(data)
          BY <2>9, <2>10, <5>1, ConcatProperties, CellsConcat
        <5>3. Held(h) = Held(f) \o x
          <6>1. (Held(f) \o d1) \o a = Held(f) \o (d1 \o a)
            <7>1. PICK held \in Seq(Cell) : held = Held(f)
              BY <1>2
            <7>2. d1 \in Seq(Cell) /\ a \in Seq(Cell)
              BY <2>9
            <7> QED BY <7>1, <7>2, ConcatThree
          <6> QED BY <4>4, <4>7, <5>1, <6>1
        <5>4. CASE f.lost \/ n = 0
          <6>1. h.lost => f.lost
            <7>1. n = 0 => ~(n > 0)
              OBVIOUS
            <7> QED BY <4>4, <4>5, <4>7, <5>4, <7>1, Zenon
          <6>2. Sent(h, m \union CellsOf(data))
            BY <2>18, <5>2, <5>3, <6>1
          <6>3. ASSUME Good(h) PROVE Good(f) /\ Held(h) = Held(f) \o data
            <7>1. ~f.lost /\ n = 0
              BY <4>4, <4>5, <4>7, <5>4, <6>3 DEF Good
            <7>2. a = data
              BY <2>1, <2>5, <2>8, <7>1
            <7>3. d1 = <<>>
              BY <2>9, <7>1, EmptySeq
            <7>4. x = data
              BY <2>9, <5>1, <7>2, <7>3, ConcatEmptySeq
            <7> QED BY <1>4, <5>3, <7>1, <7>4 DEF Good
          <6> QED BY <3>5, <6>2, <6>3
        <5>5. CASE ~(f.lost \/ n = 0)
          <6>1. n > 0 /\ rest > 0
            BY <2>4, <2>6, <2>21, <5>5
          <6>2. Len(d1) > 0 /\ Len(a) > 0 /\ d1[1] = a[1]
            <7>1. 1 \in 1..n /\ 1 \in 1..rest
              BY <2>4, <2>6, <6>1
            <7> QED BY <2>9, <6>1, <7>1
          <6>3. Twice(Held(h))
            BY <1>2, <2>9, <4>4, <4>7, <6>2, TwiceBehind
          <6>4. CellsOf(Held(h)) \subseteq m \union CellsOf(data)
            BY <1>2, <2>17, <5>2, <5>3, CellsConcat
          <6>5. h.lost
            BY <4>4, <4>5, <6>1
          <6> QED BY <3>5, <6>3, <6>4, <6>5 DEF Sent, Good, Spoiled
        <5> QED BY <5>4, <5>5
      <4> QED BY <3>3, <4>6, <4>7
    <3> QED BY <3>3, <3>10, <3>11
  <2>22. CASE rest # 0 /\ ~(rest < BufferSize)
    <3>1. PICK p \in FileFlush(f1) : o \in FileFlush(Lost(p.f))
      BY <2>0, <2>22
    <3>2. PICK g : g = p.f
      OBVIOUS
    <3>3. /\ g \in FileState /\ FileInv(g) /\ ~Broken(g)
          /\ \/ g.lost = f.lost /\ Held(g) = Held(f) \o d1
             \/ ~f.lost /\ g.lost /\ Twice(Held(g)) /\ CellsOf(Held(g)) \subseteq m \union CellsOf(data)
      BY <2>19, <3>2
    <3>4. PICK h : h = Lost(g)
      OBVIOUS
    <3>5. /\ h \in FileState /\ h.buf = g.buf /\ h.offset = g.offset /\ h.disk = g.disk /\ h.lost = TRUE
      BY <3>3, <3>4 DEF Lost, FileState
    <3>6. FileInv(h) /\ ~Broken(h) /\ Held(h) = Held(g)
      BY <3>3, <3>5 DEF FileInv, Broken, Held
    <3>7. o.f.lost = TRUE /\ Held(o.f) = Held(g)
      <4>1. o \in FileFlush(h)
        BY <3>1, <3>2, <3>4
      <4>2. \/ o.f.lost = h.lost /\ Held(o.f) = Held(h)
            \/ ~h.lost
        BY <3>6, <4>1, FlushHolds
      <4> QED BY <3>5, <3>6, <4>2
    <3>8. CASE Twice(Held(g)) /\ CellsOf(Held(g)) \subseteq m \union CellsOf(data)
      BY <3>7, <3>8 DEF Sent, Good, Spoiled
    <3>9. CASE Held(g) = Held(f) \o d1
      <4>1. CellsOf(Held(g)) = CellsOf(Held(f)) \union CellsOf(d1)
        BY <1>2, <2>9, <3>9, CellsConcat
      <4>2. size \in 1..size /\ n < size
        BY <2>4, <2>5, <2>6, <2>22
      <4>3. data[size] \in CellsOf(data)
        BY <2>1, <4>2 DEF CellsOf
      <4>4. data[size] \notin CellsOf(d1)
        <5> SUFFICES ASSUME NEW k \in 1..n, data[size] = d1[k] PROVE FALSE
          BY <2>9 DEF CellsOf
        <5>1. k \in 1..size /\ k # size
          BY <2>4, <4>2
        <5>2. data[k] = data[size]
          BY <2>9
        <5> QED BY <2>1, <4>2, <5>1, <5>2 DEF Fresh
      <4>5. data[size] \notin CellsOf(Held(f))
        BY <2>17, <4>3
      <4>6. CellsOf(Held(g)) # m \union CellsOf(data)
        BY <4>1, <4>3, <4>4, <4>5
      <4>7. CellsOf(Held(g)) \subseteq m \union CellsOf(data)
        BY <2>10, <2>17, <4>1
      <4> QED BY <3>7, <4>6, <4>7 DEF Sent, Good, Spoiled
    <3> QED BY <3>3, <3>8, <3>9
  <2> QED BY <2>20, <2>21, <2>22
<1> QED BY <1>3, <1>4
-----------------------------------------------------------------------------
(***************************************************************************)
(* Where the blocks lie                                                    *)
(***************************************************************************)

LEMMA CellsOwn ==
  ASSUME NEW n \in Int, NEW size \in Nat, NEW compressed \in BOOLEAN
  PROVE  OwnCells(Cells(n, size, compressed), n, size)
<1>1. PICK s : s = Cells(n, size, compressed)
  OBVIOUS
<1>2. s \in Seq(Cell)
  BY <1>1, CellsType
<1>3. s = [i \in 1..size |-> <<n, IF compressed /\ i = 1 THEN 0 ELSE i>>]
  BY <1>1 DEF Cells
<1>4. Len(s) = size
  BY <1>3
<1>5. \A k \in 1..size : s[k] = <<n, IF compressed /\ k = 1 THEN 0 ELSE k>>
  BY <1>3
<1>6. \A k \in 1..size : s[k][1] = n /\ s[k][2] = IF compressed /\ k = 1 THEN 0 ELSE k
  BY <1>5
<1>7. ASSUME NEW k \in 1..size, NEW l \in 1..size, s[k] = s[l] PROVE k = l
  <2>1. (IF compressed /\ k = 1 THEN 0 ELSE k) = (IF compressed /\ l = 1 THEN 0 ELSE l)
    BY <1>6, <1>7
  <2> QED BY <2>1
<1> QED BY <1>1, <1>2, <1>4, <1>6, <1>7 DEF OwnCells

LEMMA BackOwn ==
  ASSUME NEW n \in Nat
  PROVE  OwnCells(Cells(-n, BackSize, FALSE), -n, BackSize)
<1>1. PICK z \in Int, size \in Nat : z = -n /\ size = BackSize
  BY TableAssumption
<1>2. PICK plain \in BOOLEAN : plain = FALSE
  OBVIOUS
<1>3. OwnCells(Cells(z, size, plain), z, size)
  BY CellsOwn
<1> QED BY <1>1, <1>2, <1>3

LEMMA FooterOwn == OwnCells(Footer, 0, FooterSize)
<1>1. PICK z \in Int, size \in Nat : z = 0 /\ size = FooterSize
  BY TableAssumption
<1>2. PICK plain \in BOOLEAN : plain = FALSE
  OBVIOUS
<1>3. OwnCells(Cells(z, size, plain), z, size)
  BY CellsOwn
<1> QED BY <1>1, <1>2, <1>3 DEF Footer

\* The two Appends of WriteRawBlock, and what is recorded of them.
LEMMA RawBlockFields ==
  ASSUME NEW t \in TableState, NEW kind \in Kinds, NEW size \in Nat,
         NEW compressed \in BOOLEAN, NEW holds \in SUBSET (Key \union Nat),
         NEW u \in WriteRawBlock(t, kind, size, compressed, holds)
  PROVE  OneMore(t, u, size, compressed)
<1> DEFINE cc == Cells(Len(t.placed) + 1, size, compressed)
           bb == Cells(-(Len(t.placed) + 1), BackSize, FALSE)
           p == [kind |-> kind, handle |-> [offset |-> t.offset, size |-> size],
                 holds |-> holds, cells |-> cc \o bb]
           Done(v) == [v EXCEPT !.placed = Append(@, p),
                                !.offset = IF v.ok THEN @ + size + BackSize ELSE @]
<1>1. u \in UNION {IF o.ok THEN {Done(With(t, q)) : q \in FileAppend(o.f, bb)}
                           ELSE {Done(With(t, o))} :
                   o \in FileAppend(t.file, cc)}
  BY DEF WriteRawBlock
<1>2. PICK cells, back : cells = cc /\ back = bb /\ p.handle.offset = t.offset /\ p.cells = cells \o back
  OBVIOUS
<1>11. /\ cells = Cells(Len(t.placed) + 1, size, compressed)
      /\ back = Cells(-(Len(t.placed) + 1), BackSize, FALSE)
  BY <1>2
<1> HIDE DEF p, Done, cc, bb
<1>3. PICK o : /\ u = Done(With(t, o))
               /\ TwoAppends(t.file, cells, back, o)
  <2>1. PICK x \in FileAppend(t.file, cc) :
          u \in IF x.ok THEN {Done(With(t, q)) : q \in FileAppend(x.f, bb)} ELSE {Done(With(t, x))}
    BY <1>1
  <2>2. CASE x.ok
    <3>1. PICK q \in FileAppend(x.f, bb) : u = Done(With(t, q))
      BY <2>1, <2>2
    <3> QED BY <1>2, <3>1 DEF TwoAppends
  <2>3. CASE ~x.ok
    <3>1. u = Done(With(t, x))
      BY <2>1, <2>3
    <3> QED BY <1>2, <2>3, <3>1 DEF TwoAppends
  <2> QED BY <2>2, <2>3
<1>4. PICK g, b : g = o.f /\ b = o.ok
  OBVIOUS
<1>5. t = [data |-> t.data, index |-> t.index, filter |-> t.filter, file |-> t.file,
           offset |-> t.offset, pending_index_entry |-> t.pending_index_entry, ok |-> t.ok,
           last_key |-> t.last_key, placed |-> t.placed]
  BY DEF TableState
<1>6. PICK v : v = With(t, o)
  OBVIOUS
<1>7. v = [data |-> t.data, index |-> t.index, filter |-> t.filter, file |-> g,
           offset |-> t.offset, pending_index_entry |-> t.pending_index_entry, ok |-> b,
           last_key |-> t.last_key, placed |-> t.placed]
  BY <1>4, <1>5, <1>6 DEF With
<1>8. PICK ps, off : ps = Append(t.placed, p) /\ off = IF b THEN t.offset + size + BackSize ELSE t.offset
  OBVIOUS
<1>9. u = [v EXCEPT !.placed = Append(@, p), !.offset = IF v.ok THEN @ + size + BackSize ELSE @]
  BY <1>3, <1>6 DEF Done
<1>10. u.placed = ps /\ u.offset = off /\ u.file = g
  BY <1>7, <1>8, <1>9
<1> QED BY <1>2, <1>3, <1>4, <1>8, <1>10, <1>11 DEF OneMore

\* Blocks that are sent, by the number of cells.
LEMMA SentNumbers ==
  ASSUME NEW t \in TableState, \A i \in 1..Len(t.placed) : Own(t.placed[i].cells, i), NEW c \in SentBy(t)
  PROVE  Len(t.placed) \in Nat /\ \E i \in 1..Len(t.placed) : c[1] \in {i, -i}
<1>1. t.placed \in Seq(Placement)
  BY DEF TableState
<1>2. PICK i \in 1..Len(t.placed) : c \in CellsOf(t.placed[i].cells)
  BY DEF SentBy
<1>3. PICK k \in 1..Len(t.placed[i].cells) : c = t.placed[i].cells[k]
  BY <1>2 DEF CellsOf
<1>4. t.placed[i].cells[k][1] \in {i, -i}
  BY <1>3 DEF Own
<1>5. Len(t.placed) \in Nat
  BY <1>1
<1> QED BY <1>3, <1>4, <1>5

LEMMA SentMore ==
  ASSUME NEW f, NEW m, Sent(f, m), NEW more, more \intersect m = {}
  PROVE  Sent(f, m \union more)
<1> SUFFICES ASSUME ~Broken(f)
             PROVE  /\ CellsOf(Held(f)) \subseteq m \union more
                    /\ f.lost => Spoiled(Held(f), m \union more)
  BY DEF Sent
<1>1. CellsOf(Held(f)) \subseteq m /\ (f.lost => Spoiled(Held(f), m))
  BY DEF Sent
<1>2. CASE Twice(Held(f))
  BY <1>1, <1>2 DEF Spoiled
<1>3. CASE ~Twice(Held(f))
  <2>1. ASSUME f.lost PROVE CellsOf(Held(f)) # m \union more
    <3>1. CellsOf(Held(f)) # m
      BY <1>1, <1>3, <2>1 DEF Spoiled
    <3> QED BY <1>1, <3>1
  <2> QED BY <1>1, <2>1 DEF Spoiled
<1> QED BY <1>2, <1>3

\* The two Appends send a block that is new to the file.
LEMMA BlockSends ==
  ASSUME NEW f, FileInv(f), NEW m, Sent(f, m), NEW cells \in Seq(Cell), NEW back \in Seq(Cell),
         Fresh(cells, m), Fresh(back, m \union CellsOf(cells)), NEW o,
         TwoAppends(f, cells, back, o)
  PROVE  Sends(f, m, cells \o back, o)
<1>1. CellsOf(cells \o back) = CellsOf(cells) \union CellsOf(back)
  BY CellsConcat
<1>2. PICK m2 : m2 = m \union CellsOf(cells)
  OBVIOUS
<1>3. m \union CellsOf(cells \o back) = m2 \union CellsOf(back)
  BY <1>1, <1>2
<1>4. Fresh(back, m2)
  BY <1>2
<1>5. CASE o \in FileAppend(f, cells) /\ ~o.ok
  <2>1. Sent(o.f, m2) /\ ~Good(o.f)
    BY <1>2, <1>5, AppendSends
  <2>2. CellsOf(back) \intersect m2 = {}
    BY <1>4 DEF Fresh
  <2>3. PICK more : more = CellsOf(back)
    OBVIOUS
  <2>4. Sent(o.f, m2 \union more)
    BY <2>1, <2>2, <2>3, SentMore
  <2> QED BY <1>3, <2>1, <2>3, <2>4 DEF Sends
<1>6. ASSUME NEW x \in FileAppend(f, cells), o \in FileAppend(x.f, back)
      PROVE  /\ Sent(o.f, m2 \union CellsOf(back))
             /\ Good(o.f) => Good(f) /\ o.ok /\ Held(o.f) = Held(f) \o (cells \o back)
  <2>1. Sent(x.f, m2) /\ (Good(x.f) => Good(f) /\ Held(x.f) = Held(f) \o cells)
    BY <1>2, AppendSends
  <2>2. FileInv(x.f)
    BY AppendType
  <2>3. PICK g : g = x.f
    OBVIOUS
  <2>4. FileInv(g) /\ Sent(g, m2) /\ o \in FileAppend(g, back)
    BY <1>6, <2>1, <2>2, <2>3
  <2>5. /\ Sent(o.f, m2 \union CellsOf(back))
        /\ Good(o.f) => Good(g) /\ o.ok /\ Held(o.f) = Held(g) \o back
    BY <1>4, <2>4, AppendSends
  <2>6. f \in FileState
    BY DEF FileInv
  <2>7. Held(f) \in Seq(Cell)
    BY <2>6, HeldType
  <2>8. (Held(f) \o cells) \o back = Held(f) \o (cells \o back)
    BY <2>7, ConcatThree
  <2> QED BY <2>1, <2>3, <2>5, <2>8
<1> QED BY <1>3, <1>5, <1>6 DEF TwoAppends, Sends

\* A block more, by WriteRawBlock: it covers what offset now counts more, and its cells
\* follow those before it.
LEMMA RawLaid ==
  ASSUME NEW t \in TableState, FileInv(t.file), NEW kind \in Kinds, NEW size \in Nat,
         NEW compressed \in BOOLEAN, NEW holds \in SUBSET (Key \union Nat),
         NEW u \in WriteRawBlock(t, kind, size, compressed, holds), LaidOpen(t)
  PROVE  LaidOpen(u)
<1>1. /\ t.placed \in Seq(Placement) /\ t.offset \in Nat /\ BackSize \in Nat
      /\ t.file \in FileState
  BY TableAssumption DEF TableState
<1>2. PICK len \in Nat : len = Len(t.placed)
  BY <1>1
<1>3. PICK n : n = len + 1
  OBVIOUS
<1>4. n \in Nat /\ n \in Int /\ -n \in Int /\ n > 0
  BY <1>2, <1>3
<1>5. PICK p, o, cells, back :
        /\ cells = Cells(Len(t.placed) + 1, size, compressed)
        /\ back = Cells(-(Len(t.placed) + 1), BackSize, FALSE)
        /\ u.placed = Append(t.placed, p) /\ p.handle.offset = t.offset /\ p.cells = cells \o back
        /\ u.file = o.f
        /\ u.offset = IF o.ok THEN t.offset + size + BackSize ELSE t.offset
        /\ TwoAppends(t.file, cells, back, o)
  <2>1. OneMore(t, u, size, compressed)
    BY RawBlockFields
  <2> QED BY <2>1 DEF OneMore
<1>6. /\ cells \in Seq(Cell) /\ Len(cells) = size /\ \A k \in 1..size : cells[k][1] = n
      /\ \A k, l \in 1..size : cells[k] = cells[l] => k = l
  <2>1. cells = Cells(n, size, compressed)
    BY <1>2, <1>3, <1>5
  <2>2. OwnCells(cells, n, size)
    BY <1>4, <2>1, CellsOwn
  <2> QED BY <2>2 DEF OwnCells
<1>7. /\ back \in Seq(Cell) /\ Len(back) = BackSize /\ \A k \in 1..BackSize : back[k][1] = -n
      /\ \A k, l \in 1..BackSize : back[k] = back[l] => k = l
  <2>1. back = Cells(-n, BackSize, FALSE)
    BY <1>2, <1>3, <1>5
  <2>2. OwnCells(back, -n, BackSize)
    BY <1>4, <2>1, BackOwn
  <2> QED BY <2>2 DEF OwnCells
<1>9. PICK all : all = cells \o back
  OBVIOUS
<1>10. /\ all \in Seq(Cell) /\ Len(all) = size + BackSize
       /\ \A k \in 1..size : all[k] = cells[k]
       /\ \A k \in 1..BackSize : all[size + k] = back[k]
  <2>1. /\ all \in Seq(Cell) /\ Len(all) = Len(cells) + Len(back)
        /\ \A k \in 1..Len(cells) : all[k] = cells[k]
        /\ \A k \in 1..Len(back) : all[Len(cells) + k] = back[k]
    <3>1. cells \in Seq(Cell) /\ back \in Seq(Cell)
      BY <1>6, <1>7
    <3> QED BY <1>9, <3>1, ConcatAt
  <2> QED BY <1>6, <1>7, <2>1
<1>11. Own(all, n)
  <2>1. ASSUME NEW k \in 1..(size + BackSize)
        PROVE  \/ k \in 1..size /\ all[k] = cells[k] /\ all[k][1] = n
               \/ k - size \in 1..BackSize /\ all[k] = back[k - size] /\ all[k][1] = -n
    <3>1. CASE k <= size
      <4>1. k \in 1..size
        BY <3>1
      <4> QED BY <1>6, <1>10, <4>1
    <3>2. CASE ~(k <= size)
      <4>1. PICK l \in 1..BackSize : k = size + l /\ k - size = l
        <5>1. k - size \in 1..BackSize /\ k = size + (k - size)
          BY <1>1, <3>2
        <5> QED BY <5>1
      <4>2. all[k] = back[l]
        BY <1>10, <4>1
      <4> QED BY <1>7, <4>1, <4>2
    <3> QED BY <3>1, <3>2
  <2>2. ASSUME NEW k \in 1..(size + BackSize), NEW l \in 1..(size + BackSize), all[k] = all[l]
        PROVE  k = l
    <3>1. n # -n
      BY <1>4
    <3>2. CASE k \in 1..size /\ all[k] = cells[k] /\ all[k][1] = n
      <4>1. l \in 1..size /\ all[l] = cells[l]
        BY <2>1, <2>2, <3>1, <3>2
      <4> QED BY <1>6, <2>2, <3>2, <4>1
    <3>3. CASE k - size \in 1..BackSize /\ all[k] = back[k - size] /\ all[k][1] = -n
      <4>1. l - size \in 1..BackSize /\ all[l] = back[l - size]
        BY <2>1, <2>2, <3>1, <3>3
      <4>2. k - size = l - size
        BY <1>7, <2>2, <3>3, <4>1
      <4> QED BY <1>1, <4>2
    <3> QED BY <2>1, <3>2, <3>3
  <2> QED BY <1>10, <2>1, <2>2 DEF Own
<1>12. Laid(t, t.offset) /\ Sent(t.file, SentBy(t)) /\ (Good(t.file) => Len(Held(t.file)) = t.offset)
  BY DEF LaidOpen
<1>13. \A i \in 1..Len(t.placed) : Own(t.placed[i].cells, i)
  BY <1>12 DEF Laid
<1>14. \A c \in SentBy(t) : c[1] # n /\ c[1] # -n
  <2> SUFFICES ASSUME NEW c \in SentBy(t) PROVE c[1] # n /\ c[1] # -n
    OBVIOUS
  <2>1. PICK i \in 1..Len(t.placed) : c[1] \in {i, -i}
    BY <1>13, SentNumbers
  <2>2. i \in 1..len
    BY <1>2, <2>1
  <2> QED BY <1>3, <2>1, <2>2
<1>15. Fresh(cells, SentBy(t))
  BY <1>6, <1>14 DEF Fresh, CellsOf
<1>16. Fresh(back, SentBy(t) \union CellsOf(cells))
  <2>1. \A k \in 1..BackSize : back[k] \notin SentBy(t)
    BY <1>7, <1>14
  <2>2. n # -n
    BY <1>4
  <2>3. \A k \in 1..BackSize : back[k] \notin CellsOf(cells)
    BY <1>6, <1>7, <2>2 DEF CellsOf
  <2> QED BY <1>7, <2>1, <2>3 DEF Fresh, CellsOf
<1>17. /\ Sent(o.f, SentBy(t) \union CellsOf(all))
       /\ Good(o.f) => Good(t.file) /\ o.ok /\ Held(o.f) = Held(t.file) \o all
  <2>1. PICK f, m : f = t.file /\ m = SentBy(t)
    OBVIOUS
  <2>2. /\ FileInv(f) /\ Sent(f, m) /\ cells \in Seq(Cell) /\ back \in Seq(Cell)
        /\ Fresh(cells, m) /\ Fresh(back, m \union CellsOf(cells))
        /\ TwoAppends(f, cells, back, o)
    BY <1>5, <1>6, <1>7, <1>12, <1>15, <1>16, <2>1
  <2>3. Sends(f, m, cells \o back, o)
    BY <2>2, BlockSends
  <2> QED BY <1>9, <2>1, <2>3 DEF Sends
<1>18. /\ Len(u.placed) = n /\ u.placed[n] = p
       /\ \A i \in 1..len : u.placed[i] = t.placed[i]
  BY <1>1, <1>2, <1>3, <1>5
<1>19. \A i \in 1..n : i = n \/ i \in 1..len
  BY <1>2, <1>3
<1>20. n \in 1..n /\ \A i \in 1..len : i \in 1..n
  BY <1>2, <1>3
<1>21. SentBy(u) = SentBy(t) \union CellsOf(all)
  <2>1. ASSUME NEW c \in SentBy(u) PROVE c \in SentBy(t) \union CellsOf(all)
    <3>1. PICK i \in 1..n : c \in CellsOf(u.placed[i].cells)
      BY <1>18 DEF SentBy
    <3>2. CASE i = n
      BY <1>5, <1>9, <1>18, <3>1, <3>2
    <3>3. CASE i \in 1..len
      BY <1>2, <1>18, <3>1, <3>3 DEF SentBy
    <3> QED BY <1>19, <3>2, <3>3
  <2>2. ASSUME NEW c \in SentBy(t) PROVE c \in SentBy(u)
    <3>1. PICK i \in 1..len : c \in CellsOf(t.placed[i].cells)
      BY <1>2 DEF SentBy
    <3> QED BY <1>18, <1>20, <3>1 DEF SentBy
  <2>3. ASSUME NEW c \in CellsOf(all) PROVE c \in SentBy(u)
    <3>1. c \in CellsOf(u.placed[n].cells)
      BY <1>5, <1>9, <1>18
    <3> QED BY <1>18, <1>20, <3>1 DEF SentBy
  <2> QED BY <2>1, <2>2, <2>3
<1>22. /\ u.offset \in Nat /\ (u.offset = t.offset \/ u.offset = t.offset + (size + BackSize))
       /\ (o.ok => u.offset = t.offset + (size + BackSize))
  BY <1>1, <1>5
<1>23. Begin(p) = t.offset /\ End(p) = t.offset + (size + BackSize)
  BY <1>5, <1>9, <1>10 DEF Begin, End
<1>24. \A k \in 1..u.offset : \E i \in 1..n : Begin(u.placed[i]) < k /\ k <= End(u.placed[i])
  <2> SUFFICES ASSUME NEW k \in 1..u.offset
               PROVE  \E i \in 1..n : Begin(u.placed[i]) < k /\ k <= End(u.placed[i])
    OBVIOUS
  <2>1. CASE k <= t.offset
    <3>1. k \in 1..t.offset
      BY <1>1, <2>1
    <3>2. PICK i \in 1..Len(t.placed) : Begin(t.placed[i]) < k /\ k <= End(t.placed[i])
      BY <1>12, <3>1 DEF Laid
    <3> QED BY <1>2, <1>18, <1>20, <3>2
  <2>2. CASE ~(k <= t.offset)
    <3>1. t.offset < k /\ k <= t.offset + (size + BackSize)
      BY <1>1, <1>22, <2>2
    <3> QED BY <1>18, <1>20, <1>23, <3>1
  <2> QED BY <2>1, <2>2
<1>25. ASSUME Good(o.f)
       PROVE  /\ Len(Held(o.f)) = u.offset
              /\ \A i \in 1..n :
                   /\ End(u.placed[i]) <= u.offset
                   /\ \A k \in 1..Len(u.placed[i].cells) :
                        Held(o.f)[Begin(u.placed[i]) + k] = u.placed[i].cells[k]
  <2>1. /\ Good(t.file) /\ Held(o.f) = Held(t.file) \o all /\ Len(Held(t.file)) = t.offset
        /\ u.offset = t.offset + (size + BackSize)
    BY <1>12, <1>17, <1>22, <1>25
  <2>2. Held(t.file) \in Seq(Cell)
    BY <1>1, HeldType
  <2>3. PICK h, g : h = Held(t.file) /\ g = Held(o.f)
    OBVIOUS
  <2>4. /\ Len(g) = t.offset + (size + BackSize) /\ \A k \in 1..t.offset : g[k] = h[k]
        /\ \A k \in 1..(size + BackSize) : g[t.offset + k] = all[k]
    <3>1. /\ Len(g) = Len(h) + Len(all) /\ \A k \in 1..Len(h) : g[k] = h[k]
          /\ \A k \in 1..Len(all) : g[Len(h) + k] = all[k]
      BY <1>10, <2>1, <2>2, <2>3, ConcatAt
    <3> QED BY <1>10, <2>1, <2>3, <3>1
  <2>5. ASSUME NEW i \in 1..len
        PROVE  /\ End(u.placed[i]) <= u.offset
               /\ \A k \in 1..Len(u.placed[i].cells) :
                    g[Begin(u.placed[i]) + k] = u.placed[i].cells[k]
    <3>1. PICK q \in Placement : q = t.placed[i]
      BY <1>1, <1>2
    <3>2. q.handle.offset \in Nat /\ q.cells \in Seq(Cell) /\ Len(q.cells) \in Nat
      <4>1. q.handle.offset \in Nat /\ q.cells \in Seq(Cell)
        BY <3>1 DEF Placement
      <4> QED BY <4>1
    <3>3. /\ End(q) <= t.offset
          /\ \A k \in 1..Len(q.cells) : h[Begin(q) + k] = q.cells[k]
      BY <1>2, <1>12, <2>1, <2>3, <3>1 DEF Laid
    <3>4. u.placed[i] = q
      BY <1>18, <3>1
    <3>7. PICK from \in Nat, wide \in Nat : /\ from = q.handle.offset /\ wide = Len(q.cells)
                                           /\ from = Begin(q) /\ from + wide = End(q)
      BY <3>2 DEF Begin, End
    <3>5. End(q) <= u.offset
      BY <1>1, <2>1, <3>3, <3>7
    <3>6. ASSUME NEW k \in 1..Len(q.cells) PROVE g[Begin(q) + k] = q.cells[k]
      <4>1. Begin(q) + k \in 1..t.offset
        BY <1>1, <3>3, <3>7
      <4> QED BY <2>4, <3>3, <4>1
    <3> QED BY <3>4, <3>5, <3>6
  <2>6. /\ End(u.placed[n]) <= u.offset
        /\ \A k \in 1..Len(u.placed[n].cells) :
             g[Begin(u.placed[n]) + k] = u.placed[n].cells[k]
    <3>1. p.cells = all /\ Len(p.cells) = size + BackSize
      BY <1>5, <1>9, <1>10
    <3>2. End(p) <= u.offset
      BY <1>1, <1>22, <1>23, <2>1
    <3>3. \A k \in 1..Len(p.cells) : g[Begin(p) + k] = p.cells[k]
      BY <1>23, <2>4, <3>1
    <3> QED BY <1>18, <3>2, <3>3
  <2> QED BY <1>19, <2>1, <2>3, <2>4, <2>5, <2>6
<1>26. \A i \in 1..n : Own(u.placed[i].cells, i)
  BY <1>2, <1>5, <1>9, <1>11, <1>13, <1>18, <1>19
<1>27. Laid(u, u.offset)
  BY <1>5, <1>18, <1>24, <1>25, <1>26 DEF Laid
<1> QED BY <1>5, <1>17, <1>21, <1>25, <1>27 DEF LaidOpen

\* Only file, offset and placed matter.
LEMMA LaidSame ==
  ASSUME NEW t, NEW u, u.file = t.file, u.offset = t.offset, u.placed = t.placed, LaidOpen(t)
  PROVE  LaidOpen(u)
<1>1. SentBy(u) = SentBy(t)
  BY DEF SentBy
<1>2. Laid(u, u.offset)
  BY DEF Laid, LaidOpen
<1> QED BY <1>1, <1>2 DEF LaidOpen

\* Flush, Sync and Close leave a table as it is laid out, or spoil it.
LEMMA LaidFlush ==
  ASSUME NEW t, NEW u, FileInv(t.file), NEW o \in FileFlush(t.file), u.file = o.f,
         u.offset = t.offset, u.placed = t.placed
  PROVE  (LaidOpen(t) => LaidOpen(u)) /\ (LaidClosed(t) => LaidClosed(u))
<1>1. SentBy(u) = SentBy(t)
  BY DEF SentBy
<1>2. ASSUME NEW m, Sent(t.file, m), NEW end, Laid(t, end)
      PROVE  Sent(u.file, m) /\ Laid(u, end) /\ (Good(u.file) => Good(t.file) /\ Held(u.file) = Held(t.file))
  <2>1. Sent(o.f, m) /\ (Good(o.f) => Good(t.file) /\ Held(o.f) = Held(t.file))
    BY <1>2, FlushSends
  <2>2. Laid(u, end)
    BY <1>2, <2>1 DEF Laid
  <2> QED BY <2>1, <2>2
<1>3. ASSUME LaidOpen(t) PROVE LaidOpen(u)
  <2>1. Sent(t.file, SentBy(t)) /\ Laid(t, t.offset) /\ (Good(t.file) => Len(Held(t.file)) = t.offset)
    BY <1>3 DEF LaidOpen
  <2>2. Sent(u.file, SentBy(t)) /\ Laid(u, t.offset) /\ (Good(u.file) => Good(t.file) /\ Held(u.file) = Held(t.file))
    BY <1>2, <2>1
  <2> QED BY <1>1, <2>1, <2>2 DEF LaidOpen
<1>4. ASSUME LaidClosed(t) PROVE LaidClosed(u)
  <2>1. PICK m, end : m = SentBy(t) \union CellsOf(Footer) /\ end = t.offset - FooterSize
    OBVIOUS
  <2>2. Sent(t.file, m) /\ Laid(t, end)
    BY <1>4, <2>1 DEF LaidClosed
  <2>3. Sent(u.file, m) /\ Laid(u, end) /\ (Good(u.file) => Good(t.file) /\ Held(u.file) = Held(t.file))
    BY <1>2, <2>2
  <2> QED BY <1>1, <1>4, <2>1, <2>3 DEF LaidClosed
<1> QED BY <1>3, <1>4

\* Tablebuilder::Flush.
LEMMA FlushLaid ==
  ASSUME CompressedLengths, NEW t, Building(t), LaidOpen(t), NEW u \in FlushBlock(t)
  PROVE  LaidOpen(u)
<1>1. CASE t.data.entries = <<>>
  BY <1>1 DEF FlushBlock
<1>2. CASE t.data.entries # <<>>
  <2>1. PICK v \in WriteBlock(t, "data", t.data, KeysIn(t.data)) : \E o \in FileFlush(v.file) :
          u = [With(v, o) EXCEPT !.ok = v.ok, !.data = EmptyBlock, !.pending_index_entry = FALSE,
                                 !.filter = StartBlock(@, v.offset)]
    BY <1>2 DEF FlushBlock
  <2>2. PICK o \in FileFlush(v.file) :
          u = [With(v, o) EXCEPT !.ok = v.ok, !.data = EmptyBlock, !.pending_index_entry = FALSE,
                                 !.filter = StartBlock(@, v.offset)]
    BY <2>1
  <2>3. t \in TableState /\ FileInv(t.file) /\ BlockInv(t.data)
    BY DEF Building, Written
  <2>4. /\ "data" \in Kinds /\ TRUE \in BOOLEAN /\ KeysIn(t.data) \in SUBSET (Key \union Nat)
        /\ Compressed(CurrentSizeEstimate(t.data)) \in Nat
    <3>1. CurrentSizeEstimate(t.data) \in Nat
      BY <2>3, SizeEstimate DEF BlockInv
    <3>2. KeysIn(t.data) \subseteq Key
      BY <2>3, KeysAreKeys
    <3> QED BY <3>1, <3>2 DEF CompressedLengths, Kinds
  <2>5. PICK size \in Nat, held \in SUBSET (Key \union Nat), kind \in Kinds, packed \in BOOLEAN :
          v \in WriteRawBlock(t, kind, size, packed, held)
    BY <2>1, <2>4 DEF WriteBlock
  <2>6. v \in TableState /\ FileInv(v.file) /\ LaidOpen(v)
    <3>1. t \in TableState /\ FileInv(t.file) /\ v \in WriteRawBlock(t, kind, size, packed, held)
      BY <2>3, <2>5
    <3> QED BY <3>1, RawBlock, RawLaid
  <2>7. PICK g, b, e, fc : g = o.f /\ b = o.ok /\ e = EmptyBlock /\ fc = StartBlock(v.filter, v.offset)
    OBVIOUS
  <2>8. u.file = g /\ u.offset = v.offset /\ u.placed = v.placed
    <3>1. v = [data |-> v.data, index |-> v.index, filter |-> v.filter, file |-> v.file,
               offset |-> v.offset, pending_index_entry |-> v.pending_index_entry, ok |-> v.ok,
               last_key |-> v.last_key, placed |-> v.placed]
      BY <2>6 DEF TableState
    <3>2. PICK w : w = With(v, o)
      OBVIOUS
    <3>3. w = [data |-> v.data, index |-> v.index, filter |-> v.filter, file |-> g,
               offset |-> v.offset, pending_index_entry |-> v.pending_index_entry, ok |-> b,
               last_key |-> v.last_key, placed |-> v.placed]
      BY <2>7, <3>1, <3>2 DEF With
    <3>4. u = [w EXCEPT !.ok = v.ok, !.data = e, !.pending_index_entry = FALSE,
                        !.filter = StartBlock(@, v.offset)]
      BY <2>2, <2>7, <3>2
    <3> QED BY <3>3, <3>4
  <2> QED BY <2>6, <2>7, <2>8, LaidFlush
<1> QED BY <1>1, <1>2

LEMMA AddLaid ==
  ASSUME CompressedLengths, NEW t, Building(t), LaidOpen(t), NEW key \in Key \intersect DOMAIN Hash,
         NEW vlen \in Nat, NEW u \in AddEntry(t, key, vlen)
  PROVE  LaidOpen(u)
<1>1. PICK v : /\ AddEntry(t, key, vlen) =
                    IF CurrentSizeEstimate(v.data) >= DataBlockSize THEN FlushBlock(v) ELSE {v}
               /\ Building(v) /\ v.file = t.file /\ v.offset = t.offset /\ v.placed = t.placed
  BY EntryAdded
<1>2. u = v \/ u \in FlushBlock(v)
  BY <1>1
<1>3. LaidOpen(v)
  BY <1>1, LaidSame
<1> QED BY <1>1, <1>2, <1>3, FlushLaid

\* The blocks that Finish writes behind the data.
LEMMA FinishFilterLaid ==
  ASSUME NEW t, Written(t), LaidOpen(t), NEW u \in FinishFilter(t) PROVE LaidOpen(u)
<1>1. t \in TableState /\ FileInv(t.file) /\ t.filter \in FilterState
  BY DEF Written, TableState
<1>2. PICK fc : fc = FilterFinish(t.filter)
  OBVIOUS
<1>3. fc \in FilterState
  BY <1>1, <1>2, FinishKeeps
<1>4. PICK v : v = [t EXCEPT !.filter = fc]
  OBVIOUS
<1>5. /\ v \in TableState /\ v.file = t.file /\ v.filter = fc /\ v.placed = t.placed
      /\ v.offset = t.offset
  BY <1>1, <1>3, <1>4 DEF TableState
<1>6. LaidOpen(v)
  BY <1>5, LaidSame
<1>7. PICK size \in Nat : size = FilterSize(fc)
  <2>1. fc.size \in Nat /\ fc.offsets \in Seq(Nat)
    BY <1>3 DEF FilterState
  <2>2. Len(fc.offsets) \in Nat
    BY <2>1
  <2> QED BY <2>1, <2>2 DEF FilterSize
<1>8. u \in (IF t.ok THEN WriteRawBlock(v, "filter", FilterSize(v.filter), FALSE, {}) ELSE {t})
  BY <1>2, <1>4 DEF FinishFilter
<1>9. CASE ~t.ok
  BY <1>8, <1>9
<1>10. CASE t.ok
  <2>1. PICK kind \in Kinds, plain \in BOOLEAN, held \in SUBSET (Key \union Nat) :
          kind = "filter" /\ plain = FALSE /\ held = {}
    BY DEF Kinds
  <2>2. u \in WriteRawBlock(v, kind, size, plain, held) /\ FileInv(v.file)
    BY <1>1, <1>5, <1>7, <1>8, <1>10, <2>1
  <2> QED BY <1>5, <1>6, <2>2, RawLaid
<1> QED BY <1>9, <1>10

LEMMA FinishMetaLaid ==
  ASSUME CompressedLengths, NEW t, Written(t), LaidOpen(t), NEW u \in FinishMeta(t) PROVE LaidOpen(u)
<1>1. t \in TableState /\ FileInv(t.file)
  BY DEF Written
<1>2. PICK n \in Nat : n = Len(t.placed)
  <2>1. t.placed \in Seq(Placement)
    BY <1>1 DEF TableState
  <2> QED BY <2>1
<1>3. PICK meta : meta = BlockAdd(EmptyBlock, <<0, 0>>, n, 2)
  OBVIOUS
<1>4. PICK size \in Nat : size = Compressed(CurrentSizeEstimate(meta))
  <2>1. <<0, 0>> \in Key
    BY DEF Key
  <2>2. BlockInv(meta)
    BY <1>3, <2>1, EmptyBlockInv, BlockAddSpells
  <2> QED BY <2>2, SizeEstimate DEF BlockInv, CompressedLengths
<1>5. u \in (IF t.ok THEN WriteRawBlock(t, "metaindex", size, TRUE, {n}) ELSE {t})
  BY <1>2, <1>3, <1>4 DEF FinishMeta, WriteBlock
<1>6. CASE ~t.ok
  BY <1>5, <1>6
<1>7. CASE t.ok
  <2>1. PICK kind \in Kinds, packed \in BOOLEAN, held \in SUBSET (Key \union Nat) :
          kind = "metaindex" /\ packed = TRUE /\ held = {n}
    BY DEF Kinds
  <2>2. u \in WriteRawBlock(t, kind, size, packed, held)
    BY <1>5, <1>7, <2>1
  <2> QED BY <1>1, <2>2, RawLaid
<1> QED BY <1>6, <1>7

LEMMA FinishIndexLaid ==
  ASSUME CompressedLengths, NEW t, Written(t), LaidOpen(t), NEW u \in FinishIndex(t) PROVE LaidOpen(u)
<1>1. t \in TableState /\ FileInv(t.file) /\ ~t.pending_index_entry /\ t.index = EmptyBlock
  BY DEF Written, TableState
<1>2. IndexPending(t, t.last_key) = t
  BY <1>1 DEF IndexPending
<1>3. EmptyBlock.entries = <<>> /\ EmptyBlock \in BlockState
  BY EmptyBlockInv DEF BlockInv, EmptyBlock
<1>4. {t.index.entries[i].val : i \in 1..Len(t.index.entries)} = {}
  <2>1. Len(t.index.entries) = 0
    BY <1>1, <1>3
  <2> QED BY <2>1
<1>5. PICK size \in Nat : size = Compressed(CurrentSizeEstimate(EmptyBlock))
  BY <1>3, SizeEstimate DEF CompressedLengths
<1>6. u \in (IF t.ok THEN WriteRawBlock(t, "index", size, TRUE, {}) ELSE {t})
  BY <1>1, <1>2, <1>4, <1>5 DEF FinishIndex, WriteBlock
<1>7. CASE ~t.ok
  BY <1>6, <1>7
<1>8. CASE t.ok
  <2>1. PICK kind \in Kinds, packed \in BOOLEAN, held \in SUBSET (Key \union Nat) :
          kind = "index" /\ packed = TRUE /\ held = {}
    BY DEF Kinds
  <2>2. u \in WriteRawBlock(t, kind, size, packed, held)
    BY <1>6, <1>8, <2>1
  <2> QED BY <1>1, <2>2, RawLaid
<1> QED BY <1>7, <1>8

\* The footer follows the blocks, and offset counts it if Append took it.
LEMMA FinishFooterLaid ==
  ASSUME NEW t, Written(t), LaidOpen(t), NEW u \in FinishFooter(t), u.ok
  PROVE  LaidClosed(u)
<1>1. t \in TableState /\ FileInv(t.file) /\ t.offset \in Nat /\ t.file \in FileState
  BY DEF Written, TableState
<1>2. PICK size \in Nat : size = FooterSize
  BY TableAssumption
<1>3. PICK cells : cells = Footer
  OBVIOUS
<1>4. /\ cells \in Seq(Cell) /\ Len(cells) = size /\ \A k \in 1..size : cells[k][1] = 0
      /\ \A k, l \in 1..size : cells[k] = cells[l] => k = l
  BY <1>2, <1>3, FooterOwn DEF OwnCells
<1>5. t.ok
  <2>1. CASE ~t.ok
    <3>1. u = t
      BY <2>1 DEF FinishFooter
    <3> QED BY <2>1, <3>1
  <2> QED BY <2>1
<1>6. PICK o \in FileAppend(t.file, cells) :
        u = [With(t, o) EXCEPT !.offset = IF o.ok THEN @ + FooterSize ELSE @]
  BY <1>3, <1>5 DEF FinishFooter, Footer
<1>7. PICK g, b : g = o.f /\ b = o.ok
  OBVIOUS
<1>8. u.file = g /\ u.ok = b /\ u.placed = t.placed /\ u.offset = IF b THEN t.offset + FooterSize ELSE t.offset
  <2>1. t = [data |-> t.data, index |-> t.index, filter |-> t.filter, file |-> t.file,
             offset |-> t.offset, pending_index_entry |-> t.pending_index_entry, ok |-> t.ok,
             last_key |-> t.last_key, placed |-> t.placed]
    BY <1>1 DEF TableState
  <2>2. PICK w : w = With(t, o)
    OBVIOUS
  <2>3. w = [data |-> t.data, index |-> t.index, filter |-> t.filter, file |-> g,
             offset |-> t.offset, pending_index_entry |-> t.pending_index_entry, ok |-> b,
             last_key |-> t.last_key, placed |-> t.placed]
    BY <1>7, <2>1, <2>2 DEF With
  <2>4. u = [w EXCEPT !.offset = IF b THEN @ + FooterSize ELSE @]
    BY <1>6, <1>7, <2>2
  <2> QED BY <2>3, <2>4
<1>9. u.offset = t.offset + size
  BY <1>2, <1>8
<1>10. Laid(t, t.offset) /\ Sent(t.file, SentBy(t)) /\ (Good(t.file) => Len(Held(t.file)) = t.offset)
  BY DEF LaidOpen
<1>11. \A i \in 1..Len(t.placed) : Own(t.placed[i].cells, i)
  BY <1>10 DEF Laid
<1>12. \A c \in SentBy(t) : c[1] # 0
  <2> SUFFICES ASSUME NEW c \in SentBy(t) PROVE c[1] # 0
    OBVIOUS
  <2>1. Len(t.placed) \in Nat /\ \E i \in 1..Len(t.placed) : c[1] \in {i, -i}
    BY <1>1, <1>11, SentNumbers
  <2> QED BY <2>1
<1>13. Fresh(cells, SentBy(t))
  BY <1>4, <1>12 DEF Fresh, CellsOf
<1>14. /\ Sent(g, SentBy(t) \union CellsOf(cells))
       /\ Good(g) => Good(t.file) /\ Held(g) = Held(t.file) \o cells
  <2>1. PICK f, m : f = t.file /\ m = SentBy(t)
    OBVIOUS
  <2>2. FileInv(f) /\ Sent(f, m) /\ cells \in Seq(Cell) /\ Fresh(cells, m) /\ o \in FileAppend(f, cells)
    BY <1>1, <1>4, <1>6, <1>10, <1>13, <2>1
  <2>3. /\ Sent(o.f, m \union CellsOf(cells))
        /\ Good(o.f) => Good(f) /\ o.ok /\ Held(o.f) = Held(f) \o cells
    BY <2>2, AppendSends
  <2> QED BY <1>7, <2>1, <2>3
<1>15. SentBy(u) = SentBy(t)
  BY <1>8 DEF SentBy
<1>16. ASSUME Good(g)
       PROVE  /\ Len(Held(g)) = t.offset + size
              /\ \A k \in 1..t.offset : Held(g)[k] = Held(t.file)[k]
              /\ \A k \in 1..size : Held(g)[t.offset + k] = cells[k]
  <2>1. PICK h, y : h = Held(t.file) /\ y = Held(g)
    OBVIOUS
  <2>2. h \in Seq(Cell) /\ Len(h) = t.offset /\ y = h \o cells
    BY <1>1, <1>10, <1>14, <1>16, <2>1, HeldType
  <2>3. /\ Len(y) = Len(h) + Len(cells)
        /\ \A k \in 1..Len(h) : y[k] = h[k]
        /\ \A k \in 1..Len(cells) : y[Len(h) + k] = cells[k]
    <3>1. cells \in Seq(Cell)
      BY <1>4
    <3>2. h \in Seq(Cell) /\ y = h \o cells
      BY <2>2
    <3> QED BY <3>1, <3>2, ConcatAt
  <2> QED BY <1>4, <2>1, <2>2, <2>3
<1>17. Laid(u, t.offset)
  <2>1. ASSUME Good(u.file), NEW i \in 1..Len(u.placed)
        PROVE  /\ End(u.placed[i]) <= t.offset
               /\ \A k \in 1..Len(u.placed[i].cells) :
                    Held(u.file)[Begin(u.placed[i]) + k] = u.placed[i].cells[k]
    <3>1. t.placed \in Seq(Placement)
      BY <1>1 DEF TableState
    <3>2. PICK q \in Placement : q = t.placed[i] /\ q = u.placed[i]
      BY <1>8, <2>1, <3>1
    <3>3. q.handle.offset \in Nat /\ q.cells \in Seq(Cell) /\ Len(q.cells) \in Nat
      <4>1. q.handle.offset \in Nat /\ q.cells \in Seq(Cell)
        BY <3>2 DEF Placement
      <4> QED BY <4>1
    <3>4. Good(t.file) /\ Good(g)
      BY <1>8, <1>14, <2>1
    <3>5. /\ End(q) <= t.offset
          /\ \A k \in 1..Len(q.cells) : Held(t.file)[Begin(q) + k] = q.cells[k]
      BY <1>8, <1>10, <2>1, <3>2, <3>4 DEF Laid
    <3>6. ASSUME NEW k \in 1..Len(q.cells) PROVE Held(g)[Begin(q) + k] = q.cells[k]
      <4>1. Begin(q) + k \in 1..t.offset
        BY <1>1, <3>3, <3>5 DEF Begin, End
      <4> QED BY <1>16, <3>4, <3>5, <4>1
    <3> QED BY <1>8, <3>2, <3>5, <3>6
  <2>2. /\ \A i \in 1..Len(u.placed) : Own(u.placed[i].cells, i)
        /\ \A k \in 1..t.offset :
             \E i \in 1..Len(u.placed) : Begin(u.placed[i]) < k /\ k <= End(u.placed[i])
    BY <1>8, <1>10 DEF Laid
  <2> QED BY <2>1, <2>2 DEF Laid
<1>18. u.offset - FooterSize = t.offset /\ u.offset >= FooterSize
  BY <1>1, <1>2, <1>9
<1> QED BY <1>2, <1>3, <1>8, <1>9, <1>14, <1>15, <1>16, <1>17, <1>18 DEF LaidClosed
-----------------------------------------------------------------------------
(***************************************************************************)
(* A built table is whole                                                  *)
(***************************************************************************)

LEMMA LayoutInit == Init => LayoutInv
<1> SUFFICES ASSUME Init PROVE LayoutInv
  OBVIOUS
<1>1. tb = NewTable /\ pc = "add"
  BY DEF Init
<1>2. PICK f : f = NewFile
  OBVIOUS
<1>3. f.disk = <<>> /\ f.buf = <<>> /\ f.lost = FALSE
  BY <1>2 DEF NewFile
<1>4. Held(f) = <<>> /\ CellsOf(Held(f)) = {} /\ Len(Held(f)) = 0
  <2>1. <<>> \in Seq(Cell) /\ Len(<<>>) = 0
    BY EmptySeq
  <2>2. Held(f) = <<>>
    BY <1>3, <2>1, ConcatEmptySeq DEF Held
  <2> QED BY <2>1, <2>2 DEF CellsOf
<1>5. tb.file = f /\ tb.offset = 0 /\ tb.placed = <<>> /\ Len(tb.placed) = 0
  BY <1>1, <1>2 DEF NewTable
<1>6. Laid(tb, 0)
  BY <1>5 DEF Laid
<1>7. Sent(f, SentBy(tb))
  BY <1>3, <1>4 DEF Sent
<1>8. LaidOpen(tb)
  BY <1>4, <1>5, <1>6, <1>7 DEF LaidOpen
<1> QED BY <1>1, <1>8 DEF LayoutInv

\* Sync and Close: what they do to the file is what Flush does.
LEMMA SyncLaid ==
  ASSUME NEW t, Written(t), LaidClosed(t), NEW o \in FileSync(t.file) \union FileClose(t.file),
         NEW u, u = With(t, o)
  PROVE  LaidClosed(u) /\ (o.ok /\ ~Broken(u.file) => u.file.buf = <<>>)
<1>1. t \in TableState /\ FileInv(t.file)
  BY DEF Written
<1>2. PICK p \in FileFlush(t.file) : o = p \/ o = [p EXCEPT !.ok = FALSE]
  BY DEF FileSync, FileClose
<1>3. p = [f |-> p.f, ok |-> p.ok] /\ p.ok \in BOOLEAN
  BY <1>1, FlushType
<1>4. o.f = p.f /\ (o.ok => p.ok)
  BY <1>2, <1>3
<1>5. PICK g, b : g = o.f /\ b = o.ok
  OBVIOUS
<1>6. u.file = g /\ u.offset = t.offset /\ u.placed = t.placed
  <2>1. u = [t EXCEPT !.file = g, !.ok = b]
    BY <1>5 DEF With
  <2> QED BY <1>1, <2>1 DEF TableState
<1>7. LaidClosed(u)
  BY <1>1, <1>4, <1>5, <1>6, LaidFlush
<1>8. PICK m : Sent(t.file, m)
  BY DEF LaidClosed
<1>9. ~Broken(p.f) => (p.ok => p.f.buf = <<>>)
  BY <1>1, <1>8, FlushSends
<1> QED BY <1>4, <1>5, <1>6, <1>7, <1>9

LEMMA LayoutStep ==
  ASSUME CompressedLengths
  PROVE  TableInv /\ LayoutInv /\ [Next]_vars => LayoutInv'
<1> SUFFICES ASSUME TableInv, LayoutInv, [Next]_vars PROVE LayoutInv'
  OBVIOUS
<1>1. Written(tb) /\ (pc = "add" => Building(tb)) /\ used \in 0..Len(TableKeys)
  BY DEF TableInv
<1>2. TableKeys \in Seq(Seq(Nat)) /\ Len(TableKeys) \in Nat
  BY TableAssumption
<1>3. /\ pc = "add" => LaidOpen(tb)
      /\ pc \in {"sync", "close", "built"} => LaidClosed(tb)
      /\ pc = "built" /\ ~Broken(tb.file) => tb.file.buf = <<>>
  BY DEF LayoutInv
<1>4. ASSUME NEW v \in ValueLengths, Add(v) PROVE LayoutInv'
  <2>1. /\ pc = "add" /\ used < Len(TableKeys) /\ pc' = pc
        /\ tb' \in AddEntry(tb, TableKeys[used + 1], v)
    BY <1>4 DEF Add
  <2>2. PICK key \in Key \intersect DOMAIN Hash : key = TableKeys[used + 1]
    <3>1. used + 1 \in 1..Len(TableKeys)
      BY <1>1, <1>2, <2>1
    <3>2. TableKeys[used + 1] \in Seq(Nat) /\ TableKeys[used + 1] \in DOMAIN Hash
      BY <1>2, <3>1, TableAssumption
    <3> QED BY <3>2 DEF Key
  <2>3. v \in Nat
    BY TableAssumption
  <2>4. PICK u : u = tb'
    OBVIOUS
  <2>5. LaidOpen(u)
    BY <1>1, <1>3, <2>1, <2>2, <2>3, <2>4, AddLaid
  <2>6. LaidOpen(tb')
    BY <2>4, <2>5
  <2> QED BY <2>1, <2>6 DEF LayoutInv
<1>5. CASE Skip
  <2>1. pc' = pc /\ tb' = tb
    BY <1>5 DEF Skip
  <2> QED BY <1>3, <2>1 DEF LayoutInv
<1>6. CASE Finish
  <2>1. pc = "add" /\ pc' = IF tb'.ok THEN "sync" ELSE "deleted"
    BY <1>6 DEF Finish
  <2>2. PICK t \in FlushBlock(tb) : \E u \in FinishFilter(t) : \E v \in FinishMeta(u) :
          \E w \in FinishIndex(v) : tb' \in FinishFooter(w)
    BY <1>6 DEF Finish
  <2>3. Written(t) /\ LaidOpen(t)
    BY <1>1, <1>3, <2>1, FlushKeeps, FlushLaid DEF Building
  <2>4. PICK u \in FinishFilter(t) : \E v \in FinishMeta(u) :
          \E w \in FinishIndex(v) : tb' \in FinishFooter(w)
    BY <2>2
  <2>5. Written(u) /\ LaidOpen(u)
    BY <2>3, FinishFilterKeeps, FinishFilterLaid
  <2>6. PICK v \in FinishMeta(u) : \E w \in FinishIndex(v) : tb' \in FinishFooter(w)
    BY <2>4
  <2>7. Written(v) /\ LaidOpen(v)
    BY <2>5, FinishMetaKeeps, FinishMetaLaid
  <2>8. PICK w \in FinishIndex(v) : tb' \in FinishFooter(w)
    BY <2>6
  <2>9. Written(w) /\ LaidOpen(w)
    BY <2>7, FinishIndexKeeps, FinishIndexLaid
  <2>10. PICK x : x = tb'
    OBVIOUS
  <2>11. x.ok => LaidClosed(x)
    BY <2>8, <2>9, <2>10, FinishFooterLaid
  <2>12. CASE tb'.ok
    <3>1. LaidClosed(tb') /\ pc' = "sync"
      BY <2>1, <2>10, <2>11, <2>12
    <3> QED BY <3>1 DEF LayoutInv
  <2>13. CASE ~tb'.ok
    <3>1. pc' = "deleted"
      BY <2>1, <2>13
    <3> QED BY <3>1 DEF LayoutInv
  <2> QED BY <2>12, <2>13
<1>7. ASSUME NEW o \in FileSync(tb.file) \union FileClose(tb.file), tb' = With(tb, o),
             pc \in {"sync", "close"}
      PROVE  LaidClosed(tb') /\ (o.ok /\ ~Broken(tb'.file) => tb'.file.buf = <<>>)
  <2>1. PICK x : x = tb'
    OBVIOUS
  <2>2. LaidClosed(tb)
    BY <1>3, <1>7
  <2>3. LaidClosed(x) /\ (o.ok /\ ~Broken(x.file) => x.file.buf = <<>>)
    BY <1>1, <1>7, <2>1, <2>2, SyncLaid
  <2> QED BY <2>1, <2>3
<1>8. CASE Sync
  <2>1. PICK o \in FileSync(tb.file) : tb' = With(tb, o)
                                       /\ pc' = IF o.ok THEN "close" ELSE "deleted"
    BY <1>8 DEF Sync
  <2>2. pc = "sync"
    BY <1>8 DEF Sync
  <2>3. LaidClosed(tb') /\ pc' \in {"close", "deleted"}
    BY <1>7, <2>1, <2>2
  <2> QED BY <2>3 DEF LayoutInv
<1>9. CASE Close
  <2>1. PICK o \in FileClose(tb.file) : tb' = With(tb, o)
                                        /\ pc' = IF o.ok THEN "built" ELSE "deleted"
    BY <1>9 DEF Close
  <2>2. pc = "close"
    BY <1>9 DEF Close
  <2>3. LaidClosed(tb') /\ (o.ok /\ ~Broken(tb'.file) => tb'.file.buf = <<>>)
    BY <1>7, <2>1, <2>2
  <2>4. pc' # "add" /\ (pc' = "built" => o.ok)
    BY <2>1
  <2> QED BY <2>3, <2>4 DEF LayoutInv
<1>10. CASE UNCHANGED vars
  BY <1>3, <1>10 DEF LayoutInv, vars
<1> QED BY <1>4, <1>5, <1>6, <1>8, <1>9, <1>10 DEF Next

\* A block or the footer lies in the file as the cells say.
LEMMA LiesAs ==
  ASSUME NEW disk \in Seq(Cell), NEW from \in Nat, NEW cells \in Seq(Cell),
         from + Len(cells) <= Len(disk)
  PROVE  SubSeq(disk, from + 1, from + Len(cells)) = cells <=>
           \A k \in 1..Len(cells) : disk[from + k] = cells[k]
<1>1. PICK n \in Nat : n = Len(cells)
  OBVIOUS
<1>2. PICK s : s = SubSeq(disk, from + 1, from + n)
  OBVIOUS
<1>3. s \in Seq(Cell) /\ Len(s) = n /\ \A k \in 1..n : s[k] = disk[from + k]
  <2>0. from + 1 \in Nat /\ from + n \in Nat
    OBVIOUS
  <2>1. PICK a, b : a = from + 1 /\ b = from + n
    OBVIOUS
  <2>2. a \in Nat /\ b \in Nat /\ b <= Len(disk) /\ a >= 1
    BY <1>1, <2>0, <2>1
  <2>3. s = SubSeq(disk, a, b)
    BY <1>2, <2>1
  <2>4. \A i \in a..b : disk[i] \in Cell
    BY <2>2
  <2>5. /\ s \in Seq(Cell) /\ Len(s) = IF a <= b THEN b - a + 1 ELSE 0
        /\ \A i \in 1..(b - a + 1) : s[i] = disk[a + i - 1]
    BY <2>2, <2>3, <2>4, SubSeqProperties
  <2>6. Len(s) = n
    BY <2>1, <2>2, <2>5
  <2>7. ASSUME NEW k \in 1..n PROVE s[k] = disk[from + k]
    <3>1. k \in 1..(b - a + 1) /\ a + k - 1 = from + k
      BY <2>1, <2>2
    <3> QED BY <2>5, <3>1
  <2> QED BY <2>5, <2>6, <2>7
<1>4. s = cells <=> \A k \in 1..n : s[k] = cells[k]
  <2>1. ASSUME \A k \in 1..n : s[k] = cells[k] PROVE s = cells
    BY <1>1, <1>3, <2>1, SeqEqual
  <2> QED BY <2>1
<1> QED BY <1>1, <1>2, <1>3, <1>4

\* A position of a table that lies as its handles say: in which block it is (0 stands
\* for the footer), and at which place.
LEMMA PlaceKnown ==
  ASSUME NEW t \in TableState, LaidClosed(t), NEW disk \in Seq(Cell), Len(disk) = t.offset,
         \A k \in 1..FooterSize : disk[t.offset - FooterSize + k] = Footer[k],
         \A i \in 1..Len(t.placed) : \A k \in 1..Len(t.placed[i].cells) :
           disk[Begin(t.placed[i]) + k] = t.placed[i].cells[k],
         NEW j \in 1..Len(disk), NEW k \in 1..Len(disk), disk[j] = disk[k]
  PROVE  j = k
<1>1. t.placed \in Seq(Placement) /\ t.offset \in Nat
  BY DEF TableState
<1>2. PICK len \in Nat : len = Len(t.placed)
  BY <1>1
<1>3. PICK size \in Nat : size = FooterSize
  BY TableAssumption
<1>4. PICK end \in Nat : end = t.offset - size /\ t.offset = end + size
  <2>1. t.offset >= size
    BY <1>3 DEF LaidClosed
  <2> QED BY <1>1, <2>1
<1>5. Laid(t, end)
  BY <1>3, <1>4 DEF LaidClosed
<1>6. \A i \in 1..size : Footer[i] = <<0, i>>
  <2>1. Footer = [i \in 1..size |-> <<0, IF FALSE /\ i = 1 THEN 0 ELSE i>>]
    BY <1>3 DEF Footer, Cells
  <2> QED BY <2>1
\* A position before the footer.
<1>7. ASSUME NEW l \in 1..end
      PROVE  \E i \in 1..len : /\ Begin(t.placed[i]) \in Nat
                               /\ l - Begin(t.placed[i]) \in 1..Len(t.placed[i].cells)
                               /\ disk[l] = t.placed[i].cells[l - Begin(t.placed[i])]
                               /\ disk[l][1] \in {i, -i}
  <2>1. PICK i \in 1..len : Begin(t.placed[i]) < l /\ l <= End(t.placed[i])
    BY <1>2, <1>5 DEF Laid
  <2>2. PICK p \in Placement : p = t.placed[i]
    BY <1>1, <1>2
  <2>3. p.handle.offset \in Nat /\ p.cells \in Seq(Cell)
    BY DEF Placement
  <2>4. PICK from \in Nat, size2 \in Nat : from = Begin(p) /\ size2 = Len(p.cells)
    BY <2>3 DEF Begin
  <2>5. End(p) = from + size2
    BY <2>4 DEF Begin, End
  <2>6. l - from \in 1..size2 /\ from + (l - from) = l
    <3>1. from < l /\ l <= from + size2
      BY <2>1, <2>2, <2>4, <2>5
    <3> QED BY <3>1
  <2>7. disk[l] = p.cells[l - from]
    BY <1>2, <2>2, <2>4, <2>6
  <2>8. p.cells[l - from][1] \in {i, -i}
    BY <1>2, <1>5, <2>2, <2>4, <2>6 DEF Laid, Own
  <2> QED BY <2>2, <2>4, <2>6, <2>7, <2>8
\* A position in the footer.
<1>8. ASSUME NEW l \in 1..Len(disk), l \notin 1..end
      PROVE  l - end \in 1..size /\ disk[l] = <<0, l - end>>
  <2>1. l - end \in 1..size /\ end + (l - end) = l
    <3>1. l \in 1..(end + size)
      BY <1>4, <1>8
    <3> QED BY <1>8, <3>1
  <2>2. disk[end + (l - end)] = Footer[l - end]
    BY <1>3, <1>4, <2>1
  <2> QED BY <1>6, <2>1, <2>2
<1>9. CASE j \in 1..end /\ k \in 1..end
  <2>1. PICK a \in 1..len : /\ Begin(t.placed[a]) \in Nat
                            /\ j - Begin(t.placed[a]) \in 1..Len(t.placed[a].cells)
                            /\ disk[j] = t.placed[a].cells[j - Begin(t.placed[a])]
                            /\ disk[j][1] \in {a, -a}
    BY <1>7, <1>9
  <2>2. PICK b \in 1..len : /\ Begin(t.placed[b]) \in Nat
                            /\ k - Begin(t.placed[b]) \in 1..Len(t.placed[b].cells)
                            /\ disk[k] = t.placed[b].cells[k - Begin(t.placed[b])]
                            /\ disk[k][1] \in {b, -b}
    BY <1>7, <1>9
  <2>3. a = b
    <3>1. PICK x : x = disk[j][1]
      OBVIOUS
    <3>2. x \in {a, -a} /\ x \in {b, -b}
      BY <2>1, <2>2, <3>1
    <3> QED BY <3>2
  <2>4. PICK from \in Nat : from = Begin(t.placed[a])
    BY <2>1
  <2>5. j - from = k - from
    <3>1. PICK cells : cells = t.placed[a].cells
      OBVIOUS
    <3>2. Own(cells, a)
      BY <1>2, <1>5, <3>1 DEF Laid
    <3>3. /\ j - from \in 1..Len(cells) /\ k - from \in 1..Len(cells)
          /\ cells[j - from] = cells[k - from]
      BY <2>1, <2>2, <2>3, <2>4, <3>1
    <3> QED BY <3>2, <3>3 DEF Own
  <2> QED BY <1>9, <2>4, <2>5
<1>10. CASE j \notin 1..end /\ k \notin 1..end
  BY <1>8, <1>10
<1>11. ASSUME NEW l \in 1..end, NEW q \in 1..Len(disk), q \notin 1..end, disk[l] = disk[q] PROVE FALSE
  <2>1. disk[q][1] = 0
    BY <1>8, <1>11
  <2>2. PICK i \in 1..len : disk[l][1] \in {i, -i}
    BY <1>7
  <2> QED BY <1>11, <2>1, <2>2
<1> QED BY <1>9, <1>10, <1>11

\* Whole, position by position.
LEMMA WholePlaces ==
  ASSUME tb \in TableState, LaidClosed(tb)
  PROVE  Whole <=>
           /\ Len(tb.file.disk) = tb.offset
           /\ \A k \in 1..FooterSize : tb.file.disk[tb.offset - FooterSize + k] = Footer[k]
           /\ \A i \in 1..Len(tb.placed) :
                /\ End(tb.placed[i]) <= tb.offset
                /\ \A k \in 1..Len(tb.placed[i].cells) :
                     tb.file.disk[Begin(tb.placed[i]) + k] = tb.placed[i].cells[k]
<1>1. tb.placed \in Seq(Placement) /\ tb.offset \in Nat /\ tb.file \in FileState
  BY DEF TableState
<1>2. PICK disk \in Seq(Cell) : disk = tb.file.disk
  BY <1>1, HeldType
<1>3. PICK size \in Nat : size = FooterSize
  BY TableAssumption
<1>4. Footer \in Seq(Cell) /\ Len(Footer) = size
  BY <1>3, FooterOwn DEF OwnCells
<1>5. PICK end \in Nat : end = tb.offset - size /\ tb.offset = end + size
  <2>1. tb.offset >= size
    BY <1>3 DEF LaidClosed
  <2> QED BY <1>1, <2>1
<1> SUFFICES ASSUME Len(disk) = tb.offset
             PROVE  /\ SubSeq(disk, tb.offset - FooterSize + 1, tb.offset) = Footer <=>
                         \A k \in 1..FooterSize : disk[tb.offset - FooterSize + k] = Footer[k]
                    /\ \A i \in 1..Len(tb.placed) :
                         End(tb.placed[i]) <= tb.offset =>
                           (SubSeq(disk, Begin(tb.placed[i]) + 1, End(tb.placed[i])) = tb.placed[i].cells <=>
                              \A k \in 1..Len(tb.placed[i].cells) :
                                disk[Begin(tb.placed[i]) + k] = tb.placed[i].cells[k])
  BY <1>2 DEF Whole, Begin, End, Footer
<1>6. SubSeq(disk, end + 1, end + Len(Footer)) = Footer <=> \A k \in 1..Len(Footer) : disk[end + k] = Footer[k]
  <2>1. end + Len(Footer) <= Len(disk)
    BY <1>4, <1>5
  <2>2. PICK cells \in Seq(Cell) : cells = Footer
    BY <1>4
  <2> QED BY <2>1, <2>2, LiesAs
<1>7. ASSUME NEW i \in 1..Len(tb.placed), End(tb.placed[i]) <= tb.offset
      PROVE  SubSeq(disk, Begin(tb.placed[i]) + 1, End(tb.placed[i])) = tb.placed[i].cells <=>
               \A k \in 1..Len(tb.placed[i].cells) :
                 disk[Begin(tb.placed[i]) + k] = tb.placed[i].cells[k]
  <2>1. PICK p \in Placement : p = tb.placed[i]
    BY <1>1
  <2>2. p.handle.offset \in Nat /\ p.cells \in Seq(Cell)
    BY DEF Placement
  <2>3. PICK from \in Nat, cells \in Seq(Cell) : from = Begin(p) /\ cells = p.cells
    BY <2>2 DEF Begin
  <2>4. End(p) = from + Len(cells)
    BY <2>3 DEF Begin, End
  <2>5. from + Len(cells) <= Len(disk)
    BY <1>7, <2>1, <2>4
  <2>6. SubSeq(disk, from + 1, from + Len(cells)) = cells <=> \A k \in 1..Len(cells) : disk[from + k] = cells[k]
    BY <2>5, LiesAs
  <2> QED BY <2>1, <2>3, <2>4, <2>6
<1> QED BY <1>3, <1>4, <1>5, <1>6, <1>7

\* A table that BuildTable reports as built lies in the file as its handles and its size
\* say, exactly if no write took a part and no Append ran over the end of the buffer: for
\* any keys, values, sizes of blocks and buffer, and any failures on the way.
THEOREM BuiltWholeHolds ==
  ASSUME CompressedLengths
  PROVE  Spec => []BuiltWhole
<1>1. TableInv /\ LayoutInv => BuiltWhole
  <2> SUFFICES ASSUME TableInv, LayoutInv, pc = "built", ~Broken(tb.file)
               PROVE  Whole <=> ~tb.file.lost
    BY DEF BuiltWhole
  <2>1. tb \in TableState /\ tb.file \in FileState /\ tb.placed \in Seq(Placement) /\ tb.offset \in Nat
    BY DEF TableInv, Written, TableState
  <2>2. LaidClosed(tb) /\ tb.file.buf = <<>>
    BY DEF LayoutInv
  <2>3. PICK disk \in Seq(Cell) : disk = tb.file.disk /\ Held(tb.file) = disk
    <3>1. tb.file.disk \in Seq(Cell)
      BY <2>1, HeldType
    <3>2. Held(tb.file) = tb.file.disk
      BY <2>2, <3>1, ConcatEmptySeq DEF Held
    <3> QED BY <3>1, <3>2
  <2>4. PICK m : m = SentBy(tb) \union CellsOf(Footer)
    OBVIOUS
  <2>5. /\ CellsOf(disk) \subseteq m /\ (tb.file.lost => Spoiled(disk, m))
        /\ Laid(tb, tb.offset - FooterSize) /\ tb.offset >= FooterSize
        /\ ~tb.file.lost =>
             /\ Len(disk) = tb.offset
             /\ \A k \in 1..FooterSize : disk[tb.offset - FooterSize + k] = Footer[k]
    BY <2>2, <2>3, <2>4 DEF LaidClosed, Sent, Good
  <2>6. Whole <=>
           /\ Len(disk) = tb.offset
           /\ \A k \in 1..FooterSize : disk[tb.offset - FooterSize + k] = Footer[k]
           /\ \A i \in 1..Len(tb.placed) :
                /\ End(tb.placed[i]) <= tb.offset
                /\ \A k \in 1..Len(tb.placed[i].cells) :
                     disk[Begin(tb.placed[i]) + k] = tb.placed[i].cells[k]
    BY <2>1, <2>2, <2>3, WholePlaces
  <2>7. ASSUME ~tb.file.lost PROVE Whole
    <3>1. ASSUME NEW i \in 1..Len(tb.placed)
          PROVE  /\ End(tb.placed[i]) <= tb.offset
                 /\ \A k \in 1..Len(tb.placed[i].cells) :
                      disk[Begin(tb.placed[i]) + k] = tb.placed[i].cells[k]
      <4>1. /\ End(tb.placed[i]) <= tb.offset - FooterSize
            /\ \A k \in 1..Len(tb.placed[i].cells) :
                 disk[Begin(tb.placed[i]) + k] = tb.placed[i].cells[k]
        BY <2>3, <2>5, <2>7 DEF Laid, Good
      <4>2. End(tb.placed[i]) \in Nat
        <5>1. PICK p \in Placement : p = tb.placed[i]
          BY <2>1
        <5>2. p.handle.offset \in Nat /\ p.cells \in Seq(Cell)
          BY DEF Placement
        <5>3. Len(p.cells) \in Nat
          BY <5>2
        <5>4. End(p) = p.handle.offset + Len(p.cells)
          BY DEF End
        <5>5. End(p) \in Nat
          BY <5>2, <5>3, <5>4
        <5> QED BY <5>1, <5>5
      <4>3. End(tb.placed[i]) <= tb.offset
        BY <2>1, <4>1, <4>2, TableAssumption
      <4> QED BY <4>1, <4>3
    <3> QED BY <2>5, <2>6, <2>7, <3>1
  <2>8. ASSUME Whole, tb.file.lost PROVE FALSE
    <3>1. /\ Len(disk) = tb.offset
          /\ \A k \in 1..FooterSize : disk[tb.offset - FooterSize + k] = Footer[k]
          /\ \A i \in 1..Len(tb.placed) :
               /\ End(tb.placed[i]) <= tb.offset
               /\ \A k \in 1..Len(tb.placed[i].cells) :
                    disk[Begin(tb.placed[i]) + k] = tb.placed[i].cells[k]
      BY <2>6, <2>8
    <3>2. CASE Twice(disk)
      <4>1. PICK j \in 1..Len(disk), k \in 1..Len(disk) : j < k /\ disk[j] = disk[k]
        BY <3>2 DEF Twice
      <4>2. j = k
        BY <2>1, <2>2, <3>1, <4>1, PlaceKnown
      <4> QED BY <4>1, <4>2
    <3>3. CASE CellsOf(disk) # m
      <4>1. PICK c \in m : c \notin CellsOf(disk)
        BY <2>5, <3>3
      <4>2. CASE c \in CellsOf(Footer)
        <5>1. PICK k \in 1..FooterSize : c = Footer[k]
          <6>1. Len(Footer) = FooterSize
            BY FooterOwn DEF OwnCells
          <6> QED BY <4>2, <6>1 DEF CellsOf
        <5>2. tb.offset - FooterSize + k \in 1..Len(disk)
          BY <2>1, <2>5, <3>1, TableAssumption
        <5> QED BY <3>1, <4>1, <5>1, <5>2 DEF CellsOf
      <4>3. CASE c \in SentBy(tb)
        <5>1. PICK i \in 1..Len(tb.placed) : c \in CellsOf(tb.placed[i].cells)
          BY <4>3 DEF SentBy
        <5>2. PICK k \in 1..Len(tb.placed[i].cells) : c = tb.placed[i].cells[k]
          BY <5>1 DEF CellsOf
        <5>3. PICK p \in Placement : p = tb.placed[i]
          BY <2>1
        <5>4. p.handle.offset \in Nat /\ p.cells \in Seq(Cell)
          BY DEF Placement
        <5>5. Len(p.cells) \in Nat
          BY <5>4
        <5>6. Begin(p) + k \in 1..Len(disk)
          <6>1. PICK from \in Nat, size \in Nat : from = p.handle.offset /\ size = Len(p.cells)
            BY <5>4, <5>5
          <6>2. from + size <= Len(disk)
            BY <3>1, <5>3, <6>1 DEF End
          <6>3. k \in 1..size
            BY <5>2, <5>3, <6>1
          <6>4. from + k \in 1..Len(disk)
            BY <6>2, <6>3
          <6> QED BY <6>1, <6>4 DEF Begin
        <5>7. disk[Begin(p) + k] = c
          BY <3>1, <5>2, <5>3
        <5> QED BY <4>1, <5>6, <5>7 DEF CellsOf
      <4> QED BY <2>4, <4>1, <4>2, <4>3
    <3> QED BY <2>5, <2>8, <3>2, <3>3 DEF Spoiled
  <2>9. tb.file.lost \in BOOLEAN
    BY <2>1, HeldType
  <2> QED BY <2>7, <2>8
<1>2. TableInv /\ LayoutInv /\ [Next]_vars => LayoutInv'
  BY LayoutStep
<1> QED BY <1>1, <1>2, LayoutInit, TableInductive, PTL DEF Spec
=============================================================================
