---------------------------- MODULE FilterBlock ----------------------------
(***************************************************************************)
(* The filter block of a table: a Bloom filter for the keys of the data    *)
(* blocks that begin in each kFilterBase bytes of the file.  The builder   *)
(* is a record: `keys' that wait for their filter, `offsets' where each    *)
(* filter begins in result_, the `filters' themselves, and the length      *)
(* `size' of result_.                                                      *)
(***************************************************************************)
EXTENDS Integers, Sequences

CONSTANTS FilterBase,   \* kFilterBase
          BitsPerKey,   \* bits_key
          WordBits,     \* the width of a hash: 32
          RotateBits,   \* by how much it is rotated: 17
          Hash          \* BloomHash
ASSUME FilterAssumption ==
  /\ FilterBase \in Nat \ {0} /\ BitsPerKey \in Nat \ {0}
  /\ RotateBits \in 0 .. WordBits
  /\ \A k \in DOMAIN Hash : Hash[k] \in 0 .. 2 ^ WordBits - 1

\* bits * 0.69, at least 1 and at most 30.
HashSize == LET n == (BitsPerKey * 69) \div 100
            IN  IF n < 1 THEN 1 ELSE IF n > 30 THEN 30 ELSE n

\* The bits of a key in a filter of `bits' bits: the hash, and the rotated hash
\* added to it again and again.
Probes(key, bits) ==
  LET h     == Hash[key]
      delta == (h \div 2 ^ RotateBits) + (h % 2 ^ RotateBits) * 2 ^ (WordBits - RotateBits)
  IN  {((h + j * delta) % 2 ^ WordBits) % bits : j \in 0 .. HashSize - 1}

CreateFiler(keys, start) ==
  LET wanted == IF BitsPerKey * Len(keys) < 64 THEN 64 ELSE BitsPerKey * Len(keys)
      bytes  == (wanted + 7) \div 8
  IN  [start |-> start, len |-> bytes + 1,
       bits  |-> UNION {Probes(keys[i], bytes * 8) : i \in 1 .. Len(keys)}]

\* BloomFilter::KeyMayMatch on the bytes from start to limit.
BloomMayMatch(filters, start, limit, key) ==
  /\ limit - start >= 2
  /\ \E i \in 1 .. Len(filters) :
       /\ filters[i].start = start /\ filters[i].len = limit - start
       /\ Probes(key, (limit - start - 1) * 8) \subseteq filters[i].bits
-----------------------------------------------------------------------------
NewFilter == [keys |-> <<>>, offsets |-> <<>>, filters |-> <<>>, size |-> 0]

AddKey(fb, key) == [fb EXCEPT !.keys = Append(@, key)]

CreateNewfilter(fb) ==
  IF fb.keys = <<>> THEN [fb EXCEPT !.offsets = Append(@, fb.size)]
  ELSE LET new == CreateFiler(fb.keys, fb.size)
       IN  [keys |-> <<>>, offsets |-> Append(fb.offsets, fb.size),
            filters |-> Append(fb.filters, new), size |-> fb.size + new.len]

\* Mutant: the filter of the range in which the next block begins is made too early.
StartBlockEarly(fb, block_offset) ==
  LET filter_index == block_offset \div FilterBase
      made[n \in 0 .. filter_index + 1] ==
        IF n = 0 THEN fb
        ELSE LET p == made[n - 1]
             IN  IF filter_index >= Len(p.offsets) THEN CreateNewfilter(p) ELSE p
  IN  made[filter_index + 1]

\* A filter for every range before the one in which the next block begins.
StartBlock(fb, block_offset) ==
  LET filter_index == block_offset \div FilterBase
      made[n \in 0 .. filter_index] ==
        IF n = 0 THEN fb
        ELSE LET p == made[n - 1]
             IN  IF filter_index > Len(p.offsets) THEN CreateNewfilter(p) ELSE p
  IN  made[filter_index]

FilterFinish(fb) == IF fb.keys = <<>> THEN fb ELSE CreateNewfilter(fb)

\* The filters, their offsets, where those begin, and base_lg.
FilterSize(fb) == fb.size + Len(fb.offsets) + 2

\* Where filter i begins in result_; the entry after the last offset is where they end.
FilterAt(fb, i) == IF i < Len(fb.offsets) THEN fb.offsets[i + 1] ELSE fb.size
=============================================================================
