------------------------------ MODULE SigBits ------------------------------
(***************************************************************************)
(* Significant-bits removal (lib/pc_bytes.c): the bits that all values of  *)
(* a dimension share are written once and the others are packed into       *)
(* words.  The encoder and the decoder walk the words with two cursors,    *)
(* ptr and bit; PC_PointN goes to a value directly.  There is one copy of  *)
(* the code for each word size, with small differences.                    *)
(*                                                                         *)
(* A word is the set of its bits that are one, bit 0 the lowest.           *)
(***************************************************************************)
EXTENDS Integers, SequencesExt

CONSTANTS
  ByteBits,   \* bits in a byte: 8
  IntBytes,   \* bytes in an int: 4; a narrower word is promoted when shifted
  Sizes,      \* sizes of the words, in bytes: 1, 2, 4 and 8
  Val,        \* Val[size]: values that a dimension of words of this size holds
  MaxPoints   \* bound on the number of values

ASSUME SizesAssumption ==
  /\ Sizes \subseteq Nat \ {0} /\ ByteBits \in Nat \ {0} /\ IntBytes \in Nat
  /\ MaxPoints \in Nat

ASSUME ValAssumption ==
  \A size \in Sizes : Val[size] \subseteq SUBSET (0 .. ByteBits * size - 1)

VARIABLES
  size,    \* size of the words
  vals,    \* the values to encode
  phase,   \* "encode", then "decode"
  nbits,   \* first of the encoded words: number of unique bits
  common,  \* second of the encoded words: common value
  packed,  \* the words from 2 on, with the unique bits
  ptr,     \* the word under the read or write head
  bit,     \* bits of it not yet read or written
  out      \* the values decoded so far; while encoding, the values written so far

vars == <<size, vals, phase, nbits, common, packed, ptr, bit, out>>

Width == ByteBits * size

(* The mask of the k lowest bits.                                           *)
Low(k) == 0 .. k - 1
AllOnes == Low(Width)

(* Slip: the bits that a promoted word is shifted out of are kept.          *)
ShlPromoted(v, k) == {b + k : b \in v}

(* Shifts of a word by k bits.  A right shift by the whole width is         *)
(* undefined for words as wide as an int: it gives 0 or, where the machine  *)
(* takes the count modulo the width, the word itself.                       *)
Shl(v, k) == {b + k : b \in v} \cap AllOnes
Dropped(v, k) == {b \in 0 .. Width - 1 - k : b + k \in v}
Shr(v, k) == IF k < Width \/ size < IntBytes THEN {Dropped(v, k)} ELSE {{}, v}

-----------------------------------------------------------------------------
elem_and == {b \in AllOnes : \A i \in DOMAIN vals : b \in vals[i]}
elem_or  == {b \in AllOnes : \E i \in DOMAIN vals : b \in vals[i]}

AgreeAfter(k) == Dropped(elem_and, k) = Dropped(elem_or, k)

(* Slip: they are shifted once more than they need.                         *)
UniqueBitsMany == Min({Width, Min({k \in 0 .. Width : AgreeAfter(k)}) + 1})

(* pc_bytes_sigbits_count: both are shifted right until they agree.         *)
UniqueBits == Min({k \in 0 .. Width : AgreeAfter(k)})

CommonOf(k) == Shl(Dropped(elem_and, k), k)

(* Slip: no room for the bits that do not fill a word.                      *)
CapacityWithoutRemainder(unique, n) == ((unique * n) \div ByteBits) \div size + 2

(* Words allocated for n values: the bytes of the packed bits, one for the  *)
(* remainder and the two head words, rounded up.                            *)
Capacity(unique, n) ==
  LET raw == (unique * n) \div ByteBits + 1 + 2 * size
  IN IF size <= 2 THEN (raw + (raw % size)) \div size ELSE raw \div size + 1

Init ==
  /\ size \in Sizes
  /\ vals \in UNION {[1 .. n -> Val[size]] : n \in 1 .. MaxPoints}
  /\ nbits = UniqueBits
  /\ common = CommonOf(nbits)
  /\ packed = [i \in 2 .. Capacity(nbits, Len(vals)) - 1 |-> {}]
  /\ phase = IF nbits = 0 THEN "decode" ELSE "encode"
  /\ ptr = 2 /\ bit = Width
  /\ out = <<>>

Current == vals[Len(out) + 1]
More == Len(out) < Len(vals)

(* Slip: the head moves on when the next value does not fit.                *)
AdvanceEarly(left) ==
  IF left < nbits THEN ptr' = ptr + 1 /\ bit' = Width ELSE ptr' = ptr /\ bit' = left

(* The head moves on to the next word when this one is used up.             *)
Advance(left) ==
  IF left = 0 THEN ptr' = ptr + 1 /\ bit' = Width ELSE ptr' = ptr /\ bit' = left

(* The unique bits of a value fit into the current word.                    *)
EncodeWhole ==
  /\ phase = "encode" /\ More /\ bit >= nbits
  /\ packed' = [packed EXCEPT ![ptr] = @ \cup Shl(Current \cap Low(nbits), bit - nbits)]
  /\ Advance(bit - nbits)
  /\ out' = Append(out, Current)
  /\ UNCHANGED <<size, vals, phase, nbits, common>>

(* They are split: the upper ones go here, the lower s to the next word.    *)
EncodeSplit ==
  /\ phase = "encode" /\ More /\ bit < nbits
  /\ LET v == Current \cap Low(nbits)
         s == nbits - bit
     IN /\ packed' = [packed EXCEPT ![ptr]     = @ \cup Dropped(v, s),
                                    ![ptr + 1] = @ \cup Shl(v, Width - s)]
        /\ bit' = Width - s
  /\ ptr' = ptr + 1
  /\ out' = Append(out, Current)
  /\ UNCHANGED <<size, vals, phase, nbits, common>>

(* The encoded bytes are kept; decoding starts at the first packed word.    *)
StartDecoding ==
  /\ phase = "encode" /\ ~More
  /\ phase' = "decode"
  /\ ptr' = 2 /\ bit' = Width
  /\ out' = <<>>
  /\ UNCHANGED <<size, vals, nbits, common, packed>>

(* Slip: the count of unique bits is taken for that of common bits.         *)
MasksOfCommon == Shr(AllOnes, nbits)

Masks == Shr(AllOnes, Width - nbits)

(* Only the copy for single bytes leaves its head on a word that is used up.*)
DecodeWhole ==
  /\ phase = "decode" /\ More /\ bit >= nbits
  /\ \E mask \in Masks, v \in Shr(packed[ptr], bit - nbits) :
       out' = Append(out, (v \cap mask) \cup common)
  /\ IF size = 1 THEN ptr' = ptr /\ bit' = bit - nbits ELSE Advance(bit - nbits)
  /\ UNCHANGED <<size, vals, phase, nbits, common, packed>>

DecodeSplit ==
  /\ phase = "decode" /\ More /\ bit < nbits
  /\ LET s == nbits - bit
     IN /\ \E mask \in Masks, low \in Shr(packed[ptr + 1], Width - s) :
             out' = Append(out, (Shl(packed[ptr], s) \cap mask) \cup common \cup (low \cap mask))
        /\ bit' = Width - s
  /\ ptr' = ptr + 1
  /\ UNCHANGED <<size, vals, phase, nbits, common, packed>>

Next == EncodeWhole \/ EncodeSplit \/ StartDecoding \/ DecodeWhole \/ DecodeSplit

Spec == Init /\ [][Next]_vars

-----------------------------------------------------------------------------
(* pc_bytes_sigbits_to_ptr: the value whose unique bits begin offset bits   *)
(* into the packed words.                                                   *)
ToPtr(offset) ==
  LET p == 2 + offset \div Width
      shift == Width - (offset % Width) - nbits
      Mask == IF nbits = 0 THEN {{}, AllOnes} ELSE {Low(nbits)}
  IN IF shift >= 0
     THEN {common \cup (v \cap mask) : mask \in Mask, v \in Shr(packed[p], shift)}
     ELSE {common \cup (Shl(packed[p], -shift) \cap mask) \cup (v \cap mask) :
             mask \in Mask, v \in Shr(packed[p + 1], shift + Width)}

(* Slip: the offset is taken within the word.                               *)
OffsetOfInWord(n) == (n * nbits) % Width

(* The offset of value n (0-based) is kept in a word, so it wraps.          *)
OffsetOf(n) == (n * nbits) % 2 ^ Width

-----------------------------------------------------------------------------
(* Types: no bit of a word lies beyond its width.                           *)
TypeOK ==
  /\ size \in Sizes
  /\ vals \in UNION {[1 .. n -> Val[size]] : n \in 1 .. MaxPoints}
  /\ phase \in {"encode", "decode"}
  /\ nbits \in 0 .. Width /\ common \in SUBSET AllOnes
  /\ packed \in [2 .. Capacity(nbits, Len(vals)) - 1 -> SUBSET AllOnes]
  /\ ptr \in Nat \ {0, 1} /\ bit \in 0 .. Width
  /\ Len(out) <= Len(vals)

(* Neither loop reads or writes past the words that were allocated.         *)
InBounds ==
  More => ptr \in DOMAIN packed /\ (bit < nbits => ptr + 1 \in DOMAIN packed)

(* The values are packed without gaps, so value n begins n * nbits bits     *)
(* into them: what direct access computes is where the loops have been.     *)
Gapless == (ptr - 2) * Width + (Width - bit) = Len(out) * nbits

(* Every value decodes to what was encoded, in both outcomes of the shifts  *)
(* by a whole word that a dimension of one repeated value leads to.         *)
RoundTrip == phase = "decode" => out = SubSeq(vals, 1, Len(out))

(* The head words are as src/doc/concepts/binary.rst describes them: the    *)
(* common bits with the variable bits zero, and as few variable bits as can *)
(* be.                                                                      *)
HeadExact ==
  /\ \A i \in DOMAIN vals : vals[i] \ Low(nbits) = common
  /\ nbits > 0 => \E i, j \in DOMAIN vals : vals[i] \ Low(nbits - 1) # vals[j] \ Low(nbits - 1)

(* The bytes are what another reader of the format expects: head words as   *)
(* described, then the values with nothing between them.                    *)
PackedExactly == Gapless /\ HeadExact

(* PC_PointN finds the value that decoding gives, provided that its bit     *)
(* offset fits into a word: pc_bytes_sigbits_to_ptr computes it in one.     *)
PointNWithinWord ==
  phase = "decode" => \A n \in 0 .. Len(vals) - 1 :
    n * nbits < 2 ^ Width => ToPtr(OffsetOf(n)) = {vals[n + 1]}

(* Decoding and direct access both give back the values encoded.            *)
ValuesComeBack == RoundTrip /\ PointNWithinWord
=============================================================================
