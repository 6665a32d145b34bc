--------------------------- MODULE SigBitsProofs ---------------------------
(***************************************************************************)
(* Proofs about significant-bits removal, for words of every size, every   *)
(* number of values and every width of byte: the loops stay within the     *)
(* words that were allocated, the encoded bytes are what the format says,  *)
(* and decoding and direct access give the values back.                    *)
(*                                                                         *)
(* The packed words are one stream of bits, the highest bit of word 2      *)
(* first.  Value i (from 1) has the stretch of nbits bits that ends at     *)
(* place i * nbits - 1, its lowest bit last.  The invariant says which     *)
(* places of the stream hold a one (Filled) and how far the cursor has     *)
(* come (Gapless); as both the stretches and the words cut the stream into *)
(* pieces of one length, a place determines its word and bit as well as    *)
(* its value and bit.                                                      *)
(***************************************************************************)
EXTENDS SigBits, RunLengthProofs

(* Pieces of length k do not overlap.                                       *)
LEMMA Pieces ==
  ASSUME NEW k \in Nat \ {0}, NEW a \in Int, NEW b \in Int, NEW x \in 0 .. k - 1, NEW y \in 0 .. k - 1,
         a * k + x = b * k + y
  PROVE  a = b /\ x = y
<1>1. ASSUME NEW c \in Int, NEW d \in Int, c < d PROVE c * k + k <= d * k
  <2>1. d - c - 1 \in Nat /\ k \in Nat
    BY <1>1
  <2>2. (d - c - 1) * k \in Nat
    BY <2>1
  <2>3. (d - c - 1) * k = d * k - c * k - k
    OBVIOUS
  <2>4. d * k \in Int /\ c * k \in Int
    OBVIOUS
  <2> QED
    BY <2>2, <2>3, <2>4
<1>2. a * k \in Int /\ b * k \in Int
  OBVIOUS
<1>3. ~ (a < b)
  BY <1>1, <1>2
<1>4. ~ (b < a)
  BY <1>1, <1>2
<1> QED
  BY <1>3, <1>4

LEMMA Quotient ==
  ASSUME NEW n \in Nat, NEW k \in Nat \ {0}
  PROVE  /\ n \div k \in Nat /\ n % k \in 0 .. k - 1
         /\ n = (n \div k) * k + (n % k)
         /\ n < (n \div k + 1) * k
<1>1. n \div k \in Nat /\ n % k \in 0 .. k - 1 /\ n = k * (n \div k) + (n % k)
  OBVIOUS
<1>2. (n \div k + 1) * k = (n \div k) * k + k /\ k * (n \div k) = (n \div k) * k
  BY <1>1
<1> QED
  BY <1>1, <1>2

-----------------------------------------------------------------------------
(* Bit c of word j, and bit b of value i, in the stream.                    *)
Place(j, c) == (j - 2) * Width + (Width - 1 - c)
PlaceOf(i, b) == i * nbits - 1 - b

(* The stream holds a one at place q when the first m values are packed.    *)
One(q, m) == \E i \in 1 .. m : \E b \in Low(nbits) : b \in vals[i] /\ q = PlaceOf(i, b)

Filled(m) ==
  /\ packed \in [2 .. Capacity(nbits, Len(vals)) - 1 -> SUBSET AllOnes]
  /\ \A j \in DOMAIN packed : \A c \in AllOnes : c \in packed[j] <=> One(Place(j, c), m)

(* What neither loop changes.                                               *)
Fixed ==
  /\ size \in Sizes
  /\ vals \in UNION {[1 .. n -> Val[size]] : n \in 1 .. MaxPoints}
  /\ nbits \in 0 .. Width
  /\ HeadExact

Cursor == ptr \in Nat \ {0, 1} /\ bit \in 0 .. Width /\ Gapless

SigInv ==
  /\ Fixed /\ Cursor
  /\ Len(out) \in 0 .. Len(vals) /\ out = SubSeq(vals, 1, Len(out))
  /\ phase \in {"encode", "decode"}
  /\ Filled(IF phase = "encode" THEN Len(out) ELSE Len(vals))

LEMMA FixedIs ==
  ASSUME Fixed
  PROVE  /\ size \in Nat \ {0} /\ ByteBits \in Nat \ {0} /\ Width \in Nat \ {0}
         /\ Len(vals) \in Nat \ {0} /\ DOMAIN vals = 1 .. Len(vals)
         /\ vals \in Seq(SUBSET AllOnes)
         /\ nbits \in Nat /\ nbits <= Width
         /\ \A i \in 1 .. Len(vals) : vals[i] \subseteq AllOnes /\ vals[i] \ Low(nbits) = common
         /\ common \in SUBSET AllOnes
<1>1. size \in Nat \ {0} /\ ByteBits \in Nat \ {0}
  BY SizesAssumption DEF Fixed
<1>2. Width \in Nat \ {0}
  BY <1>1 DEF Width
<1>3. PICK n \in 1 .. MaxPoints : vals \in [1 .. n -> Val[size]]
  BY DEF Fixed
<1>4. Val[size] \subseteq SUBSET AllOnes
  BY ValAssumption DEF Fixed, AllOnes, Low, Width
<1>5. vals \in [1 .. n -> SUBSET AllOnes] /\ n \in Nat \ {0}
  BY <1>3, <1>4, SizesAssumption
<1>6. vals \in Seq(SUBSET AllOnes) /\ Len(vals) = n /\ DOMAIN vals = 1 .. n
  BY <1>5
<1>7. \A i \in 1 .. n : vals[i] \subseteq AllOnes /\ vals[i] \ Low(nbits) = common
  BY <1>5, <1>6 DEF Fixed, HeadExact
<1>8. common \in SUBSET AllOnes
  BY <1>5, <1>7
<1>9. nbits \in Nat /\ nbits <= Width
  BY <1>2 DEF Fixed
<1> QED
  BY <1>1, <1>2, <1>5, <1>6, <1>7, <1>8, <1>9

(* The words have room for more bits than there are.                        *)
LEMMA Room ==
  ASSUME Fixed
  PROVE  /\ Capacity(nbits, Len(vals)) \in Nat
         /\ Len(vals) * nbits < (Capacity(nbits, Len(vals)) - 2) * Width
<1> DEFINE t == nbits * Len(vals)
           d == t \div ByteBits
           raw == d + 1 + 2 * size
           cap == Capacity(nbits, Len(vals))
<1>0. size \in Nat \ {0} /\ ByteBits \in Nat \ {0} /\ nbits \in Nat /\ Len(vals) \in Nat
  BY FixedIs
<1>1. t \in Nat /\ Len(vals) * nbits = t
  BY <1>0
<1>2. d \in Nat /\ t < (d + 1) * ByteBits
  <2> HIDE DEF t
  <2> QED
    BY <1>0, <1>1, Quotient
<1>3. raw \in Nat
  <2> HIDE DEF d
  <2> QED
    BY <1>0, <1>2
<1>4. cap = IF size <= 2 THEN (raw + (raw % size)) \div size ELSE raw \div size + 1
  BY DEF Capacity
<1> HIDE DEF cap, t, d
<1>5. cap \in Nat /\ cap * size >= raw
  <2> HIDE DEF raw
  <2>1. CASE size = 1
    BY <1>3, <1>4, <2>1
  <2>2. CASE size = 2
    BY <1>3, <1>4, <2>2
  <2>3. CASE size > 2
    <3>1. raw \div size \in Nat /\ raw < (raw \div size + 1) * size
      BY <1>0, <1>3, Quotient
    <3>2. cap = raw \div size + 1
      BY <1>0, <1>4, <2>3
    <3>3. cap \in Nat /\ raw < cap * size
      BY <3>1, <3>2
    <3> QED
      BY <1>0, <1>3, <3>3
  <2> QED
    BY <1>0, <2>1, <2>2, <2>3
<1>6. (cap - 2) * size >= d + 1
  <2>1. (cap - 2) * size = cap * size - 2 * size /\ cap * size \in Nat
    BY <1>0, <1>5
  <2> QED
    BY <1>0, <1>2, <1>5, <2>1
<1>7. (cap - 2) * size * ByteBits >= (d + 1) * ByteBits
  <2> DEFINE x == (cap - 2) * size - (d + 1)
  <2>1. x \in Nat
    <3>1. (cap - 2) * size \in Int
      BY <1>0, <1>5
    <3> QED
      BY <1>2, <1>6, <3>1
  <2>2. (cap - 2) * size = x + (d + 1)
    <3>1. (cap - 2) * size \in Int
      BY <1>0, <1>5
    <3> QED
      BY <1>2, <3>1
  <2> HIDE DEF x
  <2>3. x * ByteBits \in Nat
    BY <1>0, <2>1
  <2>4. (x + (d + 1)) * ByteBits = x * ByteBits + (d + 1) * ByteBits /\ (d + 1) * ByteBits \in Nat
    BY <1>0, <1>2, <2>1
  <2> QED
    BY <2>2, <2>3, <2>4
<1>8. (cap - 2) * Width = (cap - 2) * size * ByteBits
  BY <1>0, <1>5 DEF Width
<1>9. t < (cap - 2) * Width
  <2>1. (cap - 2) * Width \in Int /\ (d + 1) * ByteBits \in Int
    BY <1>0, <1>2, <1>5 DEF Width
  <2> QED
    BY <1>1, <1>2, <1>7, <1>8, <2>1
<1> QED
  BY <1>1, <1>5, <1>9 DEF cap

(* A word in which a value begins or ends is one of them.                   *)
LEMMA WordExists ==
  ASSUME Fixed, NEW p \in Nat \ {0, 1}, NEW x \in Nat, (p - 2) * Width + x <= Len(vals) * nbits
  PROVE  p \in 2 .. Capacity(nbits, Len(vals)) - 1
<1> DEFINE cap == Capacity(nbits, Len(vals))
           w == Width
           t == Len(vals) * nbits
<1>1. cap \in Nat /\ w \in Nat \ {0} /\ t \in Nat /\ t < (cap - 2) * w
  BY Room, FixedIs
<1>2. (p - 2) * w + x <= t
  OBVIOUS
<1> HIDE DEF cap, w, t
<1>3. (p - 2) * w < (cap - 2) * w
  <2>1. (p - 2) * w \in Int /\ (cap - 2) * w \in Int
    BY <1>1
  <2> QED
    BY <1>1, <1>2, <2>1
<1>4. p < cap
  <2>1. SUFFICES ASSUME p >= cap PROVE FALSE
    BY <1>1
  <2>2. p - cap \in Nat
    BY <1>1, <2>1
  <2>3. (p - cap) * w \in Nat
    BY <1>1, <2>2
  <2>4. (p - cap) * w = (p - 2) * w - (cap - 2) * w /\ (p - 2) * w \in Int /\ (cap - 2) * w \in Int
    BY <1>1
  <2> QED
    BY <1>3, <2>3, <2>4
<1> QED
  BY <1>1, <1>4 DEF cap

(* A place belongs to one value only, and to one word only.                 *)
LEMMA OneAt ==
  ASSUME Fixed, NEW m \in 0 .. Len(vals), NEW i \in 1 .. m, NEW b \in Low(nbits)
  PROVE  One(PlaceOf(i, b), m) <=> b \in vals[i]
<1>1. b \in vals[i] => One(PlaceOf(i, b), m)
  BY DEF One
<1>2. ASSUME One(PlaceOf(i, b), m) PROVE b \in vals[i]
  <2>1. PICK j \in 1 .. m : \E c \in Low(nbits) : c \in vals[j] /\ PlaceOf(i, b) = PlaceOf(j, c)
    BY <1>2 DEF One
  <2>2. PICK c \in Low(nbits) : c \in vals[j] /\ PlaceOf(i, b) = PlaceOf(j, c)
    BY <2>1
  <2>3. nbits \in Nat \ {0} /\ i \in Int /\ j \in Int /\ b \in 0 .. nbits - 1 /\ c \in 0 .. nbits - 1
    BY FixedIs DEF Low
  <2>4. i * nbits \in Int /\ j * nbits \in Int
        /\ (i - 1) * nbits = i * nbits - nbits /\ (j - 1) * nbits = j * nbits - nbits
    BY <2>3
  <2>5. (i - 1) * nbits + (nbits - 1 - b) = (j - 1) * nbits + (nbits - 1 - c)
    BY <2>2, <2>3, <2>4 DEF PlaceOf
  <2>6. i - 1 = j - 1 /\ nbits - 1 - b = nbits - 1 - c
    <3>1. nbits - 1 - b \in 0 .. nbits - 1 /\ nbits - 1 - c \in 0 .. nbits - 1 /\ i - 1 \in Int /\ j - 1 \in Int
      BY <2>3
    <3> QED
      BY <2>3, <2>5, <3>1, Pieces
  <2>7. i = j /\ b = c
    BY <2>3, <2>6
  <2> QED
    BY <2>2, <2>7
<1> QED
  BY <1>1, <1>2

(* The word that holds place q is the one q lies in.                        *)
LEMMA PlaceFound ==
  ASSUME Fixed, NEW p \in Int, NEW x \in 0 .. Width - 1, NEW j \in Int, NEW c \in AllOnes,
         Place(j, c) = (p - 2) * Width + x
  PROVE  j = p /\ c = Width - 1 - x
<1>1. Width \in Nat \ {0} /\ c \in 0 .. Width - 1
  BY FixedIs DEF AllOnes, Low
<1>2. Width - 1 - c \in 0 .. Width - 1 /\ j - 2 \in Int /\ p - 2 \in Int
  BY <1>1
<1>3. (j - 2) * Width + (Width - 1 - c) = (p - 2) * Width + x
  BY DEF Place
<1>4. j - 2 = p - 2 /\ Width - 1 - c = x
  <2> DEFINE a == j - 2
             b == p - 2
             y == Width - 1 - c
  <2>1. a \in Int /\ b \in Int /\ y \in 0 .. Width - 1 /\ a * Width + y = b * Width + x
    BY <1>2, <1>3
  <2> HIDE DEF a, b, y
  <2>2. a = b /\ y = x
    BY <1>1, <2>1, Pieces
  <2> QED
    BY <2>2 DEF a, b, y
<1> QED
  BY <1>1, <1>4

(* The cursor stands before value i: behind it, bits bits of word p are     *)
(* left.                                                                    *)
Before(i, p, bits) ==
  /\ i \in 1 .. Len(vals) /\ p \in Nat \ {0, 1} /\ bits \in 0 .. Width
  /\ (p - 2) * Width + (Width - bits) = (i - 1) * nbits

(* Where the bits of value i are: in word p, or beyond its end in the next. *)
LEMMA PlaceBefore ==
  ASSUME Fixed, NEW i, NEW p, NEW bits, Before(i, p, bits), NEW b \in Low(nbits)
  PROVE  /\ PlaceOf(i, b) = (p - 2) * Width + (Width - bits + nbits - 1 - b)
         /\ PlaceOf(i, b) = (p - 1) * Width + (nbits - 1 - b - bits)
         /\ i * nbits = (p - 2) * Width + (Width - bits + nbits)
<1>1. /\ i \in Int /\ nbits \in Nat /\ b \in Int /\ p \in Int /\ Width \in Nat /\ bits \in Int
      /\ (p - 2) * Width + (Width - bits) = (i - 1) * nbits
  BY FixedIs DEF Before, Low
<1>2. (i - 1) * nbits = i * nbits - nbits /\ i * nbits \in Int
  BY <1>1
<1>3. (p - 1) * Width = (p - 2) * Width + Width /\ (p - 2) * Width \in Int
  BY <1>1
<1> QED
  BY <1>1, <1>2, <1>3 DEF PlaceOf

(* The words value i needs are there.                                       *)
LEMMA WordsThere ==
  ASSUME Fixed, NEW i, NEW p, NEW bits, Before(i, p, bits)
  PROVE  /\ p \in 2 .. Capacity(nbits, Len(vals)) - 1
         /\ bits < nbits => p + 1 \in 2 .. Capacity(nbits, Len(vals)) - 1
<1> DEFINE w == Width
           t == Len(vals) * nbits
<1>1. /\ i \in 1 .. Len(vals) /\ Len(vals) \in Nat /\ nbits \in Nat /\ p \in Nat \ {0, 1}
      /\ w \in Nat \ {0} /\ bits \in 0 .. w
      /\ (p - 2) * w + (w - bits) = (i - 1) * nbits
  BY FixedIs DEF Before
<1>2. (i - 1) * nbits + nbits <= t
  <2>1. Len(vals) - i \in Nat
    BY <1>1
  <2>2. (Len(vals) - i) * nbits \in Nat
    BY <1>1, <2>1
  <2>3. (Len(vals) - i) * nbits = t - (i - 1) * nbits - nbits
    BY <1>1
  <2>4. t \in Int /\ (i - 1) * nbits \in Int
    BY <1>1
  <2> HIDE DEF t
  <2> QED
    BY <1>1, <2>2, <2>3, <2>4
<1>3. t \in Int /\ (i - 1) * nbits \in Int /\ (p - 2) * w \in Int /\ (p + 1 - 2) * w = (p - 2) * w + w
  BY <1>1
<1>4. (p - 2) * w + (w - bits) <= t
  <2> HIDE DEF t, w
  <2> QED
    BY <1>1, <1>2, <1>3
<1>5. p \in 2 .. Capacity(nbits, Len(vals)) - 1
  <2>1. Width - bits \in Nat
    BY <1>1
  <2> QED
    BY <1>1, <1>4, <2>1, WordExists
<1>6. ASSUME bits < nbits PROVE p + 1 \in 2 .. Capacity(nbits, Len(vals)) - 1
  <2> DEFINE next == p + 1
  <2>1. (next - 2) * w + 0 <= t
    <3> HIDE DEF t, w
    <3> QED
      BY <1>1, <1>2, <1>3, <1>6
  <2>2. next \in Nat \ {0, 1}
    BY <1>1
  <2> HIDE DEF next
  <2>3. next \in 2 .. Capacity(nbits, Len(vals)) - 1
    BY <2>1, <2>2, WordExists
  <2> QED
    BY <2>3 DEF next
<1> QED
  BY <1>5, <1>6

-----------------------------------------------------------------------------
(* Reading value i from the words, all of which are filled.                 *)
LEMMA ReadWhole ==
  ASSUME Fixed, Filled(Len(vals)), NEW i, NEW p, NEW bits, Before(i, p, bits), bits >= nbits
  PROVE  Dropped(packed[p], bits - nbits) \cap Low(nbits) = vals[i] \cap Low(nbits)
<1>1. /\ i \in 1 .. Len(vals) /\ Len(vals) \in Nat /\ nbits \in Nat /\ p \in Int
      /\ Width \in Nat \ {0} /\ bits \in 0 .. Width
  BY FixedIs DEF Before
<1>2. p \in DOMAIN packed
  BY WordsThere DEF Filled
<1>3. ASSUME NEW b \in Low(nbits)
      PROVE  b \in Dropped(packed[p], bits - nbits) <=> b \in vals[i]
  <2>1. b \in 0 .. nbits - 1
    BY <1>3 DEF Low
  <2>2. b \in 0 .. Width - 1 - (bits - nbits) /\ b + (bits - nbits) \in AllOnes
    BY <1>1, <2>1 DEF AllOnes, Low
  <2>3. Place(p, b + (bits - nbits)) = PlaceOf(i, b)
    <3>1. PlaceOf(i, b) = (p - 2) * Width + (Width - bits + nbits - 1 - b)
      BY <1>3, PlaceBefore
    <3>2. Width - 1 - (b + (bits - nbits)) = Width - bits + nbits - 1 - b
      BY <1>1, <2>1
    <3> QED
      BY <3>1, <3>2 DEF Place
  <2>4. b + (bits - nbits) \in packed[p] <=> One(PlaceOf(i, b), Len(vals))
    BY <1>2, <2>2, <2>3 DEF Filled
  <2>5. One(PlaceOf(i, b), Len(vals)) <=> b \in vals[i]
    BY <1>1, <1>3, OneAt
  <2> QED
    BY <2>2, <2>4, <2>5 DEF Dropped
<1> QED
  BY <1>3

LEMMA ReadSplit ==
  ASSUME Fixed, Filled(Len(vals)), NEW i, NEW p, NEW bits, Before(i, p, bits), bits < nbits
  PROVE  (Shl(packed[p], nbits - bits) \cap Low(nbits))
           \cup (Dropped(packed[p + 1], Width - (nbits - bits)) \cap Low(nbits))
         = vals[i] \cap Low(nbits)
<1> DEFINE s == nbits - bits
<1>1. /\ i \in 1 .. Len(vals) /\ Len(vals) \in Nat /\ nbits \in Nat /\ p \in Int /\ nbits <= Width
      /\ Width \in Nat \ {0} /\ bits \in 0 .. Width /\ s \in 1 .. nbits
  BY FixedIs DEF Before
<1>2. p \in DOMAIN packed /\ p + 1 \in DOMAIN packed
  BY WordsThere DEF Filled
<1>3. ASSUME NEW b \in Low(nbits)
      PROVE  /\ PlaceOf(i, b) = (p - 2) * Width + (Width - bits + nbits - 1 - b)
             /\ PlaceOf(i, b) = (p - 1) * Width + (nbits - 1 - b - bits)
             /\ One(PlaceOf(i, b), Len(vals)) <=> b \in vals[i]
  <2>1. One(PlaceOf(i, b), Len(vals)) <=> b \in vals[i]
    BY <1>1, <1>3, OneAt
  <2>2. PlaceOf(i, b) = (p - 2) * Width + (Width - bits + nbits - 1 - b)
    BY <1>3, PlaceBefore
  <2>3. PlaceOf(i, b) = (p - 1) * Width + (nbits - 1 - b - bits)
    BY <1>3, PlaceBefore
  <2> QED
    BY <2>1, <2>2, <2>3
<1>4. ASSUME NEW b \in Low(nbits)
      PROVE  b \in Shl(packed[p], s) <=> b >= s /\ b \in vals[i]
  <2>1. b \in 0 .. nbits - 1 /\ b \in AllOnes
    BY <1>1, <1>4 DEF Low, AllOnes
  <2>2. ASSUME b >= s PROVE b - s \in packed[p] <=> b \in vals[i]
    <3>1. b - s \in AllOnes
      BY <1>1, <2>1, <2>2 DEF AllOnes, Low
    <3>2. Place(p, b - s) = PlaceOf(i, b)
      <4>1. Width - 1 - (b - s) = Width - bits + nbits - 1 - b
        BY <1>1, <2>1
      <4> QED
        BY <1>3, <1>4, <4>1 DEF Place
    <3>3. b - s \in packed[p] <=> One(PlaceOf(i, b), Len(vals))
      BY <1>2, <3>1, <3>2 DEF Filled
    <3> QED
      BY <1>3, <1>4, <3>3
  <2>3. packed[p] \subseteq 0 .. Width - 1
    BY <1>2 DEF Filled, AllOnes, Low
  <2>4. b \in Shl(packed[p], s) <=> b >= s /\ b - s \in packed[p]
    <3> HIDE DEF s
    <3>1. ASSUME NEW c \in packed[p], c + s = b PROVE b >= s /\ b - s \in packed[p]
      <4>1. c \in Int /\ c >= 0
        BY <2>3, <3>1
      <4>2. b - s = c
        BY <1>1, <3>1, <4>1
      <4> QED
        BY <1>1, <3>1, <4>1, <4>2
    <3>2. ASSUME b >= s, b - s \in packed[p] PROVE \E c \in packed[p] : c + s = b
      <4>1. (b - s) + s = b
        BY <1>1, <2>1
      <4> QED
        BY <3>2, <4>1
    <3> QED
      BY <2>1, <3>1, <3>2 DEF Shl
  <2> QED
    BY <2>2, <2>4
<1>5. ASSUME NEW b \in Low(nbits)
      PROVE  b \in Dropped(packed[p + 1], Width - s) <=> b < s /\ b \in vals[i]
  <2>1. b \in 0 .. nbits - 1
    BY <1>5 DEF Low
  <2>2. b \in 0 .. Width - 1 - (Width - s) <=> b < s
    BY <1>1, <2>1
  <2>3. ASSUME b < s PROVE b + (Width - s) \in packed[p + 1] <=> b \in vals[i]
    <3>1. b + (Width - s) \in AllOnes
      BY <1>1, <2>1, <2>3 DEF AllOnes, Low
    <3>2. Place(p + 1, b + (Width - s)) = PlaceOf(i, b)
      <4> DEFINE c == b + (Width - s)
                 j == p + 1
      <4>1. Width - 1 - c = nbits - 1 - b - bits /\ j - 2 = p - 1
        BY <1>1, <2>1
      <4>2. Place(j, c) = (p - 1) * Width + (nbits - 1 - b - bits)
        <5> HIDE DEF c, j
        <5> QED
          BY <4>1 DEF Place
      <4> QED
        BY <1>3, <1>5, <4>2, Zenon
    <3>3. b + (Width - s) \in packed[p + 1] <=> One(PlaceOf(i, b), Len(vals))
      BY <1>2, <3>1, <3>2 DEF Filled
    <3> QED
      BY <1>3, <1>5, <3>3
  <2> QED
    BY <2>2, <2>3 DEF Dropped
<1>6. \A b \in Low(nbits) : b >= s \/ b < s
  BY <1>1 DEF Low
<1> QED
  BY <1>4, <1>5, <1>6

LEMMA CommonAdded ==
  ASSUME Fixed, NEW i \in 1 .. Len(vals)
  PROVE  (vals[i] \cap Low(nbits)) \cup common = vals[i]
<1>1. vals[i] \ Low(nbits) = common
  BY FixedIs
<1> QED
  BY <1>1

(* Without unique bits nothing is packed.                                   *)
LEMMA NothingPacked ==
  ASSUME Fixed, NEW m, Filled(m), nbits = 0, NEW p \in DOMAIN packed
  PROVE  packed[p] = {}
<1>1. Low(nbits) = {}
  BY DEF Low
<1>2. packed[p] \subseteq AllOnes
  BY DEF Filled
<1>3. \A c \in AllOnes : c \notin packed[p]
  BY <1>1 DEF Filled, One
<1> QED
  BY <1>2, <1>3

(* What shifting and masking make of the word, with either outcome of a     *)
(* shift by the whole width.                                                *)
LEMMA WholeIsValue ==
  ASSUME Fixed, Filled(Len(vals)), NEW i, NEW p, NEW bits, Before(i, p, bits), bits >= nbits,
         NEW mask, nbits > 0 => mask = Low(nbits),
         NEW v \in Shr(packed[p], bits - nbits)
  PROVE  common \cup (v \cap mask) = vals[i]
<1>1. /\ i \in 1 .. Len(vals) /\ nbits \in Nat /\ Width \in Nat \ {0} /\ bits \in 0 .. Width
  BY FixedIs DEF Before
<1>2. (vals[i] \cap Low(nbits)) \cup common = vals[i]
  BY <1>1, CommonAdded
<1>3. CASE nbits > 0
  <2>1. bits - nbits < Width
    BY <1>1, <1>3
  <2>2. v = Dropped(packed[p], bits - nbits)
    BY <2>1 DEF Shr
  <2>3. v \cap Low(nbits) = vals[i] \cap Low(nbits)
    BY <2>2, ReadWhole
  <2> QED
    BY <1>2, <1>3, <2>3
<1>4. CASE nbits = 0
  <2>1. p \in DOMAIN packed
    BY WordsThere DEF Filled
  <2>2. packed[p] = {}
    BY <1>4, <2>1, NothingPacked
  <2>3. v = {}
    BY <2>2 DEF Shr, Dropped
  <2>4. Low(nbits) = {}
    BY <1>4 DEF Low
  <2> QED
    BY <1>2, <2>3, <2>4
<1> QED
  BY <1>1, <1>3, <1>4

LEMMA SplitIsValue ==
  ASSUME Fixed, Filled(Len(vals)), NEW i, NEW p, NEW bits, Before(i, p, bits), bits < nbits,
         NEW low \in Shr(packed[p + 1], Width - (nbits - bits))
  PROVE  common \cup (Shl(packed[p], nbits - bits) \cap Low(nbits)) \cup (low \cap Low(nbits)) = vals[i]
<1>1. /\ i \in 1 .. Len(vals) /\ nbits \in Nat /\ Width \in Nat \ {0} /\ bits \in 0 .. Width
  BY FixedIs DEF Before
<1>2. (vals[i] \cap Low(nbits)) \cup common = vals[i]
  BY <1>1, CommonAdded
<1>3. Width - (nbits - bits) < Width
  BY <1>1
<1>4. low = Dropped(packed[p + 1], Width - (nbits - bits))
  BY <1>3 DEF Shr
<1>5. (Shl(packed[p], nbits - bits) \cap Low(nbits)) \cup (low \cap Low(nbits)) = vals[i] \cap Low(nbits)
  BY <1>4, ReadSplit
<1> QED
  BY <1>2, <1>5

LEMMA MasksAre ==
  ASSUME Fixed, nbits > 0, NEW mask \in Masks
  PROVE  mask = Low(nbits)
<1>1. nbits \in Nat /\ Width \in Nat \ {0} /\ nbits <= Width
  BY FixedIs
<1>2. Width - nbits < Width
  BY <1>1
<1>3. mask = Dropped(AllOnes, Width - nbits)
  BY <1>2 DEF Masks, Shr
<1>4. \A b : b \in Dropped(AllOnes, Width - nbits) <=> b \in Low(nbits)
  BY <1>1 DEF Dropped, AllOnes, Low
<1> QED
  BY <1>3, <1>4

-----------------------------------------------------------------------------
(* Writing value i.                                                         *)
FilledNext(m) ==
  /\ packed' \in [2 .. Capacity(nbits, Len(vals)) - 1 -> SUBSET AllOnes]
  /\ \A j \in DOMAIN packed' : \A c \in AllOnes : c \in packed'[j] <=> One(Place(j, c), m)

LEMMA OneMore ==
  ASSUME NEW m \in Nat, NEW q
  PROVE  One(q, m + 1) <=> One(q, m) \/ \E b \in Low(nbits) : b \in vals[m + 1] /\ q = PlaceOf(m + 1, b)
<1>1. \A i : i \in 1 .. m + 1 <=> i \in 1 .. m \/ i = m + 1
  OBVIOUS
<1> QED
  BY <1>1 DEF One

LEMMA WriteWhole ==
  ASSUME Fixed, NEW m \in Nat, Filled(m), NEW p, NEW bits, Before(m + 1, p, bits), bits >= nbits,
         packed' = [packed EXCEPT ![p] = @ \cup Shl(vals[m + 1] \cap Low(nbits), bits - nbits)]
  PROVE  FilledNext(m + 1)
<1> DEFINE new == Shl(vals[m + 1] \cap Low(nbits), bits - nbits)
           i == m + 1
<1>1. /\ i \in 1 .. Len(vals) /\ nbits \in Nat /\ p \in Int /\ nbits <= Width
      /\ Width \in Nat \ {0} /\ bits \in 0 .. Width
  BY FixedIs DEF Before
<1>2. p \in DOMAIN packed /\ DOMAIN packed \subseteq Int
  BY WordsThere DEF Filled
<1>3. new \subseteq AllOnes /\ packed' = [packed EXCEPT ![p] = @ \cup new]
  BY DEF Shl
<1>4. packed' \in [2 .. Capacity(nbits, Len(vals)) - 1 -> SUBSET AllOnes]
  <2> HIDE DEF new
  <2> QED
    BY <1>2, <1>3 DEF Filled
<1>5. ASSUME NEW j \in DOMAIN packed, NEW c \in AllOnes, NEW b \in Low(nbits)
      PROVE  Place(j, c) = PlaceOf(i, b) <=> j = p /\ c = b + (bits - nbits)
  <2> DEFINE x == Width - bits + nbits - 1 - b
  <2>1. b \in 0 .. nbits - 1 /\ c \in 0 .. Width - 1
    BY <1>5 DEF Low, AllOnes
  <2>2. x \in 0 .. Width - 1 /\ Width - 1 - x = b + (bits - nbits)
    BY <1>1, <2>1
  <2>3. PlaceOf(i, b) = (p - 2) * Width + x
    BY <1>5, PlaceBefore
  <2> HIDE DEF x
  <2>4. ASSUME Place(j, c) = PlaceOf(i, b) PROVE j = p /\ c = Width - 1 - x
    <3>1. j \in Int /\ Place(j, c) = (p - 2) * Width + x
      BY <1>2, <1>5, <2>3, <2>4
    <3> QED
      BY <1>1, <1>5, <2>2, <3>1, PlaceFound
  <2>5. ASSUME j = p, c = Width - 1 - x PROVE Place(j, c) = PlaceOf(i, b)
    <3>1. Width - 1 - c = x
      BY <1>1, <2>1, <2>2, <2>5
    <3> QED
      BY <2>3, <2>5, <3>1 DEF Place
  <2> QED
    BY <2>2, <2>4, <2>5
<1>6. ASSUME NEW c \in AllOnes
      PROVE  c \in new <=> \E b \in Low(nbits) : b \in vals[i] /\ c = b + (bits - nbits)
  BY <1>6 DEF Shl
<1>7. ASSUME NEW j \in DOMAIN packed, NEW c \in AllOnes
      PROVE  c \in packed'[j] <=> One(Place(j, c), m + 1)
  <2>1. c \in packed[j] <=> One(Place(j, c), m)
    BY <1>7 DEF Filled
  <2>2. (\E b \in Low(nbits) : b \in vals[i] /\ Place(j, c) = PlaceOf(i, b)) <=> j = p /\ c \in new
    <3> HIDE DEF new, i
    <3> QED
      BY <1>5, <1>6, <1>7
  <2>3. c \in packed'[j] <=> c \in packed[j] \/ (j = p /\ c \in new)
    <3> HIDE DEF new
    <3> QED
      BY <1>2, <1>3, <1>7 DEF Filled
  <2> QED
    BY <2>1, <2>2, <2>3, OneMore
<1>8. DOMAIN packed' = DOMAIN packed
  BY <1>4 DEF Filled
<1> QED
  BY <1>4, <1>7, <1>8 DEF FilledNext

(* A bit that does not fit the rest of a word lands in the next one.        *)
LEMMA OverTheEdge ==
  ASSUME NEW width \in Nat, NEW n \in Nat, n <= width, NEW bits \in 0 .. width,
         NEW b \in 0 .. n - 1, b < n - bits
  PROVE  /\ n - 1 - b - bits \in 0 .. width - 1
         /\ width - 1 - (n - 1 - b - bits) = b + (width - (n - bits))
OBVIOUS

LEMMA WriteSplit ==
  ASSUME Fixed, NEW m \in Nat, Filled(m), NEW p, NEW bits, Before(m + 1, p, bits), bits < nbits,
         packed' = [packed EXCEPT
           ![p]     = @ \cup Dropped(vals[m + 1] \cap Low(nbits), nbits - bits),
           ![p + 1] = @ \cup Shl(vals[m + 1] \cap Low(nbits), Width - (nbits - bits))]
  PROVE  FilledNext(m + 1)
<1> DEFINE s == nbits - bits
           v == vals[m + 1] \cap Low(nbits)
           upper == Dropped(v, s)
           lower == Shl(v, Width - s)
           i == m + 1
<1>1. /\ i \in 1 .. Len(vals) /\ nbits \in Nat /\ p \in Int /\ nbits <= Width
      /\ Width \in Nat \ {0} /\ bits \in 0 .. Width /\ s \in 1 .. nbits
  BY FixedIs DEF Before
<1>2. p \in DOMAIN packed /\ p + 1 \in DOMAIN packed /\ DOMAIN packed \subseteq Int /\ p + 1 # p
  BY <1>1, WordsThere DEF Filled
<1>3. /\ upper \subseteq AllOnes /\ lower \subseteq AllOnes
      /\ packed' = [packed EXCEPT ![p] = @ \cup upper, ![p + 1] = @ \cup lower]
  <2>1. \A b \in 0 .. Width - 1 - s : b \in 0 .. Width - 1
    BY <1>1
  <2> QED
    BY <2>1 DEF Shl, Dropped, AllOnes, Low
<1>4. packed' \in [2 .. Capacity(nbits, Len(vals)) - 1 -> SUBSET AllOnes]
  <2> HIDE DEF upper, lower
  <2> QED
    BY <1>2, <1>3 DEF Filled
<1>5. ASSUME NEW j \in DOMAIN packed, NEW c \in AllOnes, NEW b \in Low(nbits)
      PROVE  Place(j, c) = PlaceOf(i, b) <=> \/ b >= s /\ j = p /\ c = b - s
                                             \/ b < s /\ j = p + 1 /\ c = b + (Width - s)
  <2>1. b \in 0 .. nbits - 1 /\ c \in 0 .. Width - 1
    BY <1>5 DEF Low, AllOnes
  <2>2. CASE b >= s
    <3> DEFINE x == Width - bits + nbits - 1 - b
    <3>1. x \in 0 .. Width - 1 /\ Width - 1 - x = b - s
      <4>1. /\ Width \in Nat /\ nbits \in Nat /\ bits \in 0 .. Width /\ b \in 0 .. nbits - 1
            /\ nbits - bits <= b
        BY <1>1, <2>1, <2>2
      <4> QED
        BY <4>1
    <3>2. PlaceOf(i, b) = (p - 2) * Width + x
      BY <1>5, PlaceBefore
    <3> HIDE DEF x
    <3>3. ASSUME Place(j, c) = PlaceOf(i, b) PROVE j = p /\ c = Width - 1 - x
      <4>1. j \in Int /\ Place(j, c) = (p - 2) * Width + x
        BY <1>2, <1>5, <3>2, <3>3
      <4> QED
        BY <1>1, <1>5, <3>1, <4>1, PlaceFound, Zenon
    <3>4. ASSUME j = p, c = Width - 1 - x PROVE Place(j, c) = PlaceOf(i, b)
      <4>1. Width - 1 - c = x
        BY <1>1, <2>1, <3>1, <3>4
      <4> QED
        BY <3>2, <3>4, <4>1 DEF Place
    <3>5. ~ (b < s)
      BY <1>1, <2>1, <2>2
    <3> QED
      BY <2>2, <3>1, <3>3, <3>4, <3>5
  <2>3. CASE b < s
    <3> DEFINE x == nbits - 1 - b - bits
               r == p + 1
    <3>0. x \in 0 .. Width - 1 /\ Width - 1 - x = b + (Width - s)
      <4>1. Width \in Nat /\ b < nbits - bits /\ b \in 0 .. nbits - 1 /\ bits \in 0 .. Width
        BY <1>1, <2>1, <2>3
      <4>2. nbits \in Nat /\ nbits <= Width
        BY <1>1
      <4> HIDE DEF s
      <4>3. /\ nbits - 1 - b - bits \in 0 .. Width - 1
            /\ Width - 1 - (nbits - 1 - b - bits) = b + (Width - (nbits - bits))
        BY <4>1, <4>2, OverTheEdge, Zenon
      <4> QED
        BY <4>3, Zenon DEF s, x
    <3>1. x \in 0 .. Width - 1 /\ Width - 1 - x = b + (Width - s) /\ r \in Int /\ r - 2 = p - 1
      BY <1>1, <3>0
    <3>2. PlaceOf(i, b) = (r - 2) * Width + x
      <4>1. PlaceOf(i, b) = (p - 1) * Width + (nbits - 1 - b - bits)
        BY <1>5, PlaceBefore
      <4> HIDE DEF r
      <4> QED
        BY <3>1, <4>1
    <3> HIDE DEF x, r
    <3>3. ASSUME Place(j, c) = PlaceOf(i, b) PROVE j = r /\ c = Width - 1 - x
      <4>1. j \in Int /\ Place(j, c) = (r - 2) * Width + x
        BY <1>2, <1>5, <3>2, <3>3
      <4> QED
        BY <1>5, <3>1, <4>1, PlaceFound, Zenon
    <3>4. ASSUME j = r, c = Width - 1 - x PROVE Place(j, c) = PlaceOf(i, b)
      <4>1. Width - 1 - c = x
        BY <1>1, <2>1, <3>1, <3>4
      <4> QED
        BY <3>2, <3>4, <4>1 DEF Place
    <3>5. ~ (b >= s)
      BY <1>1, <2>1, <2>3
    <3> QED
      BY <2>3, <3>1, <3>3, <3>4, <3>5 DEF r
  <2> QED
    BY <1>1, <2>1, <2>2, <2>3
<1>6. ASSUME NEW c \in AllOnes
      PROVE  /\ c \in upper <=> \E b \in Low(nbits) : b \in vals[i] /\ b >= s /\ c = b - s
             /\ c \in lower <=> \E b \in Low(nbits) : b \in vals[i] /\ b < s /\ c = b + (Width - s)
  <2>1. c \in 0 .. Width - 1
    BY <1>6 DEF AllOnes, Low
  <2>2. c \in upper <=> c + s \in Low(nbits) /\ c + s \in vals[i]
    <3>1. c + s \in Low(nbits) => c \in 0 .. Width - 1 - s
      BY <1>1, <2>1 DEF Low
    <3> QED
      BY <3>1 DEF Dropped
  <2>3. c \in upper <=> \E b \in Low(nbits) : b \in vals[i] /\ b >= s /\ c = b - s
    <3> HIDE DEF upper, s, i
    <3>1. c + s >= s /\ c = (c + s) - s
      BY <1>1, <2>1
    <3>2. \A b \in Low(nbits) : c = b - s => b = c + s
      BY <1>1 DEF Low
    <3> QED
      BY <2>2, <3>1, <3>2
  <2>4. c \in lower <=> \E b \in Low(nbits) : b \in vals[i] /\ c = b + (Width - s)
    BY <1>6 DEF Shl
  <2>5. \A b \in Low(nbits) : c = b + (Width - s) => b < s
    BY <1>1, <2>1 DEF Low
  <2>6. c \in lower <=> \E b \in Low(nbits) : b \in vals[i] /\ b < s /\ c = b + (Width - s)
    <3> HIDE DEF lower, s, i
    <3> QED
      BY <2>4, <2>5
  <2> QED
    BY <2>3, <2>6
<1>7. ASSUME NEW j \in DOMAIN packed, NEW c \in AllOnes
      PROVE  c \in packed'[j] <=> One(Place(j, c), m + 1)
  <2>1. c \in packed[j] <=> One(Place(j, c), m)
    BY <1>7 DEF Filled
  <2>2. (\E b \in Low(nbits) : b \in vals[i] /\ Place(j, c) = PlaceOf(i, b))
          <=> (j = p /\ c \in upper) \/ (j = p + 1 /\ c \in lower)
    <3> HIDE DEF upper, lower, i, s
    <3> QED
      BY <1>5, <1>6, <1>7
  <2>3. c \in packed'[j] <=> c \in packed[j] \/ (j = p /\ c \in upper) \/ (j = p + 1 /\ c \in lower)
    <3> HIDE DEF upper, lower
    <3> QED
      BY <1>2, <1>3, <1>7 DEF Filled
  <2> QED
    BY <2>1, <2>2, <2>3, OneMore
<1>8. DOMAIN packed' = DOMAIN packed
  BY <1>4 DEF Filled
<1> QED
  BY <1>4, <1>7, <1>8 DEF FilledNext

-----------------------------------------------------------------------------
(* The invariant holds at the start: pc_bytes_sigbits_count stops at the    *)
(* first shift after which the two words agree.                             *)
LEMMA Agreeing ==
  ASSUME size \in Nat \ {0}, Width \in Nat \ {0}, NEW k \in 0 .. Width
  PROVE  AgreeAfter(k) <=> \A c \in AllOnes : c >= k => (c \in elem_and <=> c \in elem_or)
<1>1. ASSUME AgreeAfter(k), NEW c \in AllOnes, c >= k PROVE c \in elem_and <=> c \in elem_or
  <2>1. c - k \in 0 .. Width - 1 - k /\ (c - k) + k = c
    BY <1>1 DEF AllOnes, Low
  <2>2. \A x : c - k \in Dropped(x, k) <=> c \in x
    BY <2>1 DEF Dropped
  <2> QED
    BY <1>1, <2>2 DEF AgreeAfter
<1>2. ASSUME \A c \in AllOnes : c >= k => (c \in elem_and <=> c \in elem_or) PROVE AgreeAfter(k)
  <2>1. \A b \in 0 .. Width - 1 - k : b + k \in AllOnes /\ b + k >= k
    BY DEF AllOnes, Low
  <2> QED
    BY <1>2, <2>1 DEF AgreeAfter, Dropped
<1> QED
  BY <1>1, <1>2

LEMMA HeadAtStart ==
  ASSUME Init
  PROVE  Fixed
<1>1. size \in Sizes /\ size \in Nat \ {0} /\ ByteBits \in Nat \ {0}
  BY SizesAssumption DEF Init
<1>2. Width \in Nat \ {0}
  BY <1>1 DEF Width
<1>3. PICK n \in 1 .. MaxPoints : vals \in [1 .. n -> Val[size]]
  BY DEF Init
<1>4. Val[size] \subseteq SUBSET AllOnes
  BY <1>1, ValAssumption DEF AllOnes, Low, Width
<1>5. DOMAIN vals = 1 .. n /\ 1 \in DOMAIN vals /\ \A i \in DOMAIN vals : vals[i] \subseteq AllOnes
  BY <1>3, <1>4, SizesAssumption
<1> DEFINE K == {k \in 0 .. Width : AgreeAfter(k)}
<1>6. nbits \in K /\ \A k \in K : nbits <= k
  <2>1. Width \in K
    <3>1. \A c \in AllOnes : ~ (c >= Width)
      BY <1>2 DEF AllOnes, Low
    <3>2. Width \in 0 .. Width
      BY <1>2
    <3> QED
      BY <1>1, <1>2, <3>1, <3>2, Agreeing
  <2>2. K \subseteq Nat
    BY <1>2
  <2>3. nbits = Min(K)
    BY DEF Init, UniqueBits
  <2> HIDE DEF K
  <2>4. PICK m \in K : \A y \in K : m <= y
    BY <2>1, <2>2, LeastNat
  <2>5. K \in SUBSET Int
    BY <2>2
  <2>6. Min(K) = m
    BY <2>4, <2>5, MinIs
  <2> QED
    BY <2>3, <2>4, <2>6
<1>7. nbits \in 0 .. Width /\ \A c \in AllOnes : c >= nbits => (c \in elem_and <=> c \in elem_or)
  BY <1>1, <1>2, <1>6, Agreeing
<1>8. common = elem_and \ Low(nbits)
  <2>1. common = Shl(Dropped(elem_and, nbits), nbits)
    BY DEF Init, CommonOf
  <2>2. ASSUME NEW c \in common PROVE c \in elem_and \ Low(nbits)
    <3>1. PICK b \in Dropped(elem_and, nbits) : c = b + nbits
      BY <2>1, <2>2 DEF Shl
    <3>2. b \in 0 .. Width - 1 - nbits /\ c \in elem_and
      BY <3>1 DEF Dropped
    <3> QED
      BY <1>2, <1>7, <3>1, <3>2 DEF Low
  <2>3. ASSUME NEW c \in elem_and \ Low(nbits) PROVE c \in common
    <3>1. c \in AllOnes /\ c \in 0 .. Width - 1
      BY <2>3 DEF elem_and, AllOnes, Low
    <3>2. c - nbits \in 0 .. Width - 1 - nbits /\ (c - nbits) + nbits = c
      BY <1>2, <1>7, <2>3, <3>1 DEF Low
    <3>3. c - nbits \in Dropped(elem_and, nbits)
      BY <2>3, <3>2 DEF Dropped
    <3> QED
      BY <2>1, <3>1, <3>2, <3>3 DEF Shl
  <2> QED
    BY <2>2, <2>3
<1>9. ASSUME NEW i \in DOMAIN vals PROVE vals[i] \ Low(nbits) = common
  <2>1. ASSUME NEW c \in AllOnes, c \notin Low(nbits) PROVE c \in vals[i] <=> c \in elem_and
    <3>1. c >= nbits
      BY <1>2, <1>7, <2>1 DEF AllOnes, Low
    <3>2. c \in vals[i] => c \in elem_or
      BY <2>1 DEF elem_or
    <3>3. c \in elem_and => c \in vals[i]
      BY DEF elem_and
    <3> QED
      BY <1>7, <2>1, <3>1, <3>2, <3>3
  <2>2. vals[i] \subseteq AllOnes /\ elem_and \subseteq AllOnes
    BY <1>5 DEF elem_and
  <2> QED
    BY <1>8, <2>1, <2>2
<1>10. ASSUME nbits > 0
       PROVE  \E i, j \in DOMAIN vals : vals[i] \ Low(nbits - 1) # vals[j] \ Low(nbits - 1)
  <2>1. nbits - 1 \in 0 .. Width /\ nbits - 1 \notin K
    BY <1>2, <1>6, <1>10
  <2>2. ~ AgreeAfter(nbits - 1)
    BY <2>1
  <2>3. PICK c \in AllOnes : c >= nbits - 1 /\ ~ (c \in elem_and <=> c \in elem_or)
    <3> DEFINE h == nbits - 1
    <3>1. h \in 0 .. Width /\ ~ AgreeAfter(h)
      BY <2>1, <2>2
    <3> HIDE DEF h
    <3>2. \E c \in AllOnes : c >= h /\ ~ (c \in elem_and <=> c \in elem_or)
      BY <1>1, <1>2, <3>1, Agreeing
    <3> QED
      BY <3>2 DEF h
  <2>4. c \in elem_and => c \in elem_or
    BY <1>5 DEF elem_and, elem_or
  <2>5. (\E i \in DOMAIN vals : c \in vals[i]) /\ \E j \in DOMAIN vals : c \notin vals[j]
    BY <2>3, <2>4 DEF elem_and, elem_or
  <2>6. c \notin Low(nbits - 1)
    BY <1>2, <1>7, <2>3 DEF AllOnes, Low
  <2> QED
    BY <2>5, <2>6
<1> QED
  BY <1>7, <1>9, <1>10 DEF Fixed, HeadExact, Init

LEMMA InvAtStart ==
  ASSUME Init
  PROVE  SigInv
<1>1. Fixed
  BY HeadAtStart
<1>2. /\ Width \in Nat \ {0} /\ nbits \in Nat /\ Len(vals) \in Nat /\ vals \in Seq(SUBSET AllOnes)
      /\ Capacity(nbits, Len(vals)) \in Nat
  BY <1>1, FixedIs, Room
<1>3. ptr = 2 /\ bit = Width /\ out = <<>> /\ Len(out) = 0
      /\ packed = [i \in 2 .. Capacity(nbits, Len(vals)) - 1 |-> {}]
      /\ phase = IF nbits = 0 THEN "decode" ELSE "encode"
  BY DEF Init
<1>4. Cursor
  <2>1. (ptr - 2) * Width = 0 /\ Len(out) * nbits = 0 /\ Width - bit = 0
    BY <1>2, <1>3
  <2> QED
    BY <1>2, <1>3, <2>1 DEF Cursor, Gapless
<1>5. ASSUME NEW m, \A q : ~ One(q, m) PROVE Filled(m)
  BY <1>3, <1>5 DEF Filled
<1>6. Filled(IF phase = "encode" THEN Len(out) ELSE Len(vals))
  <2>1. CASE nbits = 0
    <3>1. Low(nbits) = {}
      BY <2>1 DEF Low
    <3> QED
      BY <1>5, <3>1 DEF One
  <2>2. CASE nbits # 0
    <3>1. phase = "encode" /\ 1 .. Len(out) = {}
      BY <1>3, <2>2
    <3> QED
      BY <1>5, <3>1 DEF One
  <2> QED
    BY <2>1, <2>2
<1>7. out = SubSeq(vals, 1, Len(out)) /\ Len(out) \in 0 .. Len(vals)
  BY <1>2, <1>3, Beginnings
<1>8. phase \in {"encode", "decode"}
  BY <1>3
<1> QED
  BY <1>1, <1>4, <1>6, <1>7, <1>8 DEF SigInv

-----------------------------------------------------------------------------
(* The cursor after value i.                                                *)
After(i, p, bits) ==
  /\ p \in Nat \ {0, 1} /\ bits \in 0 .. Width
  /\ (p - 2) * Width + (Width - bits) = i * nbits

LEMMA BeforeNow ==
  ASSUME SigInv, More
  PROVE  Before(Len(out) + 1, ptr, bit)
<1>1. Len(out) \in Nat /\ Len(vals) \in Nat /\ Len(out) < Len(vals) /\ Fixed /\ Cursor
  BY FixedIs DEF SigInv, More
<1>2. Len(out) + 1 \in 1 .. Len(vals) /\ Len(out) + 1 - 1 = Len(out)
  BY <1>1
<1> QED
  BY <1>1, <1>2 DEF Before, Cursor, Gapless

(* Where the cursor comes to stand.                                         *)
LEMMA MovesOn ==
  ASSUME Fixed, NEW i, NEW p, NEW bits, Before(i, p, bits)
  PROVE  /\ bits >= nbits => After(i, p, bits - nbits)
         /\ bits = nbits => After(i, p + 1, Width)
         /\ bits < nbits => After(i, p + 1, Width - (nbits - bits))
<1> DEFINE w == Width
<1>1. /\ i \in Int /\ nbits \in Nat /\ nbits <= w /\ p \in Nat \ {0, 1} /\ w \in Nat \ {0} /\ bits \in 0 .. w
      /\ (p - 2) * w + (w - bits) = (i - 1) * nbits
  BY FixedIs DEF Before
<1>2. /\ (i - 1) * nbits = i * nbits - nbits /\ i * nbits \in Int
      /\ (p + 1 - 2) * w = (p - 2) * w + w /\ (p - 2) * w \in Int
  BY <1>1
<1> HIDE DEF w
<1>3. ASSUME bits >= nbits
      PROVE  bits - nbits \in 0 .. w /\ (p - 2) * w + (w - (bits - nbits)) = i * nbits
  BY <1>1, <1>2, <1>3
<1>4. ASSUME bits = nbits
      PROVE  w \in 0 .. w /\ (p + 1 - 2) * w + (w - w) = i * nbits
  BY <1>1, <1>2, <1>4
<1>5. ASSUME bits < nbits
      PROVE  w - (nbits - bits) \in 0 .. w /\ (p + 1 - 2) * w + (w - (w - (nbits - bits))) = i * nbits
  BY <1>1, <1>2, <1>5
<1>6. p + 1 \in Nat \ {0, 1}
  BY <1>1
<1> QED
  BY <1>1, <1>3, <1>4, <1>5, <1>6 DEF After, w

(* What a step must establish for the invariant to hold after it.           *)
LEMMA InvAfter ==
  ASSUME SigInv, More, UNCHANGED <<size, vals, phase, nbits, common>>,
         out' = Append(out, vals[Len(out) + 1]),
         NEW p, NEW bits, After(Len(out) + 1, p, bits), ptr' = p, bit' = bits,
         IF phase = "encode" THEN FilledNext(Len(out) + 1) ELSE packed' = packed
  PROVE  SigInv'
<1>1. /\ Fixed /\ Len(out) \in Nat /\ Len(out) + 1 \in 1 .. Len(vals) /\ Len(vals) \in Nat
      /\ vals \in Seq(SUBSET AllOnes) /\ out = SubSeq(vals, 1, Len(out))
  BY FixedIs, BeforeNow DEF SigInv, Before
<1>2. Width' = Width
  BY DEF Width
<1>3. out' = SubSeq(vals, 1, Len(out) + 1) /\ Len(out') = Len(out) + 1
  <2> DEFINE k == Len(out) + 1
  <2>1. k \in 1 .. Len(vals) /\ k \in 0 .. Len(vals) /\ k - 1 = Len(out)
    BY <1>1
  <2>2. SubSeq(vals, 1, k) = Append(SubSeq(vals, 1, k - 1), vals[k]) /\ Len(SubSeq(vals, 1, k)) = k
    <3> HIDE DEF k
    <3> QED
      BY <1>1, <2>1, Beginnings
  <2>3. out' = SubSeq(vals, 1, k)
    BY <1>1, <2>1, <2>2
  <2> QED
    BY <2>2, <2>3
<1>4. Fixed'
  BY <1>1, <1>2 DEF Fixed, HeadExact, Low
<1>5. Cursor'
  BY <1>2, <1>3 DEF After, Cursor, Gapless
<1>6. (Filled(IF phase = "encode" THEN Len(out) ELSE Len(vals)))'
  <2>1. CASE phase = "encode"
    <3>1. phase' = "encode" /\ FilledNext(Len(out'))
      BY <1>3, <2>1
    <3> QED
      BY <1>2, <3>1 DEF Filled, FilledNext, Capacity, AllOnes, Low, Place, PlaceOf, One
  <2>2. CASE phase # "encode"
    <3>1. phase' # "encode" /\ Filled(Len(vals)) /\ packed' = packed
      BY <2>2 DEF SigInv
    <3> QED
      BY <1>2, <3>1 DEF Filled, Capacity, AllOnes, Low, Place, PlaceOf, One
  <2> QED
    BY <2>1, <2>2
<1>7. (Len(out) \in 0 .. Len(vals) /\ out = SubSeq(vals, 1, Len(out)))'
  BY <1>1, <1>3
<1>8. (phase \in {"encode", "decode"})'
  BY DEF SigInv
<1> QED
  BY <1>4, <1>5, <1>6, <1>7, <1>8 DEF SigInv

LEMMA EncodeWholeKeeps ==
  ASSUME SigInv, EncodeWhole
  PROVE  SigInv'
<1> DEFINE m == Len(out)
<1>1. /\ More /\ bit >= nbits /\ phase = "encode" /\ Current = vals[m + 1]
      /\ UNCHANGED <<size, vals, phase, nbits, common>> /\ out' = Append(out, vals[m + 1])
      /\ packed' = [packed EXCEPT ![ptr] = @ \cup Shl(vals[m + 1] \cap Low(nbits), bit - nbits)]
  BY DEF EncodeWhole, Current
<1>2. Before(m + 1, ptr, bit)
  BY <1>1, BeforeNow
<1>3. Fixed /\ Filled(m) /\ m \in Nat /\ nbits \in Int /\ bit \in Int
  BY <1>1, FixedIs DEF SigInv, Cursor
<1>4. FilledNext(m + 1)
  <2> HIDE DEF m
  <2> QED
    BY <1>1, <1>2, <1>3, WriteWhole
<1>5. \E p, bits : After(m + 1, p, bits) /\ ptr' = p /\ bit' = bits
  <2>1. Advance(bit - nbits)
    BY DEF EncodeWhole
  <2>2. CASE bit = nbits
    <3>1. bit - nbits = 0 /\ After(m + 1, ptr + 1, Width)
      BY <1>2, <1>3, <2>2, MovesOn
    <3> QED
      BY <2>1, <3>1 DEF Advance
  <2>3. CASE bit # nbits
    <3>1. bit - nbits # 0 /\ After(m + 1, ptr, bit - nbits)
      BY <1>1, <1>2, <1>3, <2>3, MovesOn
    <3> QED
      BY <2>1, <3>1 DEF Advance
  <2> QED
    BY <2>2, <2>3
<1> QED
  BY <1>1, <1>4, <1>5, InvAfter

LEMMA EncodeSplitKeeps ==
  ASSUME SigInv, EncodeSplit
  PROVE  SigInv'
<1> DEFINE m == Len(out)
<1>1. /\ More /\ bit < nbits /\ phase = "encode" /\ Current = vals[m + 1]
      /\ UNCHANGED <<size, vals, phase, nbits, common>> /\ out' = Append(out, vals[m + 1])
      /\ packed' = [packed EXCEPT
           ![ptr]     = @ \cup Dropped(vals[m + 1] \cap Low(nbits), nbits - bit),
           ![ptr + 1] = @ \cup Shl(vals[m + 1] \cap Low(nbits), Width - (nbits - bit))]
      /\ ptr' = ptr + 1 /\ bit' = Width - (nbits - bit)
  BY DEF EncodeSplit, Current
<1>2. Before(m + 1, ptr, bit)
  BY <1>1, BeforeNow
<1>3. Fixed /\ Filled(m) /\ m \in Nat
  BY <1>1, FixedIs DEF SigInv
<1>4. FilledNext(m + 1)
  <2> HIDE DEF m
  <2> QED
    BY <1>1, <1>2, <1>3, WriteSplit
<1>5. After(m + 1, ptr + 1, Width - (nbits - bit))
  BY <1>1, <1>2, <1>3, MovesOn
<1> QED
  BY <1>1, <1>4, <1>5, InvAfter

LEMMA StartDecodingKeeps ==
  ASSUME SigInv, StartDecoding
  PROVE  SigInv'
<1>1. /\ phase = "encode" /\ ~ More /\ phase' = "decode" /\ ptr' = 2 /\ bit' = Width /\ out' = <<>>
      /\ UNCHANGED <<size, vals, nbits, common, packed>>
  BY DEF StartDecoding
<1>2. /\ Fixed /\ Width \in Nat \ {0} /\ nbits \in Nat /\ Len(vals) \in Nat /\ Len(out) = Len(vals)
      /\ vals \in Seq(SUBSET AllOnes)
  <2>1. Fixed /\ Len(out) \in 0 .. Len(vals) /\ ~ (Len(out) < Len(vals))
    BY <1>1 DEF SigInv, More
  <2>2. Width \in Nat \ {0} /\ nbits \in Nat /\ Len(vals) \in Nat /\ vals \in Seq(SUBSET AllOnes)
    BY <2>1, FixedIs
  <2>3. Len(out) = Len(vals)
    BY <2>1, <2>2
  <2> QED
    BY <2>1, <2>2, <2>3
<1>3. Width' = Width
  BY <1>1 DEF Width
<1>4. Fixed'
  BY <1>1, <1>2, <1>3 DEF Fixed, HeadExact, Low
<1>5. Cursor'
  <2>1. (2 - 2) * Width + (Width - Width) = 0 /\ Len(out') = 0 /\ 0 * nbits = 0
    BY <1>1, <1>2
  <2> QED
    BY <1>1, <1>2, <1>3, <2>1 DEF Cursor, Gapless
<1>6. (Filled(IF phase = "encode" THEN Len(out) ELSE Len(vals)))'
  <2>1. Filled(Len(vals))
    BY <1>1, <1>2 DEF SigInv
  <2> QED
    BY <1>1, <1>3, <2>1 DEF Filled, Capacity, AllOnes, Low, Place, PlaceOf, One
<1>7. (Len(out) \in 0 .. Len(vals) /\ out = SubSeq(vals, 1, Len(out)))'
  BY <1>1, <1>2, Beginnings
<1> QED
  BY <1>1, <1>4, <1>5, <1>6, <1>7 DEF SigInv

(* The decoder's masks and shifts give the value that was encoded.          *)
LEMMA DecodeWholeKeeps ==
  ASSUME SigInv, DecodeWhole
  PROVE  SigInv'
<1> DEFINE m == Len(out)
<1>1. /\ More /\ bit >= nbits /\ phase = "decode" /\ UNCHANGED <<size, vals, phase, nbits, common, packed>>
  BY DEF DecodeWhole
<1>2. Before(m + 1, ptr, bit)
  BY <1>1, BeforeNow
<1>3. Fixed /\ Filled(Len(vals)) /\ nbits \in Nat /\ bit \in Int
  BY <1>1, FixedIs DEF SigInv, Cursor
<1>4. out' = Append(out, vals[m + 1])
  <2>1. PICK mask \in Masks, v \in Shr(packed[ptr], bit - nbits) : out' = Append(out, (v \cap mask) \cup common)
    BY DEF DecodeWhole
  <2>2. nbits > 0 => mask = Low(nbits)
    BY <1>3, <2>1, MasksAre
  <2>3. common \cup (v \cap mask) = vals[m + 1]
    <3> DEFINE i == m + 1
    <3>1. Before(i, ptr, bit)
      BY <1>2
    <3> HIDE DEF i
    <3>2. common \cup (v \cap mask) = vals[i]
      BY <1>1, <1>3, <2>1, <2>2, <3>1, WholeIsValue
    <3> QED
      BY <3>2 DEF i
  <2>4. (v \cap mask) \cup common = common \cup (v \cap mask)
    OBVIOUS
  <2> QED
    BY <2>1, <2>3, <2>4
<1>5. \E p, bits : After(m + 1, p, bits) /\ ptr' = p /\ bit' = bits
  <2>1. IF size = 1 THEN ptr' = ptr /\ bit' = bit - nbits ELSE Advance(bit - nbits)
    BY DEF DecodeWhole
  <2>2. After(m + 1, ptr, bit - nbits)
    BY <1>1, <1>2, <1>3, MovesOn
  <2>3. CASE size # 1 /\ bit = nbits
    <3>1. bit - nbits = 0 /\ After(m + 1, ptr + 1, Width)
      BY <1>2, <1>3, <2>3, MovesOn
    <3> QED
      BY <2>1, <2>3, <3>1 DEF Advance
  <2>4. CASE size # 1 /\ bit # nbits
    <3>1. bit - nbits # 0
      BY <1>3, <2>4
    <3> QED
      BY <2>1, <2>2, <2>4, <3>1 DEF Advance
  <2>5. CASE size = 1
    BY <2>1, <2>2, <2>5
  <2> QED
    BY <2>3, <2>4, <2>5
<1> QED
  BY <1>1, <1>4, <1>5, InvAfter

LEMMA DecodeSplitKeeps ==
  ASSUME SigInv, DecodeSplit
  PROVE  SigInv'
<1> DEFINE m == Len(out)
           i == m + 1
<1>1. /\ More /\ bit < nbits /\ phase = "decode" /\ UNCHANGED <<size, vals, phase, nbits, common, packed>>
      /\ ptr' = ptr + 1 /\ bit' = Width - (nbits - bit)
  BY DEF DecodeSplit
<1>2. Before(i, ptr, bit)
  BY <1>1, BeforeNow
<1>3. Fixed /\ Filled(Len(vals)) /\ nbits \in Nat /\ bit \in Nat
  BY <1>1, FixedIs DEF SigInv, Cursor
<1>4. out' = Append(out, vals[i])
  <2>1. PICK mask \in Masks, low \in Shr(packed[ptr + 1], Width - (nbits - bit)) :
          out' = Append(out, (Shl(packed[ptr], nbits - bit) \cap mask) \cup common \cup (low \cap mask))
    BY DEF DecodeSplit
  <2>2. nbits > 0
    BY <1>1, <1>3
  <2>3. mask = Low(nbits)
    BY <1>3, <2>1, <2>2, MasksAre
  <2> HIDE DEF i
  <2>4. common \cup (Shl(packed[ptr], nbits - bit) \cap Low(nbits)) \cup (low \cap Low(nbits)) = vals[i]
    BY <1>1, <1>2, <1>3, <2>1, SplitIsValue
  <2>5. (Shl(packed[ptr], nbits - bit) \cap mask) \cup common \cup (low \cap mask) = vals[i]
    BY <2>3, <2>4
  <2> QED
    BY <2>1, <2>5
<1>5. After(i, ptr + 1, Width - (nbits - bit))
  <2> HIDE DEF i
  <2> QED
    BY <1>1, <1>2, <1>3, MovesOn
<1> QED
  BY <1>1, <1>4, <1>5, InvAfter

LEMMA InvKept ==
  ASSUME SigInv, [Next]_vars
  PROVE  SigInv'
<1>1. CASE EncodeWhole
  BY <1>1, EncodeWholeKeeps
<1>2. CASE EncodeSplit
  BY <1>2, EncodeSplitKeeps
<1>3. CASE StartDecoding
  BY <1>3, StartDecodingKeeps
<1>4. CASE DecodeWhole
  BY <1>4, DecodeWholeKeeps
<1>5. CASE DecodeSplit
  BY <1>5, DecodeSplitKeeps
<1>6. CASE UNCHANGED vars
  <2>1. UNCHANGED <<size, vals, phase, nbits, common, packed, ptr, bit, out>>
    BY <1>6 DEF vars
  <2>2. Width' = Width
    BY <2>1 DEF Width
  <2>3. Fixed'
    BY <2>1, <2>2 DEF SigInv, Fixed, HeadExact, Low
  <2>4. Cursor'
    BY <2>1, <2>2 DEF SigInv, Cursor, Gapless
  <2>5. (Filled(IF phase = "encode" THEN Len(out) ELSE Len(vals)))'
    BY <2>1, <2>2 DEF SigInv, Filled, Capacity, AllOnes, Low, Place, PlaceOf, One
  <2> QED
    BY <2>1, <2>3, <2>4, <2>5 DEF SigInv
<1> QED
  BY <1>1, <1>2, <1>3, <1>4, <1>5, <1>6 DEF Next

LEMMA InvHolds == Spec => []SigInv
<1>1. Init => SigInv
  BY InvAtStart
<1>2. SigInv /\ [Next]_vars => SigInv'
  BY InvKept
<1> QED
  BY <1>1, <1>2, PTL DEF Spec

-----------------------------------------------------------------------------
(* pc_bytes_sigbits_to_ptr goes straight to where the loops would have been.*)
LEMMA DirectIsBefore ==
  ASSUME Fixed, NEW n \in 0 .. Len(vals) - 1, n * nbits < 2 ^ Width
  PROVE  /\ OffsetOf(n) \in Nat
         /\ Before(n + 1, 2 + OffsetOf(n) \div Width, Width - (OffsetOf(n) % Width))
<1> DEFINE w == Width
           t == n * nbits
           off == OffsetOf(n)
<1>1. n \in Nat /\ nbits \in Nat /\ w \in Nat \ {0} /\ t \in Nat /\ n + 1 \in 1 .. Len(vals) /\ n + 1 - 1 = n
  BY FixedIs
<1>2. off = t
  <2>1. t < 2 ^ w /\ off = t % 2 ^ w
    BY DEF OffsetOf
  <2> HIDE DEF t, w, off
  <2> QED
    BY <1>1, <2>1
<1> HIDE DEF t, w, off
<1>3. off \div w \in Nat /\ off % w \in 0 .. w - 1 /\ off = (off \div w) * w + (off % w)
  BY <1>1, <1>2, Quotient
<1> DEFINE q == off \div w
           r == off % w
<1>4. q \in Nat /\ r \in 0 .. w - 1 /\ off = q * w + r
  BY <1>3
<1> HIDE DEF q, r
<1>5. 2 + q \in Nat \ {0, 1} /\ w - r \in 0 .. w /\ 2 + q - 2 = q /\ w - (w - r) = r
  BY <1>1, <1>4
<1>6. (2 + q - 2) * w + (w - (w - r)) = t
  BY <1>2, <1>4, <1>5
<1> QED
  BY <1>1, <1>2, <1>5, <1>6 DEF Before, off, w, t, q, r

LEMMA DirectIsValue ==
  ASSUME Fixed, Filled(Len(vals)), NEW n \in 0 .. Len(vals) - 1, n * nbits < 2 ^ Width
  PROVE  ToPtr(OffsetOf(n)) = {vals[n + 1]}
<1> DEFINE off == OffsetOf(n)
           p == 2 + off \div Width
           bits == Width - (off % Width)
           shift == Width - (off % Width) - nbits
           i == n + 1
           Mask == IF nbits = 0 THEN {{}, AllOnes} ELSE {Low(nbits)}
<1>1. Before(i, p, bits) /\ off \in Nat
  BY DirectIsBefore
<1>2. nbits \in Nat /\ Width \in Nat \ {0} /\ off % Width \in 0 .. Width - 1
  BY <1>1, FixedIs, Quotient
<1>3. shift = bits - nbits /\ bits \in 1 .. Width
  BY <1>2
<1>4. ToPtr(off) = IF shift >= 0
        THEN {common \cup (v \cap mask) : mask \in Mask, v \in Shr(packed[p], shift)}
        ELSE {common \cup (Shl(packed[p], -shift) \cap mask) \cup (v \cap mask) :
                mask \in Mask, v \in Shr(packed[p + 1], shift + Width)}
  BY DEF ToPtr
<1>5. (\E mask : mask \in Mask) /\ (\A mask \in Mask : nbits > 0 => mask = Low(nbits))
      /\ \A x, k : \E v : v \in Shr(x, k)
  <2>1. \A x, k : \E v : v \in Shr(x, k)
    <3>1. ASSUME NEW x, NEW k PROVE \E v : v \in Shr(x, k)
      <4>1. Shr(x, k) = {Dropped(x, k)} \/ Shr(x, k) = {{}, x}
        BY DEF Shr
      <4> QED
        BY <4>1
    <3> QED
      BY <3>1
  <2>2. Low(nbits) \in Mask \/ {} \in Mask
    OBVIOUS
  <2>3. \A mask \in Mask : nbits > 0 => mask = Low(nbits)
    BY <1>2
  <2> QED
    BY <2>1, <2>2, <2>3
<1> HIDE DEF off, p, bits, shift, i, Mask
<1>6. CASE bits >= nbits
  <2>1. \A mask \in Mask, v \in Shr(packed[p], shift) : common \cup (v \cap mask) = vals[i]
    BY <1>1, <1>3, <1>5, <1>6, WholeIsValue
  <2>2. ToPtr(off) = {common \cup (v \cap mask) : mask \in Mask, v \in Shr(packed[p], shift)}
    BY <1>2, <1>3, <1>4, <1>6
  <2>3. PICK mask \in Mask : TRUE
    BY <1>5
  <2>4. PICK v \in Shr(packed[p], shift) : TRUE
    BY <1>5
  <2>5. vals[i] \in ToPtr(off)
    BY <2>1, <2>2, <2>3, <2>4
  <2>6. ASSUME NEW x \in ToPtr(off) PROVE x = vals[i]
    <3>1. PICK mask1 \in Mask, v1 \in Shr(packed[p], shift) : x = common \cup (v1 \cap mask1)
      BY <2>2, <2>6
    <3> QED
      BY <2>1, <3>1
  <2>7. ToPtr(off) = {vals[i]}
    BY <2>5, <2>6
  <2> QED
    BY <2>7 DEF off, i
<1>7. CASE bits < nbits
  <2>1. -shift = nbits - bits /\ shift + Width = Width - (nbits - bits) /\ nbits > 0
    BY <1>2, <1>3, <1>7
  <2>2. ASSUME NEW mask \in Mask, NEW v \in Shr(packed[p + 1], shift + Width)
        PROVE  common \cup (Shl(packed[p], -shift) \cap mask) \cup (v \cap mask) = vals[i]
    <3>1. mask = Low(nbits)
      BY <1>5, <2>1, <2>2
    <3>2. common \cup (Shl(packed[p], nbits - bits) \cap Low(nbits)) \cup (v \cap Low(nbits)) = vals[i]
      BY <1>1, <1>7, <2>1, <2>2, SplitIsValue
    <3> QED
      BY <2>1, <3>1, <3>2
  <2>3. ToPtr(off) = {common \cup (Shl(packed[p], -shift) \cap mask) \cup (v \cap mask) :
                        mask \in Mask, v \in Shr(packed[p + 1], shift + Width)}
    BY <1>2, <1>3, <1>4, <1>7
  <2>4. PICK mask \in Mask : TRUE
    BY <1>5
  <2>5. PICK v \in Shr(packed[p + 1], shift + Width) : TRUE
    BY <1>5
  <2>6. vals[i] \in ToPtr(off)
    BY <2>2, <2>3, <2>4, <2>5
  <2>7. ASSUME NEW x \in ToPtr(off) PROVE x = vals[i]
    <3>1. PICK mask1 \in Mask, v1 \in Shr(packed[p + 1], shift + Width) :
            x = common \cup (Shl(packed[p], -shift) \cap mask1) \cup (v1 \cap mask1)
      BY <2>3, <2>7
    <3> QED
      BY <2>2, <3>1
  <2>8. ToPtr(off) = {vals[i]}
    BY <2>6, <2>7
  <2> QED
    BY <2>8 DEF off, i
<1> QED
  BY <1>2, <1>3, <1>6, <1>7

-----------------------------------------------------------------------------
(* Every word the encoder and the decoder hold is as wide as it says, and   *)
(* the cursors stay on bits of words (pc_bytes.c, the sigbits loops).       *)
THEOREM SigBitsTypes == Spec => []TypeOK
<1>1. ASSUME SigInv PROVE TypeOK
  <2>1. Fixed /\ Cursor /\ Len(out) \in 0 .. Len(vals)
    BY <1>1 DEF SigInv
  <2>2. common \in SUBSET AllOnes /\ Len(vals) \in Nat
    BY <2>1, FixedIs
  <2>3. packed \in [2 .. Capacity(nbits, Len(vals)) - 1 -> SUBSET AllOnes]
    BY <1>1 DEF SigInv, Filled
  <2>4. Len(out) <= Len(vals)
    BY <2>1, <2>2
  <2> QED
    BY <1>1, <2>1, <2>2, <2>3, <2>4 DEF TypeOK, Fixed, Cursor, SigInv
<1> QED
  BY <1>1, InvHolds, PTL

(* The loops of pc_bytes_sigbits_encode and pc_bytes_sigbits_decode never   *)
(* reach a word that was not allocated, whatever the number of values and   *)
(* of unique bits.                                                          *)
THEOREM SigBitsStayInBounds == Spec => []InBounds
<1>1. ASSUME SigInv PROVE InBounds
  <2>1. SUFFICES ASSUME More PROVE ptr \in DOMAIN packed /\ (bit < nbits => ptr + 1 \in DOMAIN packed)
    BY DEF InBounds
  <2>2. Fixed /\ Before(Len(out) + 1, ptr, bit)
    BY <1>1, <2>1, BeforeNow DEF SigInv
  <2>3. DOMAIN packed = 2 .. Capacity(nbits, Len(vals)) - 1
    BY <1>1 DEF SigInv, Filled
  <2> DEFINE i == Len(out) + 1
  <2> HIDE DEF i
  <2>4. Before(i, ptr, bit)
    BY <2>2 DEF i
  <2> QED
    BY <2>2, <2>3, <2>4, WordsThere
<1> QED
  BY <1>1, InvHolds, PTL

(* The encoded bytes are what the format says: the head words of            *)
(* pc_bytes_sigbits_count and the values with nothing between them.         *)
THEOREM SigBitsPackedExactly == Spec => []PackedExactly
<1>1. SigInv => PackedExactly
  BY DEF SigInv, Fixed, Cursor, PackedExactly
<1> QED
  BY <1>1, InvHolds, PTL

(* pc_bytes_sigbits_decode gives back what pc_bytes_sigbits_encode was      *)
(* given, and pc_bytes_sigbits_to_ptr gives the same value for each point,  *)
(* whichever way the machine shifts a word by its whole width.              *)
THEOREM SigBitsValuesComeBack == Spec => []ValuesComeBack
<1>1. ASSUME SigInv PROVE ValuesComeBack
  <2>1. RoundTrip
    BY <1>1 DEF SigInv, RoundTrip
  <2>2. ASSUME phase = "decode", NEW n \in 0 .. Len(vals) - 1, n * nbits < 2 ^ Width
        PROVE  ToPtr(OffsetOf(n)) = {vals[n + 1]}
    <3>1. Fixed /\ Filled(Len(vals))
      BY <1>1, <2>2 DEF SigInv
    <3> QED
      BY <2>2, <3>1, DirectIsValue
  <2> QED
    BY <2>1, <2>2 DEF ValuesComeBack, PointNWithinWord
<1> QED
  BY <1>1, InvHolds, PTL
=============================================================================
