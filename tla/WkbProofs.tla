----------------------------- MODULE WkbProofs -----------------------------
(***************************************************************************)
(* Proofs about patches and points carried as WKB, for every table of      *)
(* pcids and their dimensions, any machines of either order, every base of *)
(* the digits and any bound on the points.                                 *)
(*                                                                         *)
(* The two checks of a typmod (pcid_consistent where a value is read,      *)
(* pcpatch_enforce_typmod where it is assigned) differ, and together still *)
(* keep a column to the pcid it declares.  What a machine holds or a WKB   *)
(* carries is always the layout of some points of the schema (WkbInv): an  *)
(* image in bytes gives its value back, a column its values, a walk over   *)
(* the columns finds each where it was written, swapping uncompressed      *)
(* points gives the bytes of the other order, and bytes that nothing swaps *)
(* are the layout of other points.                                         *)
(***************************************************************************)
EXTENDS Wkb, RunLengthProofs

(* A value has a pcid of the table, which the input function of its column  *)
(* would take.                                                              *)
Acceptable(pa, t) == pa.pcid \in Pcid /\ Consistent(pa.pcid, t)

ColumnInv == held # None => Acceptable(held, typmod)

(* A declared pcid survives the mask of its typmod.                         *)
LEMMA DeclaredIsMasked ==
  ASSUME NEW t \in Pcid
  PROVE  PcidFromTypmod(t) = t /\ t # 0
<1>1. t \in Nat /\ PcidRange \in Nat /\ 0 < t /\ t < PcidRange
  BY WkbAssumption
<1>2. t # -1 /\ t % PcidRange = t
  BY <1>1
<1> QED
  BY <1>1, <1>2 DEF PcidFromTypmod

LEMMA ColumnIs == ColumnInv => ColumnHoldsItsPcid
<1> SUFFICES ASSUME ColumnInv, held # None
             PROVE  (typmod \in Pcid => held.pcid = typmod) /\ Consistent(held.pcid, typmod)
  BY DEF ColumnHoldsItsPcid
<1>1. Consistent(held.pcid, typmod)
  BY DEF ColumnInv, Acceptable
<1>2. typmod \in Pcid => held.pcid = typmod
  BY <1>1, DeclaredIsMasked DEF Consistent
<1> QED
  BY <1>1, <1>2

(* An expression takes every pcid; a column takes what may be assigned.     *)
LEMMA ComputedKept ==
  ASSUME NEW pa, pa.pcid \in Pcid, Computed(pa)
  PROVE  ColumnInv'
BY DEF Computed, ColumnInv, Acceptable, Consistent, PcidFromTypmod

LEMMA InMemoryIs ==
  ASSUME NEW m, NEW p, NEW pts, NEW form, NEW enc
  PROVE  InMemory(m, p, pts, form, enc).pcid = p
BY DEF InMemory

(* What an input function gives to its column.                              *)
LEMMA ArriveKept ==
  ASSUME NEW pa, NEW t, pa.pcid \in Pcid, Arrive(pa, t)
  PROVE  ColumnInv'
<1>1. CASE Consistent(pa.pcid, t) /\ typmod' = t /\ \E f \in Form(pa.pcid) : held' = Stored(pa, f)
  <2>1. PICK f \in Form(pa.pcid) : held' = Stored(pa, f)
    BY <1>1
  <2>2. Stored(pa, f).pcid = pa.pcid
    BY InMemoryIs DEF Stored, Converted
  <2> QED
    BY <1>1, <2>1, <2>2 DEF ColumnInv, Acceptable, Consistent
<1>2. CASE Fail("inconsistent")
  BY <1>2 DEF Fail, ColumnInv
<1> QED
  BY <1>1, <1>2, Zenon DEF Arrive

LEMMA FailKept == ASSUME NEW why, Fail(why) PROVE ColumnInv'
BY DEF Fail, ColumnInv

LEMMA AssignKept ==
  ASSUME ColumnInv, NEW t, Assign(t)
  PROVE  ColumnInv'
<1>1. held # None /\ held' = held /\ Acceptable(held, typmod)
  BY DEF Assign, ColumnInv
<1>2. CASE Enforced(held.pcid, typmod, t)
  <2>1. typmod' = t
    BY <1>2 DEF Assign
  <2>2. Consistent(held.pcid, t)
    BY <1>1, <1>2 DEF Enforced, Acceptable, Consistent, PcidFromTypmod
  <2> QED
    BY <1>1, <2>1, <2>2 DEF ColumnInv, Acceptable, Consistent
<1>3. CASE ~ Enforced(held.pcid, typmod, t)
  BY <1>1, <1>3 DEF Assign, ColumnInv, Acceptable, Consistent
<1> QED
  BY <1>2, <1>3

LEMMA ReadPatchKept ==
  ASSUME NEW m, NEW t, ReadPatch(m, t)
  PROVE  ColumnInv'
<1> DEFINE p == PcidOf(wkb, m)
           n == NPointsOf(wkb, m)
           body == SubSeq(wkb, HeaderSize + 1, Len(wkb))
           Patch(form, data) == [at |-> m, pcid |-> p, form |-> form, npoints |-> n, data |-> data]
<1>1. \A form, data : Patch(form, data).pcid = p
  OBVIOUS
<1>2. \/ \E why : Fail(why)
      \/ p \in Pcid /\ \E form, data : Arrive(Patch(form, data), t)
  <2> HIDE DEF p, n, body
  <2> QED
    BY Zenon DEF ReadPatch, p, n, body
<1> HIDE DEF Patch, p
<1>3. CASE \E why : Fail(why)
  BY <1>3, FailKept
<1>4. CASE p \in Pcid /\ \E form, data : Arrive(Patch(form, data), t)
  BY <1>1, <1>4, ArriveKept
<1> QED
  BY <1>2, <1>3, <1>4

LEMMA ReadPointKept ==
  ASSUME NEW m, NEW t, ReadPoint(m, t)
  PROVE  ColumnInv'
<1> DEFINE p == PcidOf(wkb, m)
           body == SubSeq(wkb, PointHeaderSize + 1, Len(wkb))
           pt == [at |-> m, pcid |-> p, form |-> "point", npoints |-> 1,
                  data |-> InOrder(wkb, p, body, m)]
<1>1. pt.pcid = p
  OBVIOUS
<1>2. Fail("refused") \/ (p \in Pcid /\ Arrive(pt, t))
  BY Zenon DEF ReadPoint
<1> HIDE DEF pt, p
<1> QED
  BY <1>1, <1>2, FailKept, ArriveKept

LEMMA StepColumn == ColumnInv /\ [Next]_vars => ColumnInv'
<1> SUFFICES ASSUME ColumnInv, [Next]_vars PROVE ColumnInv'
  OBVIOUS
<1>1. ASSUME NEW m \in Machine, NEW p \in Pcid, NEW pts, NEW f, Make(m, p, pts, f)
      PROVE  ColumnInv'
  BY <1>1, ComputedKept, InMemoryIs DEF Make
<1>2. ASSUME NEW f, Convert(f) PROVE ColumnInv'
  BY <1>2, ComputedKept, InMemoryIs DEF Convert, Converted, ColumnInv, Acceptable
<1>3. ASSUME NEW f, PatchOfPoint(f) PROVE ColumnInv'
  BY <1>3, ComputedKept, InMemoryIs DEF PatchOfPoint, Converted, ColumnInv, Acceptable
<1>4. ASSUME NEW n, PointN(n) PROVE ColumnInv'
  BY <1>4, ComputedKept, InMemoryIs DEF PointN, PointOf, ColumnInv, Acceptable
<1>5. ASSUME NEW t, Assign(t) PROVE ColumnInv'
  BY <1>5, AssignKept
<1>6. CASE Write
  BY <1>6 DEF Write, ColumnInv
<1>7. ASSUME NEW m, NEW t, ReadPatch(m, t) \/ ReadPoint(m, t) PROVE ColumnInv'
  BY <1>7, ReadPatchKept, ReadPointKept
<1>8. CASE UNCHANGED vars
  BY <1>8 DEF vars, ColumnInv, Acceptable, Consistent
<1> QED
  BY <1>1, <1>2, <1>3, <1>4, <1>5, <1>6, <1>7, <1>8 DEF Next

(* A column that declares a pcid holds values of that pcid only, however    *)
(* they came there, and its own input function takes back what it holds:    *)
(* whatever the WKB says, whatever is computed, converted or assigned from  *)
(* a column of another typmod.                                              *)
THEOREM ColumnsHoldTheirPcid == Spec => []ColumnHoldsItsPcid
<1>1. Init => ColumnInv
  BY DEF Init, ColumnInv
<1> QED
  BY <1>1, StepColumn, ColumnIs, PTL DEF Spec

-----------------------------------------------------------------------------
(* Unsigned values and their bytes.                                         *)

LEMMA BaseIs ==
  /\ Base \in Nat \ {0, 1} /\ IntSize \in Nat \ {0} /\ MaxPoints \in Nat \ {0}
  /\ \A m \in Machine : Order[m] \in {0, 1}
BY LayoutAssumption

LEMMA RestSteps ==
  ASSUME NEW v \in Nat, NEW w \in Nat
  PROVE  /\ Rest(v, w)[0] = v
         /\ \A k \in 1 .. w : Rest(v, w)[k] = Rest(v, w)[k - 1] \div Base
         /\ \A k \in 0 .. w : Rest(v, w)[k] \in Nat
<1> DEFINE step == [p \in (1 .. w) \X Nat |-> p[2] \div Base]
           Body1(f) == [k \in 0 .. w |-> IF k = 0 THEN v ELSE f[k - 1] \div Base]
           rest == CHOOSE f : f = Body1(f)
<1>1. \A x \in Nat : x \div Base \in Nat
  BY BaseIs
<1>2. step \in [(1 .. w) \X Nat -> Nat]
  BY <1>1
<1>3. PICK f \in [0 .. w -> Nat] : SolvesRecursion(f, v, w, step)
  <2> HIDE DEF step
  <2> QED
    BY <1>2, RecursionExists, Zenon
<1>4. f = Body1(f)
  <2>1. ASSUME NEW k \in 1 .. w PROVE f[k] = f[k - 1] \div Base
    <3>1. f[k - 1] \in Nat
      OBVIOUS
    <3>2. f[k] = step[<<k, f[k - 1]>>]
      <4> HIDE DEF step
      <4> QED
        BY <1>3 DEF SolvesRecursion
    <3> QED
      BY <3>1, <3>2
  <2>2. f[0] = v
    <3> HIDE DEF step, Body1
    <3>1. 0 \in 0 .. w
      OBVIOUS
    <3> QED
      BY <1>3, <3>1 DEF SolvesRecursion
  <2> QED
    BY <2>1, <2>2
<1>5. rest = Body1(rest)
  <2> HIDE DEF Body1
  <2> QED
    BY <1>4, Zenon
<1>6. Rest(v, w) = rest
  BY DEF Rest
<1> HIDE DEF rest
<1>7. rest[0] = v /\ \A k \in 1 .. w : rest[k] = rest[k - 1] \div Base
  BY <1>5
<1>8. \A k \in 0 .. w : rest[k] \in Nat
  <2> DEFINE K == {k \in 0 .. w : rest[k] \in Nat}
  <2>1. 0 \in K
    BY <1>7
  <2>2. ASSUME NEW k \in 1 .. w, k - 1 \in K PROVE k \in K
    <3>1. rest[k - 1] \in Nat /\ rest[k] = rest[k - 1] \div Base /\ k \in 0 .. w
      BY <1>7, <2>2
    <3> QED
      BY <1>1, <3>1
  <2> HIDE DEF K
  <2>3. \A k \in 0 .. w : k \in K
    BY <2>1, <2>2, UpTo
  <2> QED
    BY <2>3 DEF K
<1> QED
  BY <1>6, <1>7, <1>8, Zenon

(* The other byte order is the reversed bytes.                              *)
LEMMA ImageIs ==
  ASSUME NEW v \in Nat, NEW w \in Nat, NEW o \in {0, 1}
  PROVE  /\ Image(v, w, o) \in Seq(Nat)
         /\ Len(Image(v, w, o)) = w
         /\ \A i \in 1 .. w : Image(v, w, 0)[i] = Rest(v, w)[w - i] % Base
         /\ Reverse(Image(v, w, o)) = Image(v, w, 1 - o)
         /\ \A i \in 1 .. w : Image(v, w, o)[w + 1 - i] = Image(v, w, 1 - o)[i]
<1> DEFINE rest == Rest(v, w)
           big == [i \in 1 .. w |-> rest[w - i] % Base]
           small == [i \in 1 .. w |-> big[w + 1 - i]]
<1>1. \A i \in 1 .. w : rest[w - i] % Base \in Nat
  <2>1. \A i \in 1 .. w : rest[w - i] \in Nat
    BY RestSteps
  <2> HIDE DEF rest
  <2> QED
    BY <2>1, BaseIs
<1> HIDE DEF rest
<1>2. big \in Seq(Nat) /\ Len(big) = w
  BY <1>1
<1>3. small \in Seq(Nat) /\ Len(small) = w
  BY <1>1
<1>4. Reverse(big) = small
  BY <1>2 DEF Reverse
<1>5. Reverse(small) = big
  <2>1. Reverse(small) = [i \in 1 .. w |-> small[(w - i) + 1]]
    BY <1>3 DEF Reverse
  <2>2. \A i \in 1 .. w : small[(w - i) + 1] = big[i]
    OBVIOUS
  <2> HIDE DEF small, big
  <2>3. \A i \in 1 .. w : Reverse(small)[i] = big[i]
    BY <2>1, <2>2
  <2> QED
    BY <1>2, <2>1, <2>3
<1>6. Image(v, w, 0) = big /\ Image(v, w, 1) = small
  BY <1>4 DEF Image, rest
<1>7. \A i \in 1 .. w : small[i] = big[w + 1 - i] /\ big[i] = small[w + 1 - i]
  OBVIOUS
<1>8. \A i \in 1 .. w : big[i] = rest[w - i] % Base
  OBVIOUS
<1> HIDE DEF big, small
<1>9. CASE o = 0
  BY <1>2, <1>3, <1>4, <1>5, <1>6, <1>7, <1>8, <1>9 DEF rest
<1>10. CASE o = 1
  BY <1>2, <1>3, <1>4, <1>5, <1>6, <1>7, <1>8, <1>10 DEF rest
<1> QED
  BY <1>9, <1>10

(* The bytes of a value that fits them give it back.                        *)
LEMMA WordOfImage ==
  ASSUME NEW v \in Nat, NEW w \in Nat, NEW o \in {0, 1}, Fits(v, w)
  PROVE  Word(Image(v, w, o), o) = v
<1> DEFINE big == Image(v, w, 0)
           rest == Rest(v, w)
           Body1(f) == [k \in 0 .. w |-> IF k = 0 THEN 0 ELSE f[k - 1] * Base + big[k]]
           word == CHOOSE f : f = Body1(f)
           W == [k \in 0 .. w |-> rest[w - k]]
<1>1. /\ rest[0] = v /\ rest[w] = 0
      /\ \A k \in 1 .. w : rest[k] = rest[k - 1] \div Base
      /\ \A k \in 0 .. w : rest[k] \in Nat
      /\ \A k \in 1 .. w : big[k] = rest[w - k] % Base
  BY RestSteps, ImageIs, ZenonT(30) DEF Fits
<1>2. Len(big) = w /\ (o = 1 => Reverse(Image(v, w, o)) = big)
  BY ImageIs
<1>3. Word(Image(v, w, o), o) = word[w]
  <2> DEFINE read == IF o = 0 THEN Image(v, w, o) ELSE Reverse(Image(v, w, o))
             Body2(s, f) == [k \in 0 .. Len(s) |-> IF k = 0 THEN 0 ELSE f[k - 1] * Base + s[k]]
             At(s) == (CHOOSE f : f = Body2(s, f))[Len(s)]
  <2>1. read = big
    BY <1>2
  <2>2. Word(Image(v, w, o), o) = At(read)
    BY Zenon DEF Word
  <2>3. At(big) = word[w]
    BY <1>2, Zenon
  <2> HIDE DEF read, big, At
  <2> QED
    BY <2>1, <2>2, <2>3, Zenon
<1> HIDE DEF big, rest
<1>4. ASSUME NEW k \in 1 .. w PROVE rest[w - k] = rest[w - (k - 1)] * Base + big[k]
  <2> DEFINE r == rest[w - k]
             h == rest[w - (k - 1)]
  <2>1. w - (k - 1) \in 1 .. w /\ (w - (k - 1)) - 1 = w - k /\ w - k \in 0 .. w
    OBVIOUS
  <2>2. h = r \div Base /\ r \in Nat /\ big[k] = r % Base
    BY <1>1, <2>1
  <2> HIDE DEF r, h
  <2>3. r = (r \div Base) * Base + (r % Base)
    BY <2>2, BaseIs
  <2>4. r = h * Base + big[k]
    BY <2>2, <2>3
  <2> QED
    BY <2>4 DEF r, h
<1>5. W = Body1(W)
  <2>1. ASSUME NEW k \in 1 .. w PROVE W[k] = W[k - 1] * Base + big[k]
    <3>1. W[k] = rest[w - k] /\ W[k - 1] = rest[w - (k - 1)]
      OBVIOUS
    <3> HIDE DEF W
    <3> QED
      BY <1>4, <3>1
  <2>2. W[0] = 0
    BY <1>1
  <2>3. W = [k \in 0 .. w |-> W[k]]
    OBVIOUS
  <2> HIDE DEF W
  <2> DEFINE G(k) == IF k = 0 THEN 0 ELSE W[k - 1] * Base + big[k]
  <2>4. \A k \in 0 .. w : W[k] = G(k)
    <3> TAKE k \in 0 .. w
    <3>1. CASE k = 0
      BY <2>2, <3>1
    <3>2. CASE k # 0
      <4>1. k \in 1 .. w
        BY <3>2
      <4>2. W[k] = W[k - 1] * Base + big[k]
        BY <2>1, <4>1
      <4> QED
        BY <3>2, <4>2, Zenon
    <3> QED
      BY <3>1, <3>2
  <2>5. Body1(W) = [k \in 0 .. w |-> G(k)]
    OBVIOUS
  <2> HIDE DEF G, Body1
  <2> QED
    BY <2>3, <2>4, <2>5
<1>6. word = Body1(word)
  <2> HIDE DEF Body1, W
  <2> QED
    BY <1>5, Zenon
<1> HIDE DEF word
<1>7. word[0] = 0 /\ \A k \in 1 .. w : word[k] = word[k - 1] * Base + big[k]
  BY <1>6
<1> DEFINE K == {k \in 0 .. w : word[k] = rest[w - k]}
<1>8. 0 \in K
  BY <1>1, <1>7
<1>9. ASSUME NEW k \in 1 .. w, k - 1 \in K PROVE k \in K
  BY <1>4, <1>7, <1>9
<1> HIDE DEF K
<1>10. \A k \in 0 .. w : k \in K
  BY <1>8, <1>9, UpTo
<1>11. word[w] = rest[w - w]
  BY <1>10 DEF K
<1> QED
  BY <1>1, <1>3, <1>11

-----------------------------------------------------------------------------
(* Pieces one after the other.                                              *)

Pieces(S, seqs) == seqs \in Seq(Seq(S))

(* start[k] elements come before the piece after the kth.                   *)
Starts(start, seqs) ==
  /\ start \in [0 .. Len(seqs) -> Nat]
  /\ start[0] = 0
  /\ \A k \in 1 .. Len(seqs) : start[k] = start[k - 1] + Len(seqs[k])

LEMMA ConcatIn ==
  ASSUME NEW S, NEW a \in Seq(S), NEW b \in Seq(S)
  PROVE  /\ a \o b \in Seq(S)
         /\ Len(a) \in Nat /\ Len(b) \in Nat /\ Len(a \o b) = Len(a) + Len(b)
OBVIOUS

LEMMA ConcatLeft ==
  ASSUME NEW S, NEW a \in Seq(S), NEW b \in Seq(S), NEW i \in 1 .. Len(a)
  PROVE  (a \o b)[i] = a[i]
OBVIOUS

LEMMA ConcatRight ==
  ASSUME NEW S, NEW a \in Seq(S), NEW b \in Seq(S), NEW i \in 1 .. Len(b)
  PROVE  (a \o b)[Len(a) + i] = b[i]
OBVIOUS

LEMMA CutIn ==
  ASSUME NEW S, NEW s \in Seq(S), NEW i \in Nat, NEW j \in Nat, i <= j, j <= Len(s)
  PROVE  SubSeq(s, i + 1, j) \in Seq(S) /\ Len(SubSeq(s, i + 1, j)) = j - i
OBVIOUS

LEMMA CutAt ==
  ASSUME NEW S, NEW s \in Seq(S), NEW i \in Nat, NEW j \in Nat, i <= j, j <= Len(s),
         NEW k \in 1 .. j - i
  PROVE  SubSeq(s, i + 1, j)[k] = s[i + k]
OBVIOUS

LEMMA FlattenPlaces ==
  ASSUME NEW S, NEW seqs, Pieces(S, seqs), NEW start, Starts(start, seqs)
  PROVE  /\ FlattenSeq(seqs) \in Seq(S)
         /\ Len(FlattenSeq(seqs)) = start[Len(seqs)]
         /\ \A k \in 1 .. Len(seqs) :
              /\ start[k] <= start[Len(seqs)]
              /\ \A i \in 1 .. Len(seqs[k]) : FlattenSeq(seqs)[start[k - 1] + i] = seqs[k][i]
<1> DEFINE m == Len(seqs)
<1>1. m \in Nat /\ \A k \in 1 .. m : seqs[k] \in Seq(S) /\ Len(seqs[k]) \in Nat
  BY DEF Pieces
<1>2. CASE m = 0
  <2>1. FlattenSeq(seqs) = seqs /\ seqs = <<>>
    BY <1>2 DEF FlattenSeq, Pieces
  <2> QED
    BY <1>2, <2>1 DEF Starts
<1>3. CASE m # 0
  <2> DEFINE step == [p \in (1 .. m) \X Seq(S) |-> p[2] \o seqs[p[1]]]
             Body1(f) == [i \in 1 .. m |-> IF i = 1 THEN seqs[i] ELSE f[i - 1] \o seqs[i]]
             flat == CHOOSE f : f = Body1(f)
  <2>1. step \in [(1 .. m) \X Seq(S) -> Seq(S)] /\ <<>> \in Seq(S)
    <3> HIDE DEF m
    <3>1. ASSUME NEW p \in (1 .. m) \X Seq(S) PROVE p[2] \o seqs[p[1]] \in Seq(S)
      BY <1>1
    <3> QED
      BY <3>1
  <2>2. PICK f \in [0 .. m -> Seq(S)] : SolvesRecursion(f, <<>>, m, step)
    <3> HIDE DEF step, m
    <3> QED
      BY <1>1, <2>1, RecursionExists, Zenon
  <2> DEFINE g == [i \in 1 .. m |-> f[i]]
  <2>3. g = Body1(g)
    <3> HIDE DEF m
    <3>1. ASSUME NEW k \in 1 .. m PROVE f[k] = f[k - 1] \o seqs[k]
      <4>1. f[k - 1] \in Seq(S) /\ k \in 0 .. m /\ k # 0
        BY <1>1
      <4>2. f[k] = step[<<k, f[k - 1]>>]
        <5> HIDE DEF step
        <5> QED
          BY <2>2, <4>1 DEF SolvesRecursion
      <4> QED
        BY <4>1, <4>2
    <3>2. f[0] = <<>>
      <4> HIDE DEF step, Body1, g
      <4>1. 0 \in 0 .. m
        BY <1>1
      <4> QED
        BY <2>2, <4>1 DEF SolvesRecursion
    <3>3. ASSUME NEW k \in 1 .. m PROVE g[k] = IF k = 1 THEN seqs[k] ELSE g[k - 1] \o seqs[k]
      <4>1. CASE k = 1
        <5>0. k - 1 = 0
          BY <4>1
        <5>1. f[k] = <<>> \o seqs[k]
          BY <3>1, <3>2, <5>0, Zenon
        <5>2. f[k] = seqs[k]
          BY <1>1, <5>1, ConcatEmptySeq
        <5> QED
          BY <4>1, <5>2
      <4>2. CASE k # 1
        <5>1. k - 1 \in 1 .. m
          BY <1>1, <4>2
        <5>2. g[k] = f[k] /\ g[k - 1] = f[k - 1]
          BY <5>1
        <5> HIDE DEF g
        <5> QED
          BY <3>1, <4>2, <5>2
      <4> QED
        BY <4>1, <4>2
    <3>4. g = [i \in 1 .. m |-> g[i]]
      OBVIOUS
    <3> HIDE DEF g
    <3> DEFINE G(i) == IF i = 1 THEN seqs[i] ELSE g[i - 1] \o seqs[i]
    <3>5. \A i \in 1 .. m : g[i] = G(i)
      BY <3>3
    <3>6. Body1(g) = [i \in 1 .. m |-> G(i)]
      OBVIOUS
    <3> HIDE DEF G, Body1
    <3> QED
      BY <3>4, <3>5, <3>6
  <2>4. flat = Body1(flat)
    <3> HIDE DEF Body1, g
    <3> QED
      BY <2>3, Zenon
  <2>5. FlattenSeq(seqs) = flat[m]
    BY <1>3 DEF FlattenSeq
  <2> HIDE DEF flat
  <2>6. flat[1] = seqs[1] /\ \A k \in 2 .. m : flat[k] = flat[k - 1] \o seqs[k]
    <3> HIDE DEF m
    <3>1. 1 \in 1 .. m
      BY <1>1, <1>3
    <3>2. \A k \in 1 .. m : flat[k] = IF k = 1 THEN seqs[k] ELSE flat[k - 1] \o seqs[k]
      BY <2>4
    <3>3. flat[1] = seqs[1]
      BY <3>1, <3>2
    <3>4. ASSUME NEW k \in 2 .. m PROVE flat[k] = flat[k - 1] \o seqs[k]
      <4>1. k \in 1 .. m /\ k # 1
        BY <1>1
      <4> QED
        BY <3>2, <4>1
    <3> QED
      BY <3>3, <3>4
  <2> DEFINE Placed(k) ==
               /\ flat[k] \in Seq(S) /\ Len(flat[k]) = start[k]
               /\ \A j \in 1 .. k :
                    /\ start[j] <= start[k]
                    /\ \A i \in 1 .. Len(seqs[j]) : flat[k][start[j - 1] + i] = seqs[j][i]
             K == {k \in 0 .. m : k # 0 => Placed(k)}
  <2>7. /\ start[0] = 0 /\ \A k \in 0 .. m : start[k] \in Nat
        /\ \A k \in 1 .. m : start[k] = start[k - 1] + Len(seqs[k])
    BY <1>1 DEF Starts
  <2> HIDE DEF m, step, Body1
  <2>8. ASSUME NEW k \in 1 .. m, k - 1 \in K PROVE Placed(k)
    <3>1. CASE k = 1
      <4>1. flat[1] = seqs[1] /\ seqs[1] \in Seq(S) /\ start[1] = Len(seqs[1]) /\ start[0] = 0
        BY <1>1, <2>6, <2>7, <3>1
      <4>2. \A j \in 1 .. 1 : j = 1 /\ j - 1 = 0
        OBVIOUS
      <4>3. start[1] \in Nat
        BY <1>1, <2>7, <3>1
      <4> QED
        BY <3>1, <4>1, <4>2, <4>3
    <3>2. CASE k # 1
      <4>1. k - 1 \in 1 .. m /\ k \in 2 .. m /\ k - 1 # 0
        BY <1>1, <3>2
      <4>2. Placed(k - 1)
        BY <2>8, <4>1
      <4>3. flat[k] = flat[k - 1] \o seqs[k] /\ seqs[k] \in Seq(S)
        BY <1>1, <2>6, <4>1
      <4>4. /\ start[k] = start[k - 1] + Len(seqs[k])
            /\ start[k] \in Nat /\ start[k - 1] \in Nat /\ Len(seqs[k]) \in Nat
        BY <1>1, <2>7, <4>1
      <4>5. flat[k] \in Seq(S) /\ Len(flat[k]) = start[k]
        <5>1. flat[k - 1] \in Seq(S) /\ Len(flat[k - 1]) = start[k - 1]
          BY <4>2
        <5>2. flat[k] \in Seq(S) /\ Len(flat[k]) = Len(flat[k - 1]) + Len(seqs[k])
          BY <4>3, <5>1, ConcatIn, Zenon
        <5> QED
          BY <4>4, <5>1, <5>2
      <4>6. ASSUME NEW j \in 1 .. k
            PROVE  /\ start[j] <= start[k]
                   /\ \A i \in 1 .. Len(seqs[j]) : flat[k][start[j - 1] + i] = seqs[j][i]
        <5>1. j \in 1 .. m /\ j - 1 \in 0 .. m /\ start[j] \in Nat /\ start[j - 1] \in Nat
          BY <1>1, <2>7, <4>1
        <5>2. CASE j = k
          <6>1. ASSUME NEW i \in 1 .. Len(seqs[j]) PROVE flat[k][start[j - 1] + i] = seqs[j][i]
            <7>1. flat[k - 1] \in Seq(S) /\ Len(flat[k - 1]) = start[k - 1]
              BY <4>2
            <7>2. flat[k][Len(flat[k - 1]) + i] = seqs[k][i]
              <8>1. i \in 1 .. Len(seqs[k])
                BY <5>2, <6>1
              <8>2. (flat[k - 1] \o seqs[k])[Len(flat[k - 1]) + i] = seqs[k][i]
                BY <4>3, <7>1, <8>1, ConcatRight, ZenonT(30)
              <8> QED
                BY <4>3, <8>2, Zenon
            <7> QED
              BY <5>2, <7>1, <7>2
          <6> QED
            BY <4>4, <5>2, <6>1
        <5>3. CASE j # k
          <6>1. j \in 1 .. k - 1
            BY <4>1, <5>3
          <6>2. start[j] <= start[k - 1] /\ start[j] = start[j - 1] + Len(seqs[j])
            BY <2>7, <4>2, <5>1, <6>1
          <6>3. ASSUME NEW i \in 1 .. Len(seqs[j]) PROVE flat[k][start[j - 1] + i] = seqs[j][i]
            <7>0. flat[k - 1] \in Seq(S) /\ Len(flat[k - 1]) = start[k - 1]
              BY <4>2
            <7>1. start[j - 1] + i \in 1 .. Len(flat[k - 1])
              <8>1. Len(seqs[j]) \in Nat /\ i \in 1 .. Len(seqs[j])
                BY <1>1, <5>1, <6>3
              <8> QED
                BY <4>4, <5>1, <6>2, <7>0, <8>1, SMTT(30)
            <7>2. flat[k][start[j - 1] + i] = flat[k - 1][start[j - 1] + i]
              <8> DEFINE x == start[j - 1] + i
              <8> HIDE DEF x
              <8>1. x \in 1 .. Len(flat[k - 1])
                BY <7>1 DEF x
              <8>2. (flat[k - 1] \o seqs[k])[x] = flat[k - 1][x]
                BY <4>3, <7>0, <8>1, ConcatLeft, Zenon
              <8> QED
                BY <4>3, <8>2, Zenon DEF x
            <7>3. flat[k - 1][start[j - 1] + i] = seqs[j][i]
              BY <4>2, <6>1, <6>3
            <7> QED
              BY <7>2, <7>3
          <6> QED
            BY <4>4, <5>1, <6>2, <6>3
        <5> QED
          BY <5>2, <5>3
      <4> QED
        BY <4>5, <4>6
    <3> QED
      BY <3>1, <3>2
  <2> HIDE DEF Placed
  <2>9. 0 \in K
    BY <1>1
  <2>10. \A k \in 1 .. m : k - 1 \in K => k \in K
    BY <1>1, <2>8
  <2>11. \A k \in 0 .. m : k \in K
    <3> HIDE DEF K
    <3> QED
      BY <1>1, <2>9, <2>10, UpTo
  <2>12. Placed(m)
    BY <1>1, <1>3, <2>11
  <2> QED
    BY <2>5, <2>12 DEF Placed, m
<1> QED
  BY <1>2, <1>3

LEMMA Placement ==
  ASSUME NEW S, NEW seqs, Pieces(S, seqs), NEW start, Starts(start, seqs)
  PROVE  \A k \in 1 .. Len(seqs) :
           SubSeq(FlattenSeq(seqs), start[k - 1] + 1, start[k]) = seqs[k]
<1> DEFINE flat == FlattenSeq(seqs)
           m == Len(seqs)
<1>1. TAKE k \in 1 .. m
<1>2. /\ m \in Nat /\ k - 1 \in 0 .. m /\ k \in 0 .. m /\ m \in 0 .. m
      /\ seqs[k] \in Seq(S) /\ Len(seqs[k]) \in Nat
  BY DEF Pieces
<1>3. /\ start[k] = start[k - 1] + Len(seqs[k])
      /\ start[k] \in Nat /\ start[k - 1] \in Nat /\ start[m] \in Nat
  BY <1>2 DEF Starts
<1>4. /\ flat \in Seq(S) /\ Len(flat) = start[m] /\ start[k] <= start[m]
      /\ \A i \in 1 .. Len(seqs[k]) : flat[start[k - 1] + i] = seqs[k][i]
  BY FlattenPlaces
<1> HIDE DEF flat, m
<1> DEFINE sub == SubSeq(flat, start[k - 1] + 1, start[k])
<1>a. start[k - 1] <= start[k] /\ start[k] <= Len(flat) /\ start[k] - start[k - 1] = Len(seqs[k])
  BY <1>2, <1>3, <1>4
<1>5. /\ sub \in Seq(S) /\ Len(sub) = Len(seqs[k])
      /\ \A i \in 1 .. Len(seqs[k]) : sub[i] = flat[start[k - 1] + i]
  <2>1. flat \in Seq(S) /\ start[k - 1] \in Nat /\ start[k] \in Nat
    BY <1>3, <1>4
  <2>2. /\ sub \in Seq(S) /\ Len(sub) = start[k] - start[k - 1]
    BY <1>a, <2>1, CutIn, Zenon
  <2>3. ASSUME NEW i \in 1 .. start[k] - start[k - 1] PROVE sub[i] = flat[start[k - 1] + i]
    BY <1>a, <2>1, <2>3, CutAt, Zenon
  <2> HIDE DEF sub
  <2> QED
    BY <1>a, <2>2, <2>3
<1>6. ASSUME NEW i \in 1 .. Len(seqs[k]) PROVE sub[i] = seqs[k][i]
  BY <1>4, <1>5, <1>6
<1> HIDE DEF sub
<1>7. sub = seqs[k]
  BY <1>2, <1>5, <1>6, SeqEqual
<1> QED
  BY <1>7 DEF sub, flat

(* Pieces of the same width.                                                *)
PlacedEvery(S, seqs, w) ==
  /\ FlattenSeq(seqs) \in Seq(S)
  /\ Len(FlattenSeq(seqs)) = Len(seqs) * w
  /\ \A k \in 1 .. Len(seqs) :
       /\ SubSeq(FlattenSeq(seqs), (k - 1) * w + 1, k * w) = seqs[k]
       /\ \A i \in 1 .. w : FlattenSeq(seqs)[(k - 1) * w + i] = seqs[k][i]

LEMMA EqualPlacement ==
  ASSUME NEW S, NEW seqs, Pieces(S, seqs), NEW w \in Nat, \A k \in 1 .. Len(seqs) : Len(seqs[k]) = w
  PROVE  PlacedEvery(S, seqs, w)
<1> DEFINE m == Len(seqs)
           start == [k \in 0 .. m |-> k * w]
<1>1. m \in Nat
  BY DEF Pieces
<1>2. \A k \in 1 .. m : start[k] = k * w /\ start[k - 1] = (k - 1) * w /\ start[m] = m * w
  BY <1>1
<1>3. Starts(start, seqs)
  <2>1. start \in [0 .. m -> Nat]
    <3>1. \A k \in 0 .. m : k * w \in Nat
      OBVIOUS
    <3> QED
      BY <3>1
  <2>2. start[0] = 0
    OBVIOUS
  <2>3. \A k \in 1 .. m : k * w = (k - 1) * w + w
    BY <1>1
  <2> HIDE DEF start
  <2> QED
    BY <1>2, <2>1, <2>2, <2>3 DEF Starts
<1>4. start[m] = m * w
  BY <1>1
<1> HIDE DEF start
<1>5. /\ FlattenSeq(seqs) \in Seq(S) /\ Len(FlattenSeq(seqs)) = start[m]
      /\ \A k \in 1 .. m : \A i \in 1 .. Len(seqs[k]) :
           FlattenSeq(seqs)[start[k - 1] + i] = seqs[k][i]
  BY <1>3, FlattenPlaces
<1>6. \A k \in 1 .. m : SubSeq(FlattenSeq(seqs), start[k - 1] + 1, start[k]) = seqs[k]
  BY <1>3, Placement, Zenon
<1>7. ASSUME NEW k \in 1 .. m
      PROVE  /\ SubSeq(FlattenSeq(seqs), (k - 1) * w + 1, k * w) = seqs[k]
             /\ \A i \in 1 .. w : FlattenSeq(seqs)[(k - 1) * w + i] = seqs[k][i]
  <2>1. start[k] = k * w /\ start[k - 1] = (k - 1) * w /\ Len(seqs[k]) = w
    BY <1>2
  <2> QED
    BY <1>5, <1>6, <2>1, Zenon
<1> QED
  BY <1>4, <1>5, <1>7, Zenon DEF PlacedEvery

LEMMA StartsExist ==
  ASSUME NEW S, NEW seqs, Pieces(S, seqs)
  PROVE  \E start : Starts(start, seqs)
<1> DEFINE n == Len(seqs)
           step == [x \in (1 .. n) \X Nat |-> x[2] + Len(seqs[x[1]])]
<1>1. n \in Nat /\ \A k \in 1 .. n : Len(seqs[k]) \in Nat
  BY DEF Pieces
<1> HIDE DEF n
<1>2. step \in [(1 .. n) \X Nat -> Nat]
  <2>1. ASSUME NEW x \in (1 .. n) \X Nat PROVE x[2] + Len(seqs[x[1]]) \in Nat
    BY <1>1
  <2> QED
    BY <2>1
<1>3. PICK f \in [0 .. n -> Nat] : SolvesRecursion(f, 0, n, step)
  <2> HIDE DEF step
  <2> QED
    BY <1>1, <1>2, RecursionExists, Zenon
<1>4. f[0] = 0
  <2> HIDE DEF step
  <2>1. 0 \in 0 .. n
    BY <1>1
  <2> QED
    BY <1>3, <2>1 DEF SolvesRecursion
<1>5. ASSUME NEW k \in 1 .. n PROVE f[k] = f[k - 1] + Len(seqs[k])
  <2>1. f[k - 1] \in Nat
    BY <1>1
  <2>2. f[k] = step[<<k, f[k - 1]>>]
    <3> HIDE DEF step
    <3> QED
      BY <1>1, <1>3 DEF SolvesRecursion
  <2> QED
    BY <2>1, <2>2
<1>6. Starts(f, seqs)
  BY <1>4, <1>5 DEF Starts, n
<1> QED
  BY <1>6

LEMMA FlattenIn ==
  ASSUME NEW S, NEW seqs, Pieces(S, seqs)
  PROVE  FlattenSeq(seqs) \in Seq(S)
<1>1. PICK start : Starts(start, seqs)
  BY StartsExist
<1> QED
  BY <1>1, FlattenPlaces

LEMMA CutEquals ==
  ASSUME NEW S, NEW s \in Seq(S), NEW i \in Nat, NEW j \in Nat, i <= j, j <= Len(s),
         NEW T, NEW t \in Seq(T), Len(t) = j - i, \A k \in 1 .. Len(t) : s[i + k] = t[k]
  PROVE  SubSeq(s, i + 1, j) = t
<1> DEFINE sub == SubSeq(s, i + 1, j)
<1>1. sub \in Seq(S) /\ Len(sub) = j - i
  BY CutIn, Zenon
<1>2. ASSUME NEW k \in 1 .. j - i PROVE sub[k] = t[k]
  <2>1. sub[k] = s[i + k]
    BY CutAt, Zenon
  <2> QED
    BY <1>2, <2>1
<1> HIDE DEF sub
<1>3. sub = t
  BY <1>1, <1>2
<1> QED
  BY <1>3 DEF sub

LEMMA DivBack ==
  ASSUME NEW n \in Nat, NEW w \in Nat \ {0}
  PROVE  (n * w) \div w = n
OBVIOUS

-----------------------------------------------------------------------------
(* A column under any encoding gives its values back.                       *)
Fitting(w) == {v \in Nat : Fits(v, w)}

LEMMA FittingIs ==
  ASSUME NEW w \in Nat, NEW vals \in Seq(Fitting(w)), NEW i \in 1 .. Len(vals)
  PROVE  vals[i] \in Nat /\ Fits(vals[i], w) /\ vals[i] \in Fitting(w)
BY DEF Fitting

LEMMA ImagesIs ==
  ASSUME NEW w \in Nat \ {0}, NEW o \in {0, 1}, NEW vals \in Seq(Fitting(w))
  PROVE  /\ Images(vals, w, o) \in Seq(Nat)
         /\ Len(Images(vals, w, o)) = Len(vals) * w
         /\ Words(Images(vals, w, o), w, o) = vals
<1> DEFINE seqs == [i \in DOMAIN vals |-> Image(vals[i], w, o)]
           bytes == FlattenSeq(seqs)
           n == Len(vals)
<1>1. n \in Nat /\ DOMAIN vals = 1 .. n
  OBVIOUS
<1>2. \A i \in 1 .. n : Image(vals[i], w, o) \in Seq(Nat) /\ Len(Image(vals[i], w, o)) = w
  BY FittingIs, ImageIs
<1>3. /\ Pieces(Nat, seqs) /\ Len(seqs) = n
      /\ \A i \in 1 .. n : seqs[i] = Image(vals[i], w, o) /\ Len(seqs[i]) = w
  BY <1>1, <1>2 DEF Pieces
<1>4. Images(vals, w, o) = bytes
  BY DEF Images
<1> HIDE DEF seqs, n
<1>5. /\ bytes \in Seq(Nat) /\ Len(bytes) = n * w
      /\ \A i \in 1 .. n : SubSeq(bytes, (i - 1) * w + 1, i * w) = seqs[i]
  <2>1. /\ bytes \in Seq(Nat) /\ Len(bytes) = Len(seqs) * w
        /\ \A i \in 1 .. Len(seqs) :
             /\ SubSeq(bytes, (i - 1) * w + 1, i * w) = seqs[i]
             /\ \A j \in 1 .. w : bytes[(i - 1) * w + j] = seqs[i][j]
    <3>1. w \in Nat /\ \A k \in 1 .. Len(seqs) : Len(seqs[k]) = w
      BY <1>3
    <3>2. PlacedEvery(Nat, seqs, w)
      BY <1>3, <3>1, EqualPlacement, Zenon
    <3> QED
      BY <3>2, Zenon DEF PlacedEvery
  <2> QED
    BY <1>3, <2>1, Zenon
<1> HIDE DEF bytes
<1>6. Len(bytes) \div w = n
  BY <1>1, <1>5, DivBack
<1>7. ASSUME NEW i \in 1 .. n
      PROVE  Word(SubSeq(bytes, (i - 1) * w + 1, i * w), o) = vals[i]
  <2>1. vals[i] \in Nat /\ Fits(vals[i], w) /\ w \in Nat
    BY <1>7, FittingIs DEF n
  <2>2. Word(Image(vals[i], w, o), o) = vals[i]
    BY <2>1, WordOfImage
  <2>3. SubSeq(bytes, (i - 1) * w + 1, i * w) = Image(vals[i], w, o)
    BY <1>3, <1>5, <1>7, Zenon
  <2> QED
    BY <2>2, <2>3
<1>8. Words(bytes, w, o) = [i \in 1 .. n |-> vals[i]]
  BY <1>6, <1>7 DEF Words
<1>9. vals = [i \in 1 .. n |-> vals[i]]
  BY <1>1
<1> QED
  BY <1>4, <1>5, <1>8, <1>9 DEF n

LEMMA RunsWrittenAre ==
  ASSUME NEW w \in Nat \ {0}, NEW o \in {0, 1}, NEW vals \in Seq(Fitting(w))
  PROVE  /\ Decode("rle", Encode("rle", vals, w, o), w, o) = vals
         /\ Encode("rle", vals, w, o) \in Seq(Nat)
         /\ Len(Encode("rle", vals, w, o)) = Len(RunLengthEncode(vals)) * (w + 1)
<1> DEFINE runs == RunLengthEncode(vals)
           S == Fitting(w)
           seqs == [k \in DOMAIN runs |-> <<runs[k].n>> \o Image(runs[k].v, w, o)]
           bytes == FlattenSeq(seqs)
           n == Len(runs)
           u == w + 1
<1>1. runs \in Seq(RunSet(S)) /\ Expanded(runs) = vals
  BY EncodeIs
<1>2. RunLengthDecode(runs) = vals
  BY <1>1, DecodeIs
<1>3. Encode("rle", vals, w, o) = bytes
  BY DEF Encode
<1> HIDE DEF runs
<1>4. n \in Nat /\ DOMAIN runs = 1 .. n /\ u \in Nat \ {0}
  BY <1>1
<1>5. ASSUME NEW k \in 1 .. n
      PROVE  /\ runs[k].n \in Nat /\ runs[k].v \in Nat /\ Fits(runs[k].v, w)
             /\ runs[k] = Run(runs[k].n, runs[k].v)
             /\ Image(runs[k].v, w, o) \in Seq(Nat) /\ Len(Image(runs[k].v, w, o)) = w
  <2>1. runs[k].n \in Nat \ {0} /\ runs[k].v \in S /\ runs[k] = Run(runs[k].n, runs[k].v)
    BY <1>1, RunFields
  <2>2. runs[k].v \in Nat /\ Fits(runs[k].v, w)
    BY <2>1 DEF Fitting
  <2> QED
    BY <2>1, <2>2, ImageIs
<1>6. ASSUME NEW k \in 1 .. n
      PROVE  /\ <<runs[k].n>> \o Image(runs[k].v, w, o) \in Seq(Nat)
             /\ Len(<<runs[k].n>> \o Image(runs[k].v, w, o)) = u
             /\ (<<runs[k].n>> \o Image(runs[k].v, w, o))[1] = runs[k].n
             /\ \A j \in 1 .. w : (<<runs[k].n>> \o Image(runs[k].v, w, o))[1 + j] = Image(runs[k].v, w, o)[j]
  <2> DEFINE img == Image(runs[k].v, w, o)
             c == runs[k].n
  <2>1. img \in Seq(Nat) /\ Len(img) = w /\ c \in Nat
    BY <1>5
  <2> HIDE DEF img, c
  <2>2. <<c>> \in Seq(Nat) /\ Len(<<c>>) = 1 /\ <<c>>[1] = c
    BY <2>1
  <2>3. <<c>> \o img \in Seq(Nat) /\ Len(<<c>> \o img) = u /\ (<<c>> \o img)[1] = c
    BY <2>1, <2>2
  <2>4. ASSUME NEW j \in 1 .. w PROVE (<<c>> \o img)[1 + j] = img[j]
    <3>1. (<<c>> \o img)[Len(<<c>>) + j] = img[j]
      BY <2>1, <2>2, <2>4, ConcatRight
    <3> QED
      BY <2>2, <3>1
  <2> QED
    BY <2>3, <2>4 DEF img, c
<1>7. /\ Pieces(Nat, seqs) /\ Len(seqs) = n
      /\ \A k \in 1 .. n : seqs[k] = <<runs[k].n>> \o Image(runs[k].v, w, o) /\ Len(seqs[k]) = u
  <2> DEFINE piece(k) == <<runs[k].n>> \o Image(runs[k].v, w, o)
  <2>1. \A k \in 1 .. n : piece(k) \in Seq(Nat) /\ Len(piece(k)) = u
    BY <1>6
  <2>2. seqs = [k \in 1 .. n |-> piece(k)]
    BY <1>4
  <2> HIDE DEF piece, seqs, u, n
  <2>3. Pieces(Nat, seqs) /\ Len(seqs) = n /\ \A k \in 1 .. n : seqs[k] = piece(k)
    BY <1>4, <2>1, <2>2 DEF Pieces
  <2> QED
    BY <2>1, <2>3 DEF piece
<1> HIDE DEF seqs, u, n
<1>8. /\ bytes \in Seq(Nat) /\ Len(bytes) = n * u
      /\ \A k \in 1 .. n : \A i \in 1 .. u : bytes[(k - 1) * u + i] = seqs[k][i]
  <2>1. /\ bytes \in Seq(Nat) /\ Len(bytes) = Len(seqs) * u
        /\ \A k \in 1 .. Len(seqs) :
             /\ SubSeq(bytes, (k - 1) * u + 1, k * u) = seqs[k]
             /\ \A i \in 1 .. u : bytes[(k - 1) * u + i] = seqs[k][i]
    <3>1. u \in Nat /\ \A k \in 1 .. Len(seqs) : Len(seqs[k]) = u
      BY <1>4, <1>7
    <3>2. PlacedEvery(Nat, seqs, u)
      BY <1>7, <3>1, EqualPlacement, Zenon
    <3> QED
      BY <3>2, Zenon DEF PlacedEvery
  <2> QED
    BY <1>7, <2>1, Zenon
<1> HIDE DEF bytes
<1>9. Len(bytes) \div u = n
  BY <1>4, <1>8, DivBack
<1>10. ASSUME NEW k \in 1 .. n
       PROVE  /\ bytes[(k - 1) * u + 1] = runs[k].n
              /\ Word(SubSeq(bytes, (k - 1) * u + 1 + 1, (k - 1) * u + 1 + w), o) = runs[k].v
  <2> DEFINE at == (k - 1) * u + 1
             img == Image(runs[k].v, w, o)
  <2>1. at \in Nat /\ at + w \in Nat /\ at <= at + w /\ (at + w) - at = w
    BY <1>4
  <2>2. at + w = k * u
    BY <1>4 DEF u
  <2>3. k * u <= n * u
    BY <1>4
  <2>4. bytes[at] = runs[k].n
    <3>1. 1 \in 1 .. u
      BY <1>4
    <3>2. bytes[(k - 1) * u + 1] = seqs[k][1]
      BY <1>8, <3>1
    <3>3. seqs[k][1] = runs[k].n
      BY <1>6, <1>7, Zenon
    <3> QED
      BY <3>2, <3>3
  <2>5. ASSUME NEW j \in 1 .. w PROVE bytes[at + j] = img[j]
    <3>1. 1 + j \in 1 .. u /\ at + j = (k - 1) * u + (1 + j)
      BY <1>4 DEF u
    <3>2. bytes[(k - 1) * u + (1 + j)] = seqs[k][1 + j]
      BY <1>8, <3>1
    <3>3. seqs[k][1 + j] = img[j]
      BY <1>6, <1>7
    <3> HIDE DEF at, img
    <3> QED
      BY <3>1, <3>2, <3>3
  <2>6. img \in Seq(Nat) /\ Len(img) = w
    BY <1>5
  <2> HIDE DEF at, img
  <2>7. SubSeq(bytes, at + 1, at + w) = img
    BY <1>8, <2>1, <2>2, <2>3, <2>5, <2>6, CutEquals
  <2>8. Word(img, o) = runs[k].v
    BY <1>5, WordOfImage DEF img
  <2> QED
    BY <2>4, <2>7, <2>8 DEF at
<1>11. Decode("rle", bytes, w, o)
         = RunLengthDecode([k \in 1 .. n |->
             LET at == (k - 1) * u + 1
             IN Run(bytes[at], Word(SubSeq(bytes, at + 1, at + w), o))])
  BY <1>9 DEF Decode, u
<1>12. [k \in 1 .. n |->
          LET at == (k - 1) * u + 1
          IN Run(bytes[at], Word(SubSeq(bytes, at + 1, at + w), o))] = [k \in 1 .. n |-> runs[k]]
  BY <1>5, <1>10
<1>13. runs = [k \in 1 .. n |-> runs[k]]
  BY <1>1, <1>4
<1> QED
  BY <1>2, <1>3, <1>8, <1>11, <1>12, <1>13 DEF runs, n, u

(* A byte, or what deflate made of a sequence of them.                      *)
Bytes == Nat \cup {[deflated |-> bytes] : bytes \in Seq(Nat)}

LEMMA BytesIs == Seq(Nat) \subseteq Seq(Bytes)
BY SeqMonotonic DEF Bytes

LEMMA DeflatedIs ==
  ASSUME NEW bytes \in Seq(Nat)
  PROVE  /\ Deflated(bytes) \in Seq(Bytes) /\ Len(Deflated(bytes)) = 1
         /\ Inflated(Deflated(bytes)) = bytes
<1> DEFINE r == [deflated |-> bytes]
<1>1. r \in Bytes /\ r.deflated = bytes
  BY DEF Bytes
<1> HIDE DEF r
<1>2. Deflated(bytes) = <<r>>
  BY DEF Deflated, r
<1> QED
  BY <1>1, <1>2 DEF Inflated

Encoding == {"none", "rle", "zlib"}

Keeps(enc, vals, w, o) ==
  /\ Decode(enc, Encode(enc, vals, w, o), w, o) = vals
  /\ Encode(enc, vals, w, o) \in Seq(Bytes)
  /\ Len(Encode(enc, vals, w, o)) \in 0 .. Len(vals) * (w + 1)

LEMMA ColumnKept ==
  ASSUME NEW w \in Nat \ {0}, NEW o \in {0, 1}, NEW vals \in Seq(Fitting(w)), vals # <<>>,
         NEW enc \in Encoding
  PROVE  Keeps(enc, vals, w, o)
<1> DEFINE img == Images(vals, w, o)
           n == Len(vals)
<1>1. img \in Seq(Nat) /\ Len(img) = n * w /\ Words(img, w, o) = vals
  BY ImagesIs
<1>2. n \in Nat \ {0} /\ Len(vals) = n
  OBVIOUS
<1>3. n * w <= n * (w + 1) /\ 1 <= n * (w + 1) /\ n * w \in Nat /\ n * (w + 1) \in Nat
  <2> HIDE DEF n
  <2>1. n * (w + 1) = n * w + n
    BY <1>2
  <2>2. n * w \in Nat
    BY <1>2
  <2> QED
    BY <1>2, <2>1, <2>2
<1> HIDE DEF n
<1>4. CASE enc = "none"
  <2>1. Encode(enc, vals, w, o) = img
    BY <1>4 DEF Encode
  <2>2. Decode(enc, img, w, o) = Words(img, w, o)
    BY <1>4 DEF Decode
  <2> HIDE DEF img
  <2> QED
    BY <1>1, <1>2, <1>3, <2>1, <2>2, BytesIs DEF Keeps
<1>5. CASE enc = "zlib"
  <2>1. Encode(enc, vals, w, o) = Deflated(img)
    BY <1>5 DEF Encode
  <2>2. Decode(enc, Deflated(img), w, o) = Words(Inflated(Deflated(img)), w, o)
    BY <1>5 DEF Decode
  <2> HIDE DEF img
  <2> QED
    BY <1>1, <1>2, <1>3, <2>1, <2>2, DeflatedIs DEF Keeps
<1>6. CASE enc = "rle"
  <2> DEFINE runs == RunLengthEncode(vals)
             bytes == Encode("rle", vals, w, o)
             r == Len(runs)
  <2>1. runs \in Seq(RunSet(Fitting(w))) /\ Expanded(runs) = vals
    BY EncodeIs
  <2>2. Len(runs) <= Total(runs) /\ Total(runs) = n
    BY <1>2, <2>1, RunsFit, ExpandedIn
  <2>3. r \in Nat /\ r <= n
    BY <2>1, <2>2
  <2>4. Decode("rle", bytes, w, o) = vals /\ bytes \in Seq(Nat) /\ Len(bytes) = r * (w + 1)
    BY RunsWrittenAre
  <2> HIDE DEF bytes, r
  <2>5. r * (w + 1) \in Nat /\ r * (w + 1) <= n * (w + 1)
    BY <1>2, <2>3
  <2> QED
    BY <1>2, <1>3, <1>6, <2>4, <2>5, BytesIs DEF bytes, Keeps
<1> QED
  BY <1>4, <1>5, <1>6 DEF Encoding

-----------------------------------------------------------------------------
(* Where the dimensions of a point lie.                                     *)

LEMMA PcidIs ==
  ASSUME NEW p \in Pcid
  PROVE  /\ NDims(p) \in Nat \ {0}
         /\ \A d \in 1 .. NDims(p) : Widths[p][d] \in Nat \ {0}
         /\ DOMAIN Widths[p] = 1 .. NDims(p)
<1>1. Widths[p] \in Seq(Nat \ {0}) /\ Widths[p] # <<>>
  BY LayoutAssumption
<1> QED
  BY <1>1 DEF NDims

LEMMA PastSteps ==
  ASSUME NEW p \in Pcid
  PROVE  /\ Past(p, 0) = 0
         /\ \A d \in 1 .. NDims(p) : Past(p, d) = Past(p, d - 1) + Widths[p][d]
         /\ \A d \in 0 .. NDims(p) : Past(p, d) \in Nat
<1> DEFINE n == NDims(p)
           step == [x \in (1 .. n) \X Nat |-> x[2] + Widths[p][x[1]]]
           Body1(f) == [k \in 0 .. n |-> IF k = 0 THEN 0 ELSE f[k - 1] + Widths[p][k]]
           past == CHOOSE f : f = Body1(f)
<1>1. n \in Nat /\ \A d \in 1 .. n : Widths[p][d] \in Nat
  BY PcidIs
<1> HIDE DEF n
<1>2. step \in [(1 .. n) \X Nat -> Nat]
  <2>1. ASSUME NEW x \in (1 .. n) \X Nat PROVE x[2] + Widths[p][x[1]] \in Nat
    BY <1>1
  <2> QED
    BY <2>1
<1>3. PICK f \in [0 .. n -> Nat] : SolvesRecursion(f, 0, n, step)
  <2> HIDE DEF step
  <2> QED
    BY <1>1, <1>2, RecursionExists, Zenon
<1>4. f = Body1(f)
  <2>1. ASSUME NEW k \in 1 .. n PROVE f[k] = f[k - 1] + Widths[p][k]
    <3>1. f[k - 1] \in Nat
      BY <1>1
    <3>2. f[k] = step[<<k, f[k - 1]>>]
      <4> HIDE DEF step
      <4> QED
        BY <1>1, <1>3 DEF SolvesRecursion
    <3> QED
      BY <3>1, <3>2
  <2>2. f[0] = 0
    <3> HIDE DEF step, Body1
    <3>1. 0 \in 0 .. n
      BY <1>1
    <3> QED
      BY <1>3, <3>1 DEF SolvesRecursion
  <2> QED
    BY <1>1, <2>1, <2>2
<1>5. past = Body1(past)
  <2> HIDE DEF Body1
  <2> QED
    BY <1>4, Zenon
<1>6. \A d : Past(p, d) = past[d]
  BY DEF Past, n
<1> HIDE DEF past
<1>7. past[0] = 0 /\ \A k \in 1 .. n : past[k] = past[k - 1] + Widths[p][k]
  BY <1>1, <1>5
<1>8. \A k \in 0 .. n : past[k] \in Nat
  <2> DEFINE K == {k \in 0 .. n : past[k] \in Nat}
  <2>1. 0 \in K
    BY <1>1, <1>7
  <2>2. ASSUME NEW k \in 1 .. n, k - 1 \in K PROVE k \in K
    <3>1. past[k - 1] \in Nat /\ past[k] = past[k - 1] + Widths[p][k] /\ k \in 0 .. n
      BY <1>1, <1>7, <2>2
    <3> QED
      BY <1>1, <3>1
  <2> HIDE DEF K
  <2>3. \A k \in 0 .. n : k \in K
    BY <1>1, <2>1, <2>2, UpTo
  <2> QED
    BY <2>3 DEF K
<1> QED
  BY <1>6, <1>7, <1>8, Zenon DEF n

LEMMA OffsetIs ==
  ASSUME NEW p \in Pcid, NEW d \in 1 .. NDims(p)
  PROVE  /\ Offset(p, d) \in Nat /\ Size(p) \in Nat
         /\ Past(p, d) = Offset(p, d) + Widths[p][d]
         /\ Offset(p, d) + Widths[p][d] <= Size(p)
<1> DEFINE n == NDims(p)
           K == {k \in 0 .. n : d <= k => Past(p, d) <= Past(p, k)}
<1>1. /\ n \in Nat /\ d \in 0 .. n /\ d - 1 \in 0 .. n /\ n \in 0 .. n
      /\ \A k \in 1 .. n : Widths[p][k] \in Nat
  BY PcidIs
<1>2. /\ \A k \in 1 .. n : Past(p, k) = Past(p, k - 1) + Widths[p][k]
      /\ \A k \in 0 .. n : Past(p, k) \in Nat
  BY PastSteps
<1>3. d \in 1 .. n
  OBVIOUS
<1> HIDE DEF n
<1>4. 0 \in K
  BY <1>1, <1>3
<1>5. ASSUME NEW k \in 1 .. n, k - 1 \in K PROVE k \in K
  <2>1. /\ Past(p, k) = Past(p, k - 1) + Widths[p][k]
        /\ Past(p, k) \in Nat /\ Past(p, k - 1) \in Nat /\ Past(p, d) \in Nat
        /\ Widths[p][k] \in Nat /\ k \in 0 .. n
    BY <1>1, <1>2
  <2>2. d <= k - 1 => Past(p, d) <= Past(p, k - 1)
    BY <1>5
  <2>3. d <= k => Past(p, d) <= Past(p, k)
    BY <1>1, <1>3, <2>1, <2>2
  <2> QED
    BY <2>1, <2>3
<1>6. \A k \in 0 .. n : k \in K
  <2> HIDE DEF K
  <2> QED
    BY <1>1, <1>4, <1>5, UpTo
<1>7. Past(p, d) <= Past(p, n)
  BY <1>1, <1>3, <1>6
<1>8. Past(p, d) = Past(p, d - 1) + Widths[p][d] /\ Past(p, d - 1) \in Nat /\ Past(p, n) \in Nat
  BY <1>1, <1>2, <1>3
<1> QED
  BY <1>7, <1>8 DEF Offset, Size, n

(* Every byte of a point belongs to a dimension.                            *)
LEMMA DimensionAt ==
  ASSUME NEW p \in Pcid, NEW at \in 1 .. Size(p)
  PROVE  \E d \in 1 .. NDims(p) : Offset(p, d) < at /\ at <= Offset(p, d) + Widths[p][d]
<1> DEFINE n == NDims(p)
           T == {k \in 0 .. n : at <= Past(p, k)}
<1>1. /\ n \in Nat /\ n \in 0 .. n
      /\ \A k \in 0 .. n : Past(p, k) \in Nat
      /\ Past(p, 0) = 0 /\ Size(p) = Past(p, n)
      /\ \A k \in 1 .. n : Past(p, k) = Past(p, k - 1) + Widths[p][k]
  BY PcidIs, PastSteps DEF Size
<1> HIDE DEF n
<1>2. at \in Nat \ {0} /\ at <= Past(p, n)
  BY <1>1
<1>3. T \subseteq Nat /\ T # {}
  BY <1>1, <1>2
<1>4. PICK d \in T : \A k \in T : d <= k
  <2> HIDE DEF T
  <2> QED
    BY <1>3, LeastNat
<1>5. d \in 0 .. n /\ at <= Past(p, d) /\ d # 0
  BY <1>1, <1>2, <1>4
<1>6. d \in 1 .. n /\ d - 1 \in 0 .. n
  BY <1>1, <1>5
<1>7. d - 1 \notin T
  BY <1>1, <1>4, <1>6
<1>8. ~ (at <= Past(p, d - 1))
  BY <1>6, <1>7
<1>9. Past(p, d - 1) \in Nat /\ Past(p, d) = Past(p, d - 1) + Widths[p][d]
  BY <1>1, <1>6
<1>10. Past(p, d - 1) < at
  BY <1>2, <1>8, <1>9
<1> QED
  BY <1>5, <1>6, <1>9, <1>10 DEF Offset, n

-----------------------------------------------------------------------------
(* Uncompressed points.                                                     *)
PointSet(p) ==
  {pt \in [1 .. NDims(p) -> Nat] : \A d \in 1 .. NDims(p) : Fits(pt[d], Widths[p][d])}

LEMMA PointImage ==
  ASSUME NEW p \in Pcid, NEW pt \in PointSet(p), NEW o \in {0, 1}, NEW d \in 1 .. NDims(p)
  PROVE  /\ pt[d] \in Nat /\ Fits(pt[d], Widths[p][d])
         /\ Image(pt[d], Widths[p][d], o) \in Seq(Nat)
         /\ Len(Image(pt[d], Widths[p][d], o)) = Widths[p][d]
         /\ Word(Image(pt[d], Widths[p][d], o), o) = pt[d]
         /\ \A j \in 1 .. Widths[p][d] :
              Image(pt[d], Widths[p][d], o)[Widths[p][d] + 1 - j] = Image(pt[d], Widths[p][d], 1 - o)[j]
<1>1. pt[d] \in Nat /\ Fits(pt[d], Widths[p][d])
  BY DEF PointSet
<1>2. Widths[p][d] \in Nat
  BY PcidIs
<1> QED
  BY <1>1, <1>2, ImageIs, WordOfImage, ZenonT(30)

OnePoint(p, pt, o) == FlattenSeq([d \in 1 .. NDims(p) |-> Image(pt[d], Widths[p][d], o)])

LEMMA OnePointIs ==
  ASSUME NEW p \in Pcid, NEW pt \in PointSet(p), NEW o \in {0, 1}
  PROVE  /\ OnePoint(p, pt, o) \in Seq(Nat)
         /\ Len(OnePoint(p, pt, o)) = Size(p)
         /\ \A d \in 1 .. NDims(p) : \A j \in 1 .. Widths[p][d] :
              OnePoint(p, pt, o)[Offset(p, d) + j] = Image(pt[d], Widths[p][d], o)[j]
<1> DEFINE n == NDims(p)
           piece(d) == Image(pt[d], Widths[p][d], o)
           seqs == [d \in 1 .. n |-> piece(d)]
           start == [d \in 0 .. n |-> Past(p, d)]
<1>1. n \in Nat /\ n \in 0 .. n
  BY PcidIs
<1>2. \A d \in 1 .. n : piece(d) \in Seq(Nat) /\ Len(piece(d)) = Widths[p][d]
  BY PointImage
<1>3. OnePoint(p, pt, o) = FlattenSeq(seqs)
  BY DEF OnePoint
<1> HIDE DEF n, piece
<1>4. Pieces(Nat, seqs) /\ Len(seqs) = n /\ \A d \in 1 .. n : seqs[d] = piece(d)
  BY <1>1, <1>2 DEF Pieces
<1>5. /\ Past(p, 0) = 0 /\ \A d \in 0 .. n : Past(p, d) \in Nat
      /\ \A d \in 1 .. n : Past(p, d) = Past(p, d - 1) + Widths[p][d]
  BY PastSteps DEF n
<1>6. start \in [0 .. n -> Nat] /\ \A d \in 0 .. n : start[d] = Past(p, d)
  BY <1>5
<1> HIDE DEF start, seqs
<1>7. \A d \in 1 .. n : start[d] = start[d - 1] + Len(seqs[d])
  <2> TAKE d \in 1 .. n
  <2>1. d \in 0 .. n /\ d - 1 \in 0 .. n
    BY <1>1
  <2>2. Len(seqs[d]) = Widths[p][d]
    BY <1>2, <1>4
  <2> QED
    BY <1>5, <1>6, <2>1, <2>2
<1>8. start[0] = 0
  BY <1>1, <1>5, <1>6
<1>9. Starts(start, seqs)
  BY <1>4, <1>6, <1>7, <1>8 DEF Starts
<1>10. /\ FlattenSeq(seqs) \in Seq(Nat) /\ Len(FlattenSeq(seqs)) = start[Len(seqs)]
       /\ \A k \in 1 .. Len(seqs) :
            /\ start[k] <= start[Len(seqs)]
            /\ \A i \in 1 .. Len(seqs[k]) : FlattenSeq(seqs)[start[k - 1] + i] = seqs[k][i]
  BY <1>4, <1>9, FlattenPlaces, SMTT(30)
<1>11. Len(FlattenSeq(seqs)) = Size(p)
  BY <1>1, <1>4, <1>6, <1>10 DEF Size, n
<1>12. ASSUME NEW d \in 1 .. n, NEW j \in 1 .. Widths[p][d]
       PROVE  FlattenSeq(seqs)[Offset(p, d) + j] = piece(d)[j]
  <2>1. d - 1 \in 0 .. n
    BY <1>1
  <2>2. start[d - 1] = Offset(p, d)
    BY <1>6, <2>1 DEF Offset
  <2>3. seqs[d] = piece(d) /\ j \in 1 .. Len(seqs[d])
    BY <1>2, <1>4, <1>12
  <2> QED
    BY <1>4, <1>10, <2>2, <2>3
<1> QED
  BY <1>3, <1>10, <1>11, <1>12 DEF n, piece

LEMMA PointBytesAre ==
  ASSUME NEW p \in Pcid, NEW pts \in Seq(PointSet(p)), NEW o \in {0, 1}
  PROVE  /\ PointBytes(p, pts, o) \in Seq(Nat)
         /\ Len(PointBytes(p, pts, o)) = Len(pts) * Size(p)
         /\ \A i \in 1 .. Len(pts), d \in 1 .. NDims(p) : \A j \in 1 .. Widths[p][d] :
              PointBytes(p, pts, o)[(i - 1) * Size(p) + Offset(p, d) + j]
                = Image(pts[i][d], Widths[p][d], o)[j]
<1> DEFINE n == Len(pts)
           size == Size(p)
           piece(i) == OnePoint(p, pts[i], o)
           seqs == [i \in 1 .. n |-> piece(i)]
<1>1. n \in Nat /\ DOMAIN pts = 1 .. n /\ \A i \in 1 .. n : pts[i] \in PointSet(p)
  OBVIOUS
<1>2. size \in Nat
  BY PcidIs, PastSteps DEF Size
<1>3. PointBytes(p, pts, o) = FlattenSeq(seqs)
  BY <1>1 DEF PointBytes, OnePoint
<1> HIDE DEF n, size
<1>4. \A i \in 1 .. n : piece(i) \in Seq(Nat) /\ Len(piece(i)) = size
  BY <1>1, OnePointIs DEF size
<1> HIDE DEF piece
<1>5. Pieces(Nat, seqs) /\ Len(seqs) = n /\ \A i \in 1 .. n : seqs[i] = piece(i)
  BY <1>1, <1>4 DEF Pieces
<1> HIDE DEF seqs
<1>6. \A k \in 1 .. Len(seqs) : Len(seqs[k]) = size
  BY <1>4, <1>5
<1>7. PlacedEvery(Nat, seqs, size)
  BY <1>2, <1>5, <1>6, EqualPlacement, Zenon
<1>8. ASSUME NEW i \in 1 .. n, NEW d \in 1 .. NDims(p), NEW j \in 1 .. Widths[p][d]
      PROVE  FlattenSeq(seqs)[(i - 1) * size + Offset(p, d) + j] = Image(pts[i][d], Widths[p][d], o)[j]
  <2>1. Offset(p, d) \in Nat /\ Offset(p, d) + Widths[p][d] <= size /\ Widths[p][d] \in Nat
    BY OffsetIs, PcidIs DEF size
  <2> DEFINE k == Offset(p, d) + j
  <2>2. k \in 1 .. size /\ (i - 1) * size + Offset(p, d) + j = (i - 1) * size + k
    BY <1>1, <1>2, <2>1
  <2>3. seqs[i][k] = Image(pts[i][d], Widths[p][d], o)[j]
    BY <1>1, <1>5, <1>8, OnePointIs, SMTT(30) DEF piece
  <2> HIDE DEF k
  <2>4. FlattenSeq(seqs)[(i - 1) * size + k] = seqs[i][k]
    BY <1>5, <1>7, <2>2 DEF PlacedEvery
  <2> QED
    BY <2>2, <2>3, <2>4
<1> QED
  BY <1>3, <1>5, <1>7, <1>8, ZenonT(30) DEF PlacedEvery, n, size

(* A machine finds a dimension of a point at its offset.                    *)
LEMMA ValueFound ==
  ASSUME NEW p \in Pcid, NEW pts \in Seq(PointSet(p)), NEW o \in {0, 1},
         NEW i \in 1 .. Len(pts), NEW d \in 1 .. NDims(p)
  PROVE  LET at == (i - 1) * Size(p) + Offset(p, d)
         IN Word(SubSeq(PointBytes(p, pts, o), at + 1, at + Widths[p][d]), o) = pts[i][d]
<1> DEFINE at == (i - 1) * Size(p) + Offset(p, d)
           w == Widths[p][d]
           bytes == PointBytes(p, pts, o)
           img == Image(pts[i][d], w, o)
           n == Len(pts)
           s == Size(p)
           off == Offset(p, d)
<1>1. n \in Nat /\ i \in 1 .. n /\ pts[i] \in PointSet(p)
  OBVIOUS
<1>2. w \in Nat /\ off \in Nat /\ s \in Nat /\ off + w <= s
  BY OffsetIs, PcidIs
<1>3. img \in Seq(Nat) /\ Len(img) = w /\ Word(img, o) = pts[i][d]
  BY <1>1, PointImage
<1>4. bytes \in Seq(Nat) /\ Len(bytes) = n * s /\ \A j \in 1 .. w : bytes[at + j] = img[j]
  BY PointBytesAre
<1>5. at \in Nat /\ at + w \in Nat /\ at <= at + w /\ (at + w) - at = w /\ at + w <= n * s
  <2> HIDE DEF n, s, off, w
  <2>1. (i - 1) * s \in Nat /\ i * s = (i - 1) * s + s
    BY <1>1, <1>2
  <2>2. i * s <= n * s /\ n * s \in Nat
    BY <1>1, <1>2
  <2>3. at = (i - 1) * s + off
    BY DEF s, off
  <2> HIDE DEF at
  <2> QED
    BY <1>2, <2>1, <2>2, <2>3
<1> HIDE DEF at, w, bytes, img, n, s
<1>6. SubSeq(bytes, at + 1, at + w) = img
  BY <1>3, <1>4, <1>5, CutEquals
<1> QED
  BY <1>3, <1>6 DEF at, w, bytes

LEMMA DivMod ==
  ASSUME NEW s \in Nat \ {0}, NEW x \in Nat
  PROVE  x \div s \in Nat /\ (x % s) \in 0 .. s - 1 /\ x = (x \div s) * s + (x % s)
OBVIOUS

(* Swapping the values of every point gives the bytes of the other order.   *)
LEMMA Flipped ==
  ASSUME NEW p \in Pcid, NEW pts \in Seq(PointSet(p)), NEW o \in {0, 1}
  PROVE  FlipPoints(p, PointBytes(p, pts, o)) = PointBytes(p, pts, 1 - o)
<1> DEFINE bytes == PointBytes(p, pts, o)
           other == PointBytes(p, pts, 1 - o)
           n == Len(pts)
           s == Size(p)
           within(at) == ((at - 1) % s) + 1
           dim(at) == CHOOSE d \in 1 .. NDims(p) :
                        Offset(p, d) < within(at) /\ within(at) <= Offset(p, d) + Widths[p][d]
           source(at) == at - within(at) + 2 * Offset(p, dim(at)) + Widths[p][dim(at)] + 1 - within(at)
<1>1. n \in Nat /\ s \in Nat /\ 1 - o \in {0, 1}
  BY PcidIs, PastSteps DEF Size
<1>2. /\ bytes \in Seq(Nat) /\ Len(bytes) = n * s
      /\ \A i \in 1 .. n, d \in 1 .. NDims(p) : \A j \in 1 .. Widths[p][d] :
           bytes[(i - 1) * s + Offset(p, d) + j] = Image(pts[i][d], Widths[p][d], o)[j]
  BY PointBytesAre
<1>3. /\ other \in Seq(Nat) /\ Len(other) = n * s
      /\ \A i \in 1 .. n, d \in 1 .. NDims(p) : \A j \in 1 .. Widths[p][d] :
           other[(i - 1) * s + Offset(p, d) + j] = Image(pts[i][d], Widths[p][d], 1 - o)[j]
  BY <1>1, PointBytesAre
<1>4. FlipPoints(p, bytes) = [at \in DOMAIN bytes |-> bytes[source(at)]]
  BY DEF FlipPoints
<1>5. ASSUME NEW at \in 1 .. n * s PROVE bytes[source(at)] = other[at]
  <2> DEFINE i == ((at - 1) \div s) + 1
             k == within(at)
             d == dim(at)
             off == Offset(p, d)
             w == Widths[p][d]
             j == k - off
  <2>0. n * s \in Nat /\ at \in Nat \ {0} /\ at <= n * s /\ s # 0
    <3>1. n * s \in Nat /\ (s = 0 => n * s = 0)
      BY <1>1
    <3> QED
      BY <1>5, <3>1
  <2>1. k \in 1 .. s /\ i \in Nat \ {0} /\ at = (i - 1) * s + k
    <3>1. at - 1 \in Nat /\ s \in Nat \ {0}
      BY <1>1, <2>0
    <3>2. /\ (at - 1) \div s \in Nat /\ ((at - 1) % s) \in 0 .. s - 1
          /\ at - 1 = ((at - 1) \div s) * s + ((at - 1) % s)
      BY <3>1, DivMod
    <3> DEFINE q == (at - 1) \div s
               r == (at - 1) % s
    <3>3. q \in Nat /\ r \in 0 .. s - 1 /\ at - 1 = q * s + r
      BY <3>2
    <3>4. i = q + 1 /\ k = r + 1
      OBVIOUS
    <3> HIDE DEF q, r, i, k, s
    <3>5. i - 1 = q /\ i \in Nat \ {0} /\ k \in 1 .. s
      BY <1>1, <3>3, <3>4
    <3> DEFINE x == q * s
    <3>6. x \in Nat /\ at - 1 = x + r
      BY <1>1, <3>3
    <3> HIDE DEF x
    <3>7. at = x + k
      BY <2>0, <3>3, <3>4, <3>6
    <3> QED
      BY <3>5, <3>7 DEF x
  <2>2. i \in 1 .. n
    <3> HIDE DEF i, k, s, n
    <3>1. i > n => (i - 1) * s >= n * s
      BY <1>1, <2>1
    <3>2. (i - 1) * s \in Nat
      BY <1>1, <2>1
    <3> QED
      BY <1>1, <2>0, <2>1, <3>1, <3>2
  <2>3. d \in 1 .. NDims(p) /\ off < k /\ k <= off + w
    <3> HIDE DEF k
    <3>1. \E dd \in 1 .. NDims(p) : Offset(p, dd) < k /\ k <= Offset(p, dd) + Widths[p][dd]
      BY <2>1, DimensionAt DEF s
    <3> QED
      BY <3>1, Zenon DEF k
  <2>4. source(at) = at - k + 2 * off + w + 1 - k
    OBVIOUS
  <2> HIDE DEF k, d, source
  <2>5. off \in Nat /\ w \in Nat
    BY <2>3, OffsetIs, PcidIs
  <2>6. pts[i] \in PointSet(p)
    BY <2>2
  <2> HIDE DEF off, w, i, s, n
  <2>7. j \in 1 .. w /\ w + 1 - j \in 1 .. w
    BY <2>1, <2>3, <2>5
  <2>8. at = (i - 1) * s + off + j /\ source(at) = (i - 1) * s + off + (w + 1 - j)
    <3> DEFINE x == (i - 1) * s
    <3>1. x \in Int
      BY <1>1, <2>1
    <3> HIDE DEF x
    <3>2. at = x + k /\ k \in Int
      BY <2>1 DEF x
    <3>3. at = x + off + j /\ source(at) = x + off + (w + 1 - j)
      BY <2>4, <2>5, <3>1, <3>2
    <3> QED
      BY <3>3 DEF x
  <2> HIDE DEF j
  <2>9. bytes[(i - 1) * s + off + (w + 1 - j)] = Image(pts[i][d], w, o)[w + 1 - j]
    BY <1>2, <2>2, <2>3, <2>7 DEF off, w
  <2>10. other[(i - 1) * s + off + j] = Image(pts[i][d], w, 1 - o)[j]
    BY <1>3, <2>2, <2>3, <2>7 DEF off, w
  <2>11. Image(pts[i][d], w, o)[w + 1 - j] = Image(pts[i][d], w, 1 - o)[j]
    BY <2>3, <2>6, <2>7, PointImage DEF w
  <2> QED
    BY <2>8, <2>9, <2>10, <2>11
<1> HIDE DEF bytes, other, n, s, source
<1>6. FlipPoints(p, bytes) = [at \in 1 .. n * s |-> other[at]]
  BY <1>1, <1>2, <1>4, <1>5
<1>7. other = [at \in 1 .. n * s |-> other[at]]
  BY <1>1, <1>3
<1> QED
  BY <1>6, <1>7 DEF bytes, other

-----------------------------------------------------------------------------
(* Patches and points in the memory of a machine.                           *)

(* A form of patch, or a point, with the encodings of the columns.          *)
Shape(p, form, enc) ==
  /\ form \in {"none", "laz", "dimensional", "point"}
  /\ form = "dimensional" => enc \in [1 .. NDims(p) -> Encoding]

Points(p) == Seq(PointSet(p)) \ {<<>>}

ColumnOf(pts, d) == [i \in DOMAIN pts |-> pts[i][d]]

LEMMA PointsAre ==
  ASSUME NEW p \in Pcid, NEW pts \in Points(p)
  PROVE  /\ pts \in Seq(PointSet(p)) /\ Len(pts) \in Nat \ {0} /\ DOMAIN pts = 1 .. Len(pts)
         /\ \A i \in 1 .. Len(pts) : pts[i] \in PointSet(p)
         /\ pts = [i \in 1 .. Len(pts) |-> [d \in 1 .. NDims(p) |-> pts[i][d]]]
<1> DEFINE n == Len(pts)
<1>1. pts \in Seq(PointSet(p)) /\ pts # <<>>
  BY DEF Points
<1>2. n \in Nat \ {0} /\ DOMAIN pts = 1 .. n /\ \A i \in 1 .. n : pts[i] \in PointSet(p)
  BY <1>1
<1>3. \A i \in 1 .. n : pts[i] = [d \in 1 .. NDims(p) |-> pts[i][d]]
  BY <1>2 DEF PointSet
<1>4. pts = [i \in 1 .. n |-> pts[i]]
  BY <1>1
<1>5. pts = [i \in 1 .. n |-> [d \in 1 .. NDims(p) |-> pts[i][d]]]
  BY <1>3, <1>4
<1> QED
  BY <1>1, <1>2, <1>5

LEMMA ColumnFits ==
  ASSUME NEW p \in Pcid, NEW pts \in Points(p), NEW d \in 1 .. NDims(p)
  PROVE  /\ ColumnOf(pts, d) \in Seq(Fitting(Widths[p][d])) /\ ColumnOf(pts, d) # <<>>
         /\ Len(ColumnOf(pts, d)) = Len(pts)
         /\ \A i \in 1 .. Len(pts) : ColumnOf(pts, d)[i] = pts[i][d]
<1> DEFINE n == Len(pts)
<1>1. n \in Nat \ {0} /\ DOMAIN pts = 1 .. n /\ \A i \in 1 .. n : pts[i] \in PointSet(p)
  BY PointsAre
<1>2. \A i \in 1 .. n : pts[i][d] \in Fitting(Widths[p][d])
  BY <1>1 DEF PointSet, Fitting
<1>3. ColumnOf(pts, d) = [i \in 1 .. n |-> pts[i][d]]
  BY <1>1 DEF ColumnOf
<1> HIDE DEF n
<1>4. /\ ColumnOf(pts, d) \in Seq(Fitting(Widths[p][d])) /\ Len(ColumnOf(pts, d)) = n
      /\ \A i \in 1 .. n : ColumnOf(pts, d)[i] = pts[i][d]
  BY <1>1, <1>2, <1>3
<1> QED
  BY <1>1, <1>4 DEF n

Fields(pa, m, p, pts, form, enc) ==
  /\ pa.at = m /\ pa.pcid = p /\ pa.form = form /\ pa.npoints = Len(pts)
  /\ form \in {"none", "point"} => pa.data = PointBytes(p, pts, Order[m])
  /\ form = "laz" => pa.data = Deflated(PointBytes(p, pts, Order[m]))
  /\ form = "dimensional" =>
       pa.data = [d \in 1 .. NDims(p) |->
                    [enc |-> enc[d],
                     bytes |-> Encode(enc[d], ColumnOf(pts, d), Widths[p][d], Order[m])]]

LEMMA FieldsAre ==
  ASSUME NEW m, NEW p, NEW pts, NEW form, NEW enc
  PROVE  Fields(InMemory(m, p, pts, form, enc), m, p, pts, form, enc)
BY DEF InMemory, ColumnOf, Fields

ColumnsFilled(pa, m, p, pts) ==
  /\ DOMAIN pa.data = 1 .. NDims(p)
  /\ \A d \in 1 .. NDims(p) :
       /\ pa.data[d] = [enc |-> pa.data[d].enc, bytes |-> pa.data[d].bytes]
       /\ pa.data[d].enc \in Encoding
       /\ pa.data[d].bytes \in Seq(Bytes)
       /\ Len(pa.data[d].bytes) \in 0 .. Len(pts) * (Widths[p][d] + 1)
       /\ Decode(pa.data[d].enc, pa.data[d].bytes, Widths[p][d], Order[m]) = ColumnOf(pts, d)

LEMMA ColumnsAre ==
  ASSUME NEW m \in Machine, NEW p \in Pcid, NEW pts \in Points(p), NEW enc,
         Shape(p, "dimensional", enc)
  PROVE  ColumnsFilled(InMemory(m, p, pts, "dimensional", enc), m, p, pts)
<1> DEFINE pa == InMemory(m, p, pts, "dimensional", enc)
           col(d) == Encode(enc[d], ColumnOf(pts, d), Widths[p][d], Order[m])
<1>1. pa.data = [k \in 1 .. NDims(p) |-> [enc |-> enc[k], bytes |-> col(k)]]
  BY FieldsAre DEF Fields
<1>2. ASSUME NEW d \in 1 .. NDims(p)
      PROVE  /\ enc[d] \in Encoding
             /\ Decode(enc[d], col(d), Widths[p][d], Order[m]) = ColumnOf(pts, d)
             /\ col(d) \in Seq(Bytes)
             /\ Len(col(d)) \in 0 .. Len(pts) * (Widths[p][d] + 1)
  <2>1. enc[d] \in Encoding
    BY DEF Shape
  <2>2. Widths[p][d] \in Nat \ {0} /\ Order[m] \in {0, 1}
    BY PcidIs, BaseIs
  <2>3. /\ ColumnOf(pts, d) \in Seq(Fitting(Widths[p][d])) /\ ColumnOf(pts, d) # <<>>
        /\ Len(ColumnOf(pts, d)) = Len(pts)
    BY ColumnFits
  <2>4. Keeps(enc[d], ColumnOf(pts, d), Widths[p][d], Order[m])
    BY <2>1, <2>2, <2>3, ColumnKept, Zenon
  <2> QED
    BY <2>1, <2>3, <2>4, Zenon DEF Keeps
<1> HIDE DEF pa, col
<1>3. DOMAIN pa.data = 1 .. NDims(p)
  BY <1>1
<1>4. ASSUME NEW d \in 1 .. NDims(p)
      PROVE  /\ pa.data[d] = [enc |-> pa.data[d].enc, bytes |-> pa.data[d].bytes]
             /\ pa.data[d].enc = enc[d] /\ pa.data[d].bytes = col(d)
  BY <1>1
<1>5. ASSUME NEW d \in 1 .. NDims(p)
      PROVE  /\ pa.data[d] = [enc |-> pa.data[d].enc, bytes |-> pa.data[d].bytes]
             /\ pa.data[d].enc \in Encoding
             /\ pa.data[d].bytes \in Seq(Bytes)
             /\ Len(pa.data[d].bytes) \in 0 .. Len(pts) * (Widths[p][d] + 1)
             /\ Decode(pa.data[d].enc, pa.data[d].bytes, Widths[p][d], Order[m]) = ColumnOf(pts, d)
  BY <1>2, <1>4, Zenon
<1> QED
  BY <1>3, <1>5, Zenon DEF ColumnsFilled, pa

LEMMA PointsBack ==
  ASSUME NEW m \in Machine, NEW p \in Pcid, NEW pts \in Points(p), NEW form, NEW enc,
         Shape(p, form, enc)
  PROVE  PointsOf(InMemory(m, p, pts, form, enc)) = pts
<1> DEFINE pa == InMemory(m, p, pts, form, enc)
           bytes == IF pa.form = "laz" THEN Inflated(pa.data) ELSE pa.data
           Value(i, d) ==
             IF pa.form = "dimensional"
             THEN Decode(pa.data[d].enc, pa.data[d].bytes, Widths[p][d], Order[pa.at])[i]
             ELSE LET at == (i - 1) * Size(p) + Offset(p, d)
                  IN Word(SubSeq(bytes, at + 1, at + Widths[p][d]), Order[pa.at])
<1>a. Fields(pa, m, p, pts, form, enc)
  BY FieldsAre, Zenon
<1>1. pa.at = m /\ pa.pcid = p /\ pa.form = form /\ pa.npoints = Len(pts)
  BY <1>a, Zenon DEF Fields
<1>2. PointsOf(pa) = [i \in 1 .. pa.npoints |-> [d \in 1 .. NDims(p) |-> Value(i, d)]]
  BY <1>1 DEF PointsOf
<1>3. ASSUME NEW i \in 1 .. Len(pts), NEW d \in 1 .. NDims(p) PROVE Value(i, d) = pts[i][d]
  <2>1. CASE form = "dimensional"
    <3>1. Decode(pa.data[d].enc, pa.data[d].bytes, Widths[p][d], Order[m]) = ColumnOf(pts, d)
      <4>1. ColumnsFilled(pa, m, p, pts)
        BY <2>1, ColumnsAre
      <4> HIDE DEF pa
      <4> QED
        BY <4>1, Zenon DEF ColumnsFilled
    <3>2. ColumnOf(pts, d)[i] = pts[i][d]
      BY ColumnFits
    <3> HIDE DEF pa
    <3> QED
      BY <1>1, <2>1, <3>1, <3>2
  <2>2. CASE form # "dimensional"
    <3> DEFINE at == (i - 1) * Size(p) + Offset(p, d)
    <3>1. Order[m] \in {0, 1} /\ pts \in Seq(PointSet(p))
      BY BaseIs, PointsAre
    <3>2. Word(SubSeq(PointBytes(p, pts, Order[m]), at + 1, at + Widths[p][d]), Order[m]) = pts[i][d]
      BY <3>1, ValueFound
    <3>3. bytes = PointBytes(p, pts, Order[m])
      <4>1. CASE form = "laz"
        <5>1. pa.data = Deflated(PointBytes(p, pts, Order[m]))
          BY <1>a, <4>1, Zenon DEF Fields
        <5>2. PointBytes(p, pts, Order[m]) \in Seq(Nat)
          BY <3>1, PointBytesAre
        <5> HIDE DEF pa
        <5> QED
          BY <1>1, <4>1, <5>1, <5>2, DeflatedIs
      <4>2. CASE form # "laz"
        <5>1. pa.data = PointBytes(p, pts, Order[m])
          <6>1. form \in {"none", "point"}
            BY <2>2, <4>2 DEF Shape
          <6> QED
            BY <1>a, <6>1, Zenon DEF Fields
        <5> HIDE DEF pa
        <5> QED
          BY <1>1, <4>2, <5>1
      <4> QED
        BY <4>1, <4>2
    <3> HIDE DEF pa, bytes, at
    <3>4. Value(i, d) = Word(SubSeq(bytes, at + 1, at + Widths[p][d]), Order[m])
      BY <1>1, <2>2 DEF at
    <3> QED
      BY <3>2, <3>3, <3>4
  <2> QED
    BY <2>1, <2>2
<1> HIDE DEF pa, Value
<1>4. PointsOf(pa) = [i \in 1 .. Len(pts) |-> [d \in 1 .. NDims(p) |-> pts[i][d]]]
  BY <1>1, <1>2, <1>3
<1> QED
  BY <1>4, PointsAre DEF pa

(* What the writer of such a value means.                                   *)
Meaning(p, pts, form) ==
  [type |-> IF form = "point" THEN "PcPoint" ELSE "PcPatch", pcid |-> p, points |-> pts]

LEMMA MeantIs ==
  ASSUME NEW m \in Machine, NEW p \in Pcid, NEW pts \in Points(p), NEW form, NEW enc,
         Shape(p, form, enc)
  PROVE  Meant(InMemory(m, p, pts, form, enc)) = Meaning(p, pts, form)
<1> DEFINE pa == InMemory(m, p, pts, form, enc)
<1>a. Fields(pa, m, p, pts, form, enc)
  BY FieldsAre, Zenon
<1>1. pa.pcid = p /\ pa.form = form
  BY <1>a, Zenon DEF Fields
<1>2. PointsOf(pa) = pts
  BY PointsBack
<1> HIDE DEF pa
<1>3. Meant(pa) = Meaning(p, pts, form)
  BY <1>1, <1>2 DEF Meant, Meaning, TypeOf
<1> QED
  BY <1>3 DEF pa

(* A patch in memory has the bytes, or values, that its npoints says.       *)
Full(pa) ==
  CASE pa.form \in {"none", "point"} -> Len(pa.data) = pa.npoints * Size(pa.pcid)
    [] pa.form = "laz" -> Len(Inflated(pa.data)) = pa.npoints * Size(pa.pcid)
    [] pa.form = "dimensional" ->
         \A d \in DOMAIN pa.data :
           Len(Decode(pa.data[d].enc, pa.data[d].bytes, Widths[pa.pcid][d], Order[pa.at])) = pa.npoints

LEMMA MemoryFull ==
  ASSUME NEW m \in Machine, NEW p \in Pcid, NEW pts \in Points(p), NEW form, NEW enc,
         Shape(p, form, enc)
  PROVE  Full(InMemory(m, p, pts, form, enc))
<1> DEFINE pa == InMemory(m, p, pts, form, enc)
           img == PointBytes(p, pts, Order[m])
<1>a. Fields(pa, m, p, pts, form, enc)
  BY FieldsAre, Zenon
<1>1. /\ pa.at = m /\ pa.pcid = p /\ pa.form = form /\ pa.npoints = Len(pts)
      /\ form \in {"none", "point"} => pa.data = img
      /\ form = "laz" => pa.data = Deflated(img)
  BY <1>a, Zenon DEF Fields
<1>2. img \in Seq(Nat) /\ Len(img) = Len(pts) * Size(p) /\ Inflated(Deflated(img)) = img
  BY PointsAre, BaseIs, PointBytesAre, DeflatedIs
<1>3. CASE form = "dimensional"
  <2>1. ASSUME NEW d \in 1 .. NDims(p)
        PROVE  /\ DOMAIN pa.data = 1 .. NDims(p)
               /\ Len(Decode(pa.data[d].enc, pa.data[d].bytes, Widths[p][d], Order[m])) = Len(pts)
    <3>1. /\ DOMAIN pa.data = 1 .. NDims(p)
          /\ Decode(pa.data[d].enc, pa.data[d].bytes, Widths[p][d], Order[m]) = ColumnOf(pts, d)
      <4>1. ColumnsFilled(pa, m, p, pts)
        BY <1>3, ColumnsAre
      <4> HIDE DEF pa
      <4> QED
        BY <4>1, Zenon DEF ColumnsFilled
    <3> HIDE DEF pa
    <3> QED
      BY <3>1, ColumnFits
  <2>2. DOMAIN pa.data = 1 .. NDims(p)
    <3>1. 1 \in 1 .. NDims(p)
      BY PcidIs
    <3> HIDE DEF pa
    <3> QED
      BY <2>1, <3>1
  <2> HIDE DEF pa, img
  <2>3. \A d \in DOMAIN pa.data :
          Len(Decode(pa.data[d].enc, pa.data[d].bytes, Widths[pa.pcid][d], Order[pa.at])) = pa.npoints
    BY <1>1, <2>1, <2>2
  <2> QED
    BY <1>1, <1>3, <2>3 DEF Full, pa
<1>4. CASE form \in {"none", "point"}
  <2> HIDE DEF pa, img
  <2> QED
    BY <1>1, <1>2, <1>4 DEF Full, pa
<1>5. CASE form = "laz"
  <2> HIDE DEF pa, img
  <2> QED
    BY <1>1, <1>2, <1>5 DEF Full, pa
<1> QED
  BY <1>3, <1>4, <1>5 DEF Shape

-----------------------------------------------------------------------------
(* Where the parts of a WKB lie.                                            *)

(* The elements of part follow the first at elements of s.                  *)
Holds(s, at, part) ==
  /\ at + Len(part) <= Len(s)
  /\ \A i \in 1 .. Len(part) : s[at + i] = part[i]

LEMMA HoldsItself ==
  ASSUME NEW S, NEW a \in Seq(S)
  PROVE  Holds(a, 0, a)
BY DEF Holds

LEMMA HoldsLeft ==
  ASSUME NEW S, NEW a \in Seq(S), NEW b \in Seq(S), NEW part \in Seq(S), NEW at \in Nat,
         Holds(a, at, part)
  PROVE  Holds(a \o b, at, part)
<1>1. Len(a) \in Nat /\ Len(b) \in Nat /\ Len(a \o b) = Len(a) + Len(b) /\ Len(part) \in Nat
  BY ConcatIn
<1>2. at + Len(part) <= Len(a \o b)
  BY <1>1 DEF Holds
<1>3. ASSUME NEW i \in 1 .. Len(part) PROVE (a \o b)[at + i] = part[i]
  <2> DEFINE x == at + i
  <2>1. x \in 1 .. Len(a)
    BY <1>1, <1>3 DEF Holds
  <2>2. a[x] = part[i]
    BY <1>3 DEF Holds
  <2> HIDE DEF x
  <2>3. (a \o b)[x] = a[x]
    BY <2>1, ConcatLeft
  <2> QED
    BY <2>2, <2>3 DEF x
<1> QED
  BY <1>2, <1>3 DEF Holds

LEMMA HoldsRight ==
  ASSUME NEW S, NEW a \in Seq(S), NEW b \in Seq(S), NEW part \in Seq(S), NEW at \in Nat,
         Holds(b, at, part)
  PROVE  Holds(a \o b, Len(a) + at, part)
<1>1. Len(a) \in Nat /\ Len(b) \in Nat /\ Len(a \o b) = Len(a) + Len(b) /\ Len(part) \in Nat
  BY ConcatIn
<1>2. Len(a) + at + Len(part) <= Len(a \o b)
  BY <1>1 DEF Holds
<1>3. ASSUME NEW i \in 1 .. Len(part) PROVE (a \o b)[Len(a) + at + i] = part[i]
  <2> DEFINE x == at + i
  <2>1. x \in 1 .. Len(b) /\ Len(a) + at + i = Len(a) + x
    BY <1>1, <1>3 DEF Holds
  <2>2. b[x] = part[i]
    BY <1>3 DEF Holds
  <2> HIDE DEF x
  <2>3. (a \o b)[Len(a) + x] = b[x]
    BY <2>1, ConcatRight
  <2> QED
    BY <2>1, <2>2, <2>3
<1> QED
  BY <1>2, <1>3 DEF Holds

(* The end of a sequence.                                                   *)
LEMMA HoldsEnd ==
  ASSUME NEW S, NEW a \in Seq(S), NEW b \in Seq(S)
  PROVE  Holds(a \o b, Len(a), b)
<1>1. Holds(b, 0, b) /\ 0 \in Nat
  BY HoldsItself
<1>2. Holds(a \o b, Len(a) + 0, b)
  BY <1>1, HoldsRight
<1>3. Len(a) + 0 = Len(a)
  BY ConcatIn
<1> QED
  BY <1>2, <1>3

LEMMA HoldsInside ==
  ASSUME NEW S, NEW s \in Seq(S), NEW mid \in Seq(S), NEW part \in Seq(S),
         NEW at \in Nat, NEW k \in Nat, Holds(s, at, mid), Holds(mid, k, part)
  PROVE  Holds(s, at + k, part)
<1>1. Len(s) \in Nat /\ Len(mid) \in Nat /\ Len(part) \in Nat
  OBVIOUS
<1>2. at + k + Len(part) <= Len(s)
  BY <1>1 DEF Holds
<1>3. ASSUME NEW i \in 1 .. Len(part) PROVE s[at + k + i] = part[i]
  <2> DEFINE x == k + i
  <2>1. x \in 1 .. Len(mid) /\ at + k + i = at + x
    BY <1>1, <1>3 DEF Holds
  <2>2. mid[x] = part[i]
    BY <1>3 DEF Holds
  <2> HIDE DEF x
  <2>3. s[at + x] = mid[x]
    BY <2>1 DEF Holds
  <2> QED
    BY <2>1, <2>2, <2>3
<1> QED
  BY <1>2, <1>3 DEF Holds

LEMMA HoldsCut ==
  ASSUME NEW S, NEW s \in Seq(S), NEW part \in Seq(S), NEW at \in Nat, Holds(s, at, part)
  PROVE  SubSeq(s, at + 1, at + Len(part)) = part
<1> DEFINE j == at + Len(part)
<1>1. j \in Nat /\ at <= j /\ Len(part) = j - at /\ j <= Len(s)
  BY DEF Holds
<1>2. \A k \in 1 .. Len(part) : s[at + k] = part[k]
  BY DEF Holds
<1> HIDE DEF j
<1>3. SubSeq(s, at + 1, j) = part
  BY <1>1, <1>2, CutEquals, Zenon
<1> QED
  BY <1>3 DEF j

(* An integer of a header is read the same by every machine.                *)
LEMMA GetIntIs ==
  ASSUME NEW buf \in Seq(Bytes), NEW o \in {0, 1}, buf[1] = o,
         NEW n \in Nat, Fits(n, IntSize), NEW at \in Nat,
         Holds(buf, at, Image(n, IntSize, o)), NEW m \in Machine
  PROVE  GetInt(buf, at + 1, m) = n
<1> DEFINE img == Image(n, IntSize, o)
<1>1. /\ IntSize \in Nat /\ Order[m] \in {0, 1}
      /\ img \in Seq(Nat) /\ Len(img) = IntSize /\ Reverse(img) = Image(n, IntSize, 1 - o)
  BY BaseIs, ImageIs, ZenonT(30)
<1>2. img \in Seq(Bytes)
  BY <1>1, BytesIs
<1>3. SubSeq(buf, at + 1, at + IntSize) = img
  BY <1>1, <1>2, HoldsCut
<1>4. at + 1 + IntSize - 1 = at + IntSize
  BY <1>1
<1>5. CASE Order[m] = o
  <2>1. GetInt(buf, at + 1, m) = Word(img, o)
    <3> HIDE DEF img
    <3> QED
      BY <1>3, <1>4, <1>5 DEF GetInt, Swapped
  <2> QED
    BY <1>1, <2>1, WordOfImage
<1>6. CASE Order[m] # o
  <2>1. Order[m] = 1 - o /\ 1 - o \in {0, 1}
    BY <1>1, <1>6
  <2>2. GetInt(buf, at + 1, m) = Word(Image(n, IntSize, 1 - o), 1 - o)
    <3>1. GetInt(buf, at + 1, m) = Word(Reverse(img), Order[m])
      <4> HIDE DEF img
      <4> QED
        BY <1>3, <1>4, <1>6 DEF GetInt, Swapped
    <3> QED
      BY <1>1, <2>1, <3>1
  <2> QED
    BY <1>1, <2>1, <2>2, WordOfImage
<1> QED
  BY <1>5, <1>6

LEMMA FormNumberIs ==
  /\ FormNumber("none") = 0 /\ FormNumber("dimensional") = 1 /\ FormNumber("laz") = 2
BY DEF FormNumber

(* What an integer of a header has room for.                                *)
LEMMA HeaderFits ==
  ASSUME NEW p \in Pcid, NEW n \in 1 .. MaxPoints
  PROVE  /\ Fits(p, IntSize) /\ p \in Nat
         /\ Fits(0, IntSize) /\ Fits(1, IntSize) /\ Fits(2, IntSize) /\ Fits(n, IntSize)
         /\ \A d \in 1 .. NDims(p) : \A k \in 0 .. n * (Widths[p][d] + 1) : Fits(k, IntSize)
<1>1. Fits(p, IntSize) /\ p \in Nat
  BY LayoutAssumption, WkbAssumption
<1>2. ASSUME NEW d \in 1 .. NDims(p), NEW k \in 0 .. n * (Widths[p][d] + 1)
      PROVE  Fits(k, IntSize)
  <2>1. Widths[p][d] \in Nat /\ MaxPoints \in Nat
    BY PcidIs, BaseIs
  <2>2. n * (Widths[p][d] + 1) <= MaxPoints * (Widths[p][d] + 1)
    BY <2>1
  <2>3. n * (Widths[p][d] + 1) \in Nat /\ MaxPoints * (Widths[p][d] + 1) \in Nat
    BY <2>1
  <2>4. k \in 0 .. MaxPoints * (Widths[p][d] + 1)
    BY <2>2, <2>3
  <2> QED
    BY <2>4, LayoutAssumption
<1>3. 1 \in 1 .. NDims(p) /\ Widths[p][1] \in Nat \ {0} /\ MaxPoints \in Nat
  BY PcidIs, BaseIs
<1>4. 2 <= n * (Widths[p][1] + 1) /\ n <= n * (Widths[p][1] + 1) /\ n * (Widths[p][1] + 1) \in Nat
  <2> DEFINE u == Widths[p][1] + 1
  <2>1. u \in Nat /\ 2 <= u /\ n \in Nat /\ 1 <= n
    BY <1>3
  <2> HIDE DEF u
  <2>2. n * 2 <= n * u /\ n * u \in Nat
    BY <2>1
  <2>3. 2 <= n * 2 /\ n <= n * 2
    BY <2>1
  <2> QED
    BY <2>1, <2>2, <2>3 DEF u
<1>5. \A k \in {0, 1, 2, n} : k \in 0 .. n * (Widths[p][1] + 1)
  BY <1>4
<1> QED
  BY <1>1, <1>2, <1>3, <1>5

LEMMA ColumnBytesAre ==
  ASSUME NEW m \in Machine, NEW p \in Pcid, NEW pts \in Points(p), NEW enc,
         Shape(p, "dimensional", enc), NEW d \in 1 .. NDims(p)
  PROVE  LET pa == InMemory(m, p, pts, "dimensional", enc)
             col == pa.data[d]
         IN /\ ColumnBytes(pa, d) =
                 <<EncodingNumber(col.enc)>> \o Image(Len(col.bytes), IntSize, Order[m]) \o col.bytes
            /\ EncodingNumber(col.enc) \in Nat /\ col.bytes \in Seq(Bytes) /\ Len(col.bytes) \in Nat
            /\ Image(Len(col.bytes), IntSize, Order[m]) \in Seq(Bytes)
            /\ Len(Image(Len(col.bytes), IntSize, Order[m])) = IntSize
            /\ ColumnBytes(pa, d) \in Seq(Bytes)
            /\ Len(ColumnBytes(pa, d)) = 1 + IntSize + Len(col.bytes)
<1> DEFINE pa == InMemory(m, p, pts, "dimensional", enc)
           b == pa.data[d].bytes
           e == EncodingNumber(pa.data[d].enc)
           img == Image(Len(b), IntSize, Order[m])
<1>1. ColumnsFilled(pa, m, p, pts) /\ Fields(pa, m, p, pts, "dimensional", enc)
  BY ColumnsAre, FieldsAre, Zenon
<1> HIDE DEF pa
<1>2. pa.data[d].enc \in Encoding /\ b \in Seq(Bytes) /\ pa.at = m
  BY <1>1, Zenon DEF ColumnsFilled, Fields
<1>3. e \in Nat /\ Len(b) \in Nat /\ <<e>> \in Seq(Bytes) /\ Len(<<e>>) = 1
  <2>1. e \in Nat
    BY <1>2 DEF Encoding, EncodingNumber
  <2> HIDE DEF e
  <2> QED
    BY <1>2, <2>1 DEF Bytes
<1>4. img \in Seq(Nat) /\ Len(img) = IntSize /\ IntSize \in Nat
  BY <1>3, BaseIs, ImageIs, ZenonT(30)
<1>5. img \in Seq(Bytes)
  BY <1>4, BytesIs
<1>6. ColumnBytes(pa, d) = <<e>> \o img \o b
  BY <1>2 DEF ColumnBytes, Field
<1> HIDE DEF img, b, e
<1>7. /\ <<e>> \o img \in Seq(Bytes) /\ Len(<<e>> \o img) = 1 + IntSize
  BY <1>3, <1>4, <1>5, ConcatIn
<1>8. (<<e>> \o img) \o b \in Seq(Bytes) /\ Len((<<e>> \o img) \o b) = 1 + IntSize + Len(b)
  BY <1>2, <1>3, <1>7, ConcatIn
<1> QED
  BY <1>2, <1>3, <1>4, <1>5, <1>6, <1>8 DEF pa, b, e, img

LEMMA BodyIs ==
  ASSUME NEW m \in Machine, NEW p \in Pcid, NEW pts \in Points(p), NEW form, NEW enc,
         Shape(p, form, enc)
  PROVE  LET pa == InMemory(m, p, pts, form, enc)
         IN /\ Body(pa) \in Seq(Bytes)
            /\ form \in {"none", "point"} => Body(pa) = PointBytes(p, pts, Order[m])
            /\ form = "laz" =>
                 Body(pa) = Image(1, IntSize, Order[m]) \o Deflated(PointBytes(p, pts, Order[m]))
            /\ form = "dimensional" =>
                 /\ Body(pa) = FlattenSeq([d \in 1 .. NDims(p) |-> ColumnBytes(pa, d)])
                 /\ Pieces(Bytes, [d \in 1 .. NDims(p) |-> ColumnBytes(pa, d)])
<1> DEFINE pa == InMemory(m, p, pts, form, enc)
           img == PointBytes(p, pts, Order[m])
           o == Order[m]
<1>1. Fields(pa, m, p, pts, form, enc)
  BY FieldsAre, Zenon
<1>2. img \in Seq(Nat) /\ img \in Seq(Bytes) /\ Deflated(img) \in Seq(Bytes) /\ Len(Deflated(img)) = 1
  BY PointsAre, BaseIs, PointBytesAre, DeflatedIs, BytesIs
<1>3. o \in {0, 1} /\ IntSize \in Nat
  BY BaseIs
<1> HIDE DEF img, o
<1>4. CASE form \in {"none", "point"}
  <2> HIDE DEF pa
  <2>1. pa.form = form /\ pa.data = img
    BY <1>1, <1>4, Zenon DEF Fields, img
  <2>2. Body(pa) = img
    BY <1>4, <2>1 DEF Body
  <2>3. form # "laz" /\ form # "dimensional"
    BY <1>4
  <2> QED
    BY <1>2, <1>4, <2>2, <2>3 DEF pa, img, o
<1>5. CASE form = "laz"
  <2> HIDE DEF pa
  <2>1. pa.form = "laz" /\ pa.data = Deflated(img) /\ pa.at = m
    BY <1>1, <1>5, Zenon DEF Fields, img
  <2>2. Body(pa) = Image(1, IntSize, o) \o Deflated(img)
    <3>1. Body(pa) = Field(pa, Len(pa.data)) \o pa.data
      BY <2>1 DEF Body
    <3> QED
      BY <1>2, <2>1, <3>1 DEF Field, o
  <2>3. Image(1, IntSize, o) \in Seq(Bytes)
    BY <1>3, ImageIs, BytesIs
  <2>4. Body(pa) \in Seq(Bytes)
    BY <1>2, <2>2, <2>3, ConcatIn
  <2>5. form \notin {"none", "point"} /\ form # "dimensional"
    BY <1>5
  <2> QED
    BY <1>5, <2>2, <2>4, <2>5 DEF pa, img, o
<1>6. CASE form = "dimensional"
  <2> DEFINE seqs == [d \in 1 .. NDims(p) |-> ColumnBytes(pa, d)]
  <2>1. \A d \in 1 .. NDims(p) : ColumnBytes(pa, d) \in Seq(Bytes)
    BY <1>6, ColumnBytesAre
  <2>2. ColumnsFilled(pa, m, p, pts)
    BY <1>6, ColumnsAre
  <2>3. NDims(p) \in Nat
    BY PcidIs
  <2> HIDE DEF pa
  <2>4. DOMAIN pa.data = 1 .. NDims(p) /\ pa.form = "dimensional"
    BY <1>1, <1>6, <2>2, Zenon DEF ColumnsFilled, Fields
  <2>5. Body(pa) = FlattenSeq(seqs)
    BY <2>4 DEF Body
  <2>6. Pieces(Bytes, seqs)
    BY <2>1, <2>3 DEF Pieces
  <2>7. FlattenSeq(seqs) \in Seq(Bytes)
    <3> HIDE DEF seqs
    <3> QED
      BY <2>6, FlattenIn
  <2>8. form \notin {"none", "point"} /\ form # "laz"
    BY <1>6
  <2> HIDE DEF seqs
  <2> QED
    BY <1>6, <2>5, <2>6, <2>7, <2>8 DEF pa, seqs, img, o
<1> QED
  BY <1>4, <1>5, <1>6, Zenon DEF Shape, pa, img, o

HeaderOf(form) == IF form = "point" THEN PointHeaderSize ELSE HeaderSize

Laid(buf, o, p, n, form, body) ==
  /\ buf \in Seq(Bytes) /\ buf # <<>> /\ buf[1] = o /\ body \in Seq(Bytes)
  /\ Holds(buf, 1, Image(p, IntSize, o))
  /\ form # "point" =>
       /\ Holds(buf, 1 + IntSize, Image(FormNumber(form), IntSize, o))
       /\ Holds(buf, 1 + 2 * IntSize, Image(n, IntSize, o))
  /\ Holds(buf, HeaderOf(form), body)
  /\ Len(buf) = HeaderOf(form) + Len(body)

LEMMA ToWkbLaid ==
  ASSUME NEW m \in Machine, NEW p \in Pcid, NEW pts \in Points(p), NEW form, NEW enc,
         Shape(p, form, enc)
  PROVE  LET pa == InMemory(m, p, pts, form, enc)
         IN Laid(ToWkb(pa), Order[m], p, Len(pts), form, Body(pa))
<1> DEFINE pa == InMemory(m, p, pts, form, enc)
           o == Order[m]
           n == Len(pts)
           f1 == Image(p, IntSize, o)
           f2 == Image(FormNumber(form), IntSize, o)
           f3 == Image(n, IntSize, o)
           more == IF form = "point" THEN <<>> ELSE f2 \o f3
           body == Body(pa)
           front == <<o>> \o f1
           head == front \o more
           buf == head \o body
<1>1. pa.at = m /\ pa.pcid = p /\ pa.form = form /\ pa.npoints = n
  <2>1. Fields(pa, m, p, pts, form, enc)
    BY FieldsAre, Zenon
  <2> HIDE DEF pa
  <2> QED
    BY <2>1, Zenon DEF Fields
<1>2. body \in Seq(Bytes)
  BY BodyIs
<1>3. o \in {0, 1} /\ IntSize \in Nat /\ p \in Nat /\ n \in Nat
  BY BaseIs, PointsAre, WkbAssumption
<1>4. f1 \in Seq(Bytes) /\ Len(f1) = IntSize /\ f3 \in Seq(Bytes) /\ Len(f3) = IntSize
  BY <1>3, ImageIs, BytesIs
<1>5. form # "point" => f2 \in Seq(Bytes) /\ Len(f2) = IntSize
  <2>1. form # "point" => FormNumber(form) \in Nat
    BY FormNumberIs DEF Shape
  <2> QED
    BY <1>3, <2>1, ImageIs, BytesIs
<1>6. ToWkb(pa) = buf
  <2> HIDE DEF pa
  <2> QED
    BY <1>1 DEF ToWkb, Field
<1> HIDE DEF pa, body, f1, f2, f3, o, n
<1>7. <<o>> \in Seq(Bytes) /\ Len(<<o>>) = 1
  BY <1>3 DEF Bytes
<1>8. front \in Seq(Bytes) /\ Len(front) = 1 + IntSize /\ Holds(front, 1, f1) /\ front[1] = o
  <2>1. front \in Seq(Bytes) /\ Len(front) = 1 + IntSize
    BY <1>4, <1>7, ConcatIn
  <2>2. Holds(front, 1, f1)
    BY <1>4, <1>7, HoldsEnd
  <2>3. front[1] = <<o>>[1]
    BY <1>4, <1>7, ConcatLeft
  <2> QED
    BY <2>1, <2>2, <2>3
<1>9. /\ more \in Seq(Bytes)
      /\ Len(more) = IF form = "point" THEN 0 ELSE 2 * IntSize
      /\ form # "point" => Holds(more, 0, f2) /\ Holds(more, IntSize, f3)
  <2>1. CASE form = "point"
    BY <2>1
  <2>2. CASE form # "point"
    <3>1. f2 \o f3 \in Seq(Bytes) /\ Len(f2 \o f3) = IntSize + IntSize
      BY <1>4, <1>5, <2>2, ConcatIn
    <3>2. Holds(f2 \o f3, IntSize, f3)
      BY <1>4, <1>5, <2>2, HoldsEnd
    <3>3. Holds(f2, 0, f2) /\ 0 \in Nat
      BY <1>5, <2>2, HoldsItself
    <3>4. Holds(f2 \o f3, 0, f2)
      BY <1>4, <1>5, <2>2, <3>3, HoldsLeft
    <3>5. IntSize + IntSize = 2 * IntSize
      BY <1>3
    <3> QED
      BY <2>2, <3>1, <3>2, <3>4, <3>5
  <2> QED
    BY <2>1, <2>2
<1> HIDE DEF front, more
<1>10. head \in Seq(Bytes) /\ Len(head) = HeaderOf(form)
  <2>1. head \in Seq(Bytes) /\ Len(head) = Len(front) + Len(more)
    BY <1>8, <1>9, ConcatIn
  <2> QED
    BY <1>3, <1>8, <1>9, <2>1 DEF HeaderOf, HeaderSize, PointHeaderSize
<1>11. Holds(head, 1, f1) /\ head[1] = o
  <2>1. Holds(head, 1, f1)
    BY <1>4, <1>8, <1>9, HoldsLeft
  <2>2. 1 \in 1 .. Len(front)
    BY <1>3, <1>8
  <2>3. head[1] = front[1]
    BY <1>8, <1>9, <2>2, ConcatLeft
  <2> QED
    BY <1>8, <2>1, <2>3
<1>12. form # "point" => Holds(head, 1 + IntSize, f2) /\ Holds(head, 1 + 2 * IntSize, f3)
  <2> SUFFICES ASSUME form # "point"
               PROVE  Holds(head, 1 + IntSize, f2) /\ Holds(head, 1 + 2 * IntSize, f3)
    OBVIOUS
  <2>1. Holds(head, Len(front) + 0, f2) /\ Holds(head, Len(front) + IntSize, f3)
    BY <1>3, <1>4, <1>5, <1>8, <1>9, HoldsRight
  <2>2. Len(front) + 0 = 1 + IntSize /\ Len(front) + IntSize = 1 + 2 * IntSize
    BY <1>3, <1>8
  <2> QED
    BY <2>1, <2>2
<1> HIDE DEF head
<1>13. /\ buf \in Seq(Bytes) /\ Len(buf) = HeaderOf(form) + Len(body)
       /\ Holds(buf, HeaderOf(form), body)
  BY <1>2, <1>10, HoldsEnd, ConcatIn
<1>14. Holds(buf, 1, f1)
  BY <1>2, <1>4, <1>10, <1>11, HoldsLeft
<1>15. form # "point" => Holds(buf, 1 + IntSize, f2) /\ Holds(buf, 1 + 2 * IntSize, f3)
  <2> SUFFICES ASSUME form # "point"
               PROVE  Holds(buf, 1 + IntSize, f2) /\ Holds(buf, 1 + 2 * IntSize, f3)
    OBVIOUS
  <2>1. 1 + IntSize \in Nat /\ 1 + 2 * IntSize \in Nat
    BY <1>3
  <2> QED
    BY <1>2, <1>4, <1>5, <1>10, <1>12, <2>1, HoldsLeft
<1>16. 1 \in 1 .. Len(head)
  BY <1>3, <1>10 DEF HeaderOf, HeaderSize, PointHeaderSize
<1>17. buf[1] = o
  <2>1. buf[1] = head[1]
    BY <1>2, <1>10, <1>16, ConcatLeft
  <2> QED
    BY <1>11, <2>1
<1>18. buf # <<>>
  <2>1. Len(buf) # 0
    BY <1>2, <1>10, <1>13, <1>16
  <2> QED
    BY <2>1
<1> HIDE DEF buf
<1>19. Laid(buf, o, p, n, form, body)
  BY <1>2, <1>13, <1>14, <1>15, <1>17, <1>18 DEF Laid, f1, f2, f3
<1> QED
  BY <1>6, <1>19 DEF pa, o, n, body

-----------------------------------------------------------------------------
(* Every machine finds the parts of a WKB.                                  *)
Carried(p) == {pts \in Points(p) : Len(pts) \in 1 .. MaxPoints}

HeaderSays(buf, m, p, n, form) ==
  /\ PcidOf(buf, m) = p
  /\ form # "point" => FormOf(buf, m) = FormNumber(form) /\ NPointsOf(buf, m) = n

LEMMA HeaderRead ==
  ASSUME NEW buf, NEW o \in {0, 1}, NEW p \in Pcid, NEW n \in 1 .. MaxPoints,
         NEW form \in {"none", "laz", "dimensional", "point"}, NEW body,
         Laid(buf, o, p, n, form, body), NEW m \in Machine
  PROVE  HeaderSays(buf, m, p, n, form)
<1>1. buf \in Seq(Bytes) /\ buf[1] = o /\ IntSize \in Nat /\ n \in Nat
  BY BaseIs DEF Laid
<1>2. PcidOf(buf, m) = p
  <2>1. Fits(p, IntSize) /\ p \in Nat
    BY HeaderFits
  <2>2. Holds(buf, 1, Image(p, IntSize, o))
    BY DEF Laid
  <2>3. GetInt(buf, 1 + 1, m) = p
    BY <1>1, <2>1, <2>2, GetIntIs
  <2> QED
    BY <2>3 DEF PcidOf
<1>3. ASSUME form # "point" PROVE FormOf(buf, m) = FormNumber(form)
  <2>1. Fits(FormNumber(form), IntSize) /\ FormNumber(form) \in Nat
    BY <1>3, HeaderFits, FormNumberIs
  <2>2. Holds(buf, 1 + IntSize, Image(FormNumber(form), IntSize, o))
    BY <1>3 DEF Laid
  <2>3. 1 + IntSize \in Nat /\ 1 + IntSize + 1 = 2 + IntSize
    BY <1>1
  <2>4. GetInt(buf, 1 + IntSize + 1, m) = FormNumber(form)
    BY <1>1, <2>1, <2>2, <2>3, GetIntIs
  <2> QED
    BY <2>3, <2>4 DEF FormOf
<1>4. ASSUME form # "point" PROVE NPointsOf(buf, m) = n
  <2>1. Fits(n, IntSize)
    BY HeaderFits
  <2>2. Holds(buf, 1 + 2 * IntSize, Image(n, IntSize, o))
    BY <1>4 DEF Laid
  <2>3. 1 + 2 * IntSize \in Nat /\ 1 + 2 * IntSize + 1 = 2 + 2 * IntSize
    BY <1>1
  <2>4. GetInt(buf, 1 + 2 * IntSize + 1, m) = n
    BY <1>1, <2>1, <2>2, <2>3, GetIntIs
  <2> QED
    BY <2>3, <2>4 DEF NPointsOf
<1> QED
  BY <1>2, <1>3, <1>4 DEF HeaderSays

LEMMA BodyRead ==
  ASSUME NEW buf, NEW o, NEW p, NEW n, NEW form, NEW body, Laid(buf, o, p, n, form, body)
  PROVE  SubSeq(buf, HeaderOf(form) + 1, Len(buf)) = body
<1>1. HeaderOf(form) \in Nat
  BY BaseIs DEF HeaderOf, HeaderSize, PointHeaderSize
<1>2. /\ buf \in Seq(Bytes) /\ body \in Seq(Bytes)
      /\ Holds(buf, HeaderOf(form), body) /\ Len(buf) = HeaderOf(form) + Len(body)
  BY DEF Laid
<1> QED
  BY <1>1, <1>2, HoldsCut

LEMMA LazRead ==
  ASSUME NEW buf, NEW o \in {0, 1}, NEW p \in Pcid, NEW n \in 1 .. MaxPoints, NEW img \in Seq(Nat),
         Laid(buf, o, p, n, "laz", Image(1, IntSize, o) \o Deflated(img)), NEW m \in Machine
  PROVE  /\ HeaderSize + IntSize + GetInt(buf, HeaderSize + 1, m) = Len(buf)
         /\ LazBuffer(buf, m) = Deflated(img)
<1> DEFINE one == Image(1, IntSize, o)
           def == Deflated(img)
           h == HeaderSize
<1>1. /\ IntSize \in Nat /\ h \in Nat /\ Fits(1, IntSize) /\ h + IntSize \in Nat
      /\ one \in Seq(Bytes) /\ Len(one) = IntSize /\ def \in Seq(Bytes) /\ Len(def) = 1
  <2>1. IntSize \in Nat /\ h \in Nat /\ h + IntSize \in Nat
    BY BaseIs DEF HeaderSize, PointHeaderSize
  <2>2. Fits(1, IntSize)
    BY HeaderFits
  <2>3. one \in Seq(Nat) /\ Len(one) = IntSize
    BY <2>1, ImageIs
  <2>4. def \in Seq(Bytes) /\ Len(def) = 1
    BY DeflatedIs
  <2> HIDE DEF one, def, h
  <2>5. one \in Seq(Bytes)
    BY <2>3, BytesIs
  <2> QED
    BY <2>1, <2>2, <2>3, <2>4, <2>5
<1>2. /\ buf \in Seq(Bytes) /\ buf[1] = o
      /\ Holds(buf, h, one \o def) /\ Len(buf) = h + Len(one \o def)
  BY DEF Laid, HeaderOf
<1> HIDE DEF one, def, h
<1>3. one \o def \in Seq(Bytes) /\ Len(one \o def) = IntSize + 1
  BY <1>1, ConcatIn
<1>4. Holds(one \o def, 0, one) /\ Holds(one \o def, IntSize, def)
  <2>1. Holds(one, 0, one) /\ 0 \in Nat
    BY <1>1, HoldsItself
  <2>2. Holds(one \o def, 0, one)
    BY <1>1, <2>1, HoldsLeft
  <2>3. Holds(one \o def, IntSize, def)
    BY <1>1, HoldsEnd
  <2> QED
    BY <2>2, <2>3
<1>5. Holds(buf, h, one) /\ Holds(buf, h + IntSize, def)
  <2>1. Holds(buf, h + 0, one) /\ Holds(buf, h + IntSize, def)
    BY <1>1, <1>2, <1>3, <1>4, HoldsInside
  <2>2. h + 0 = h
    BY <1>1
  <2> QED
    BY <2>1, <2>2
<1>6. GetInt(buf, h + 1, m) = 1
  BY <1>1, <1>2, <1>5, GetIntIs, SMTT(30) DEF one
<1>7. SubSeq(buf, h + IntSize + 1, h + IntSize + Len(def)) = def
  BY <1>1, <1>2, <1>5, HoldsCut
<1>8. LazBuffer(buf, m) = def
  BY <1>1, <1>6, <1>7 DEF LazBuffer, h
<1>9. h + IntSize + 1 = Len(buf)
  BY <1>1, <1>2, <1>3
<1> QED
  BY <1>6, <1>8, <1>9 DEF h, def

LEMMA EncodingRead ==
  ASSUME NEW enc \in Encoding
  PROVE  (CHOOSE e \in {"none", "rle", "zlib"} : EncodingNumber(e) = EncodingNumber(enc)) = enc
<1> DEFINE e1 == CHOOSE e \in {"none", "rle", "zlib"} : EncodingNumber(e) = EncodingNumber(enc)
<1>1. e1 \in Encoding /\ EncodingNumber(e1) = EncodingNumber(enc)
  BY Zenon DEF Encoding
<1> HIDE DEF e1
<1>2. \A a, b \in Encoding : EncodingNumber(a) = EncodingNumber(b) => a = b
  BY DEF Encoding, EncodingNumber
<1>3. e1 = enc
  BY <1>1, <1>2
<1> QED
  BY <1>3 DEF e1

(* What the walk has at hand after a column.                                *)
Read(buf, m, h, cols, dies, enc, b) ==
  ReadColumn(buf, m, [at |-> h + 1, cols |-> cols, dies |-> dies])
    = [at |-> h + 1 + (1 + IntSize + Len(b)),
       cols |-> Append(cols, [enc |-> enc, bytes |-> b]),
       dies |-> dies \/ (Swapped(buf, m) /\ enc = "rle")]

(* One column, where it lies.                                               *)
LEMMA ColumnRead ==
  ASSUME NEW buf \in Seq(Bytes), NEW o \in {0, 1}, buf[1] = o, NEW h \in Nat,
         NEW enc \in Encoding, NEW b \in Seq(Bytes), Fits(Len(b), IntSize),
         Holds(buf, h, <<EncodingNumber(enc)>> \o Image(Len(b), IntSize, o) \o b),
         NEW m \in Machine, NEW cols, NEW dies
  PROVE  Read(buf, m, h, cols, dies, enc, b)
<1> DEFINE e == EncodingNumber(enc)
           img == Image(Len(b), IntSize, o)
           whole == <<e>> \o img \o b
           got == [at |-> h + 1, cols |-> cols, dies |-> dies]
<1>1. /\ IntSize \in Nat /\ Len(b) \in Nat
      /\ img \in Seq(Bytes) /\ Len(img) = IntSize
  <2>1. IntSize \in Nat /\ Len(b) \in Nat
    BY BaseIs
  <2>2. img \in Seq(Nat) /\ Len(img) = IntSize
    BY <2>1, ImageIs
  <2> HIDE DEF img
  <2>3. img \in Seq(Bytes)
    BY <2>2, BytesIs
  <2> QED
    BY <2>1, <2>2, <2>3
<1>2. e \in Nat
  BY DEF Encoding, EncodingNumber
<1> HIDE DEF img
<1>3. <<e>> \in Seq(Bytes) /\ Len(<<e>>) = 1 /\ <<e>>[1] = e
  <2> HIDE DEF e
  <2> QED
    BY <1>2 DEF Bytes
<1> HIDE DEF e
<1>4. /\ <<e>> \o img \in Seq(Bytes) /\ Len(<<e>> \o img) = 1 + IntSize
      /\ Holds(<<e>> \o img, 1, img) /\ Holds(<<e>> \o img, 0, <<e>>)
  <2>1. <<e>> \o img \in Seq(Bytes) /\ Len(<<e>> \o img) = 1 + IntSize
    BY <1>1, <1>3, ConcatIn
  <2>2. Holds(<<e>> \o img, 1, img)
    BY <1>1, <1>3, HoldsEnd
  <2>3. Holds(<<e>>, 0, <<e>>) /\ 0 \in Nat
    BY <1>3, HoldsItself
  <2>4. Holds(<<e>> \o img, 0, <<e>>)
    BY <1>1, <1>3, <2>3, HoldsLeft
  <2> QED
    BY <2>1, <2>2, <2>4
<1>5. /\ whole \in Seq(Bytes) /\ Holds(whole, 0, <<e>>) /\ Holds(whole, 1, img)
      /\ Holds(whole, 1 + IntSize, b)
  <2>1. whole \in Seq(Bytes)
    BY <1>4, ConcatIn
  <2>2. Holds(whole, 1 + IntSize, b)
    BY <1>4, HoldsEnd
  <2>3. Holds(whole, 1, img) /\ Holds(whole, 0, <<e>>)
    BY <1>1, <1>3, <1>4, HoldsLeft
  <2> QED
    BY <2>1, <2>2, <2>3
<1>6. Holds(buf, h, whole)
  BY DEF img, e
<1> HIDE DEF whole
<1>7. /\ Holds(buf, h + 0, <<e>>) /\ Holds(buf, h + 1, img)
      /\ Holds(buf, h + (1 + IntSize), b)
  <2>1. 0 \in Nat /\ 1 \in Nat /\ 1 + IntSize \in Nat
    BY <1>1
  <2> QED
    BY <1>1, <1>3, <1>5, <1>6, <2>1, HoldsInside
<1>8. buf[h + 1] = e
  <2>1. 1 \in 1 .. Len(<<e>>) /\ h + 0 + 1 = h + 1
    BY <1>3
  <2> QED
    BY <1>3, <1>7, <2>1 DEF Holds
<1>9. GetInt(buf, h + 1 + 1, m) = Len(b)
  BY <1>1, <1>7, GetIntIs DEF img
<1>10. SubSeq(buf, h + 1 + 1 + IntSize, h + 1 + IntSize + Len(b)) = b
  <2> DEFINE at == h + (1 + IntSize)
  <2>1. at \in Nat /\ at + 1 = h + 1 + 1 + IntSize /\ at + Len(b) = h + 1 + IntSize + Len(b)
    BY <1>1
  <2>2. Holds(buf, at, b)
    BY <1>7
  <2> HIDE DEF at
  <2>3. SubSeq(buf, at + 1, at + Len(b)) = b
    BY <2>1, <2>2, HoldsCut
  <2> QED
    BY <2>1, <2>3
<1>11. (CHOOSE x \in {"none", "rle", "zlib"} : EncodingNumber(x) = buf[h + 1]) = enc
  BY <1>8, EncodingRead DEF e
<1>12. FlipAsserts(enc, 0) <=> enc # "rle"
  BY DEF FlipAsserts
<1>13. got.at = h + 1 /\ got.cols = cols /\ got.dies = dies
  OBVIOUS
<1> HIDE DEF got
<1>14. ReadColumn(buf, m, got)
         = [at |-> h + 1 + (1 + IntSize + Len(b)),
            cols |-> Append(cols, [enc |-> enc, bytes |-> b]),
            dies |-> dies \/ (Swapped(buf, m) /\ ~ FlipAsserts(enc, 0))]
  BY <1>9, <1>10, <1>11, <1>13, Zenon DEF ReadColumn, SerializedSize
<1>15. (Swapped(buf, m) /\ ~ FlipAsserts(enc, 0)) = (Swapped(buf, m) /\ enc = "rle")
  BY <1>12
<1> QED
  BY <1>14, <1>15, Zenon DEF Read, got

-----------------------------------------------------------------------------
(* The columns of a dimensional patch, read one after the other.            *)

(* What the walk has at hand after d columns that begin at start.           *)
Walked(buf, m, data, start, d) ==
  [at   |-> HeaderSize + 1 + start[d],
   cols |-> SubSeq(data, 1, d),
   dies |-> Swapped(buf, m) /\ \E k \in 1 .. d : data[k].enc = "rle"]

LEMMA SubSeqGrows ==
  ASSUME NEW S, NEW s \in Seq(S), NEW d \in 1 .. Len(s)
  PROVE  SubSeq(s, 1, d) = Append(SubSeq(s, 1, d - 1), s[d])
OBVIOUS

Walks(W, buf, p, m) ==
  W = [d \in 0 .. NDims(p) |->
         IF d = 0 THEN [at |-> HeaderSize + 1, cols |-> <<>>, dies |-> FALSE]
         ELSE ReadColumn(buf, m, W[d - 1])]

LEMMA WalkIs ==
  ASSUME NEW buf, NEW p \in Pcid, NEW m, NEW W, Walks(W, buf, p, m)
  PROVE  Columns(buf, p, m) = W[NDims(p)]
<1> DEFINE n == NDims(p)
           first == [at |-> HeaderSize + 1, cols |-> <<>>, dies |-> FALSE]
           Body1(f) == [d \in 0 .. n |-> IF d = 0 THEN first ELSE ReadColumn(buf, m, f[d - 1])]
           walk == CHOOSE f : f = Body1(f)
<1>1. n \in Nat
  BY PcidIs
<1>2. Columns(buf, p, m) = walk[n]
  BY DEF Columns
<1>3. W = Body1(W)
  BY DEF Walks
<1>4. walk = Body1(walk)
  <2> HIDE DEF Body1
  <2> QED
    BY <1>3, Zenon
<1> HIDE DEF walk, n, first
<1> DEFINE K == {d \in 0 .. n : walk[d] = W[d]}
<1>5. 0 \in K
  <2>1. 0 \in 0 .. n
    BY <1>1
  <2>2. walk[0] = first /\ W[0] = first
    BY <1>3, <1>4, <2>1
  <2> QED
    BY <2>1, <2>2
<1>6. ASSUME NEW d \in 1 .. n, d - 1 \in K PROVE d \in K
  <2>1. d \in 0 .. n /\ d # 0 /\ walk[d - 1] = W[d - 1]
    BY <1>1, <1>6
  <2>2. walk[d] = ReadColumn(buf, m, walk[d - 1]) /\ W[d] = ReadColumn(buf, m, W[d - 1])
    BY <1>3, <1>4, <2>1
  <2> QED
    BY <2>1, <2>2
<1> HIDE DEF K, Body1
<1>7. \A d \in 0 .. n : d \in K
  BY <1>1, <1>5, <1>6, UpTo
<1>8. walk[n] = W[n]
  <2>1. n \in K
    BY <1>1, <1>7
  <2> QED
    BY <2>1 DEF K
<1> QED
  BY <1>2, <1>8 DEF n

(* All columns are found, and the walk ends at the end of the bytes.        *)
LEMMA ColumnsRead ==
  ASSUME NEW w \in Machine, NEW p \in Pcid, NEW pts \in Carried(p), NEW enc,
         Shape(p, "dimensional", enc), NEW m \in Machine, NEW buf, NEW pa,
         pa = InMemory(w, p, pts, "dimensional", enc),
         Laid(buf, Order[w], p, Len(pts), "dimensional", Body(pa))
  PROVE  /\ Columns(buf, p, m).at = Len(buf) + 1
         /\ Columns(buf, p, m).cols = pa.data
         /\ ~ Swapped(buf, m) => ~ Columns(buf, p, m).dies
         /\ Swapped(buf, m) /\ ~ Columns(buf, p, m).dies =>
              \A d \in 1 .. NDims(p) : pa.data[d].enc # "rle"
<1> DEFINE n == NDims(p)
           o == Order[w]
           h == HeaderSize
           data == pa.data
           Entry == [enc : Encoding, bytes : Seq(Bytes)]
           seqs == [d \in 1 .. n |-> ColumnBytes(pa, d)]
<1>1. pts \in Points(p) /\ Len(pts) \in 1 .. MaxPoints
  BY DEF Carried
<1>2. o \in {0, 1} /\ h \in Nat /\ IntSize \in Nat /\ n \in Nat
  BY BaseIs, PcidIs DEF HeaderSize, PointHeaderSize
<1>3. ColumnsFilled(pa, w, p, pts)
  BY <1>1, ColumnsAre
<1>4. /\ Body(pa) = FlattenSeq(seqs) /\ Pieces(Bytes, seqs)
  BY <1>1, BodyIs
<1>5. /\ buf \in Seq(Bytes) /\ buf[1] = o /\ Body(pa) \in Seq(Bytes)
      /\ Holds(buf, h, Body(pa)) /\ Len(buf) = h + Len(Body(pa))
  BY DEF Laid, HeaderOf
<1>6. ASSUME NEW d \in 1 .. n
      PROVE  /\ data[d] = [enc |-> data[d].enc, bytes |-> data[d].bytes]
             /\ data[d].enc \in Encoding /\ data[d].bytes \in Seq(Bytes)
             /\ Len(data[d].bytes) \in Nat /\ Fits(Len(data[d].bytes), IntSize)
             /\ seqs[d] = <<EncodingNumber(data[d].enc)>> \o Image(Len(data[d].bytes), IntSize, o)
                            \o data[d].bytes
             /\ seqs[d] \in Seq(Bytes) /\ Len(seqs[d]) = 1 + IntSize + Len(data[d].bytes)
  <2>1. /\ data[d] = [enc |-> data[d].enc, bytes |-> data[d].bytes]
        /\ data[d].enc \in Encoding /\ data[d].bytes \in Seq(Bytes)
        /\ Len(data[d].bytes) \in 0 .. Len(pts) * (Widths[p][d] + 1)
    BY <1>3, Zenon DEF ColumnsFilled
  <2>2. Fits(Len(data[d].bytes), IntSize)
    BY <1>1, <2>1, HeaderFits
  <2>3. /\ ColumnBytes(pa, d) = <<EncodingNumber(data[d].enc)>> \o Image(Len(data[d].bytes), IntSize, o)
                                  \o data[d].bytes
        /\ Len(data[d].bytes) \in Nat
        /\ ColumnBytes(pa, d) \in Seq(Bytes) /\ Len(ColumnBytes(pa, d)) = 1 + IntSize + Len(data[d].bytes)
    BY <1>1, ColumnBytesAre, ZenonT(30)
  <2>4. seqs[d] = ColumnBytes(pa, d)
    OBVIOUS
  <2> HIDE DEF data, seqs, o
  <2> QED
    BY <2>1, <2>2, <2>3, <2>4
<1>7. DOMAIN data = 1 .. n
  BY <1>3, Zenon DEF ColumnsFilled
<1>8. Len(seqs) = n
  BY <1>2
<1> HIDE DEF n, o, h, seqs, data
<1>9. data \in Seq(Entry) /\ Len(data) = n
  <2>1. ASSUME NEW d \in 1 .. n PROVE data[d] \in Entry
    <3> DEFINE x == data[d].enc
               y == data[d].bytes
    <3>1. data[d] = [enc |-> x, bytes |-> y] /\ x \in Encoding /\ y \in Seq(Bytes)
      BY <1>6, Zenon
    <3> HIDE DEF x, y
    <3>2. [enc |-> x, bytes |-> y] \in Entry
      BY <3>1
    <3> HIDE DEF Entry
    <3> QED
      BY <3>1, <3>2
  <2>2. data = [d \in 1 .. n |-> data[d]]
    <3>1. pa.data = [d \in 1 .. NDims(p) |->
                [enc |-> enc[d], bytes |-> Encode(enc[d], ColumnOf(pts, d), Widths[p][d], Order[w])]]
      BY FieldsAre DEF Fields
    <3> QED
      BY <3>1 DEF data, n
  <2> HIDE DEF Entry
  <2> QED
    BY <1>2, <2>1, <2>2
<1> HIDE DEF Entry
<1>10. PICK start : Starts(start, seqs)
  BY <1>4, StartsExist
<1>11. /\ start[0] = 0 /\ \A d \in 0 .. n : start[d] \in Nat
       /\ \A d \in 1 .. n : start[d] = start[d - 1] + Len(seqs[d])
  BY <1>8, <1>10 DEF Starts
<1>12. /\ Len(Body(pa)) = start[n]
       /\ \A d \in 1 .. n : Holds(Body(pa), start[d - 1], seqs[d])
  <2>1. /\ Len(Body(pa)) = start[n]
        /\ \A d \in 1 .. n :
             /\ start[d] <= start[n]
             /\ \A i \in 1 .. Len(seqs[d]) : Body(pa)[start[d - 1] + i] = seqs[d][i]
    <3>1. /\ Len(FlattenSeq(seqs)) = start[Len(seqs)]
          /\ \A d \in 1 .. Len(seqs) :
               /\ start[d] <= start[Len(seqs)]
               /\ \A i \in 1 .. Len(seqs[d]) : FlattenSeq(seqs)[start[d - 1] + i] = seqs[d][i]
      BY <1>4, <1>10, FlattenPlaces
    <3> QED
      BY <1>4, <1>8, <3>1
  <2>2. ASSUME NEW d \in 1 .. n PROVE Holds(Body(pa), start[d - 1], seqs[d])
    <3>1. start[d - 1] + Len(seqs[d]) <= Len(Body(pa))
      BY <1>11, <2>1
    <3> QED
      BY <2>1, <3>1 DEF Holds
  <2> QED
    BY <2>1, <2>2
<1> DEFINE W == [d \in 0 .. n |-> Walked(buf, m, data, start, d)]
           first == [at |-> h + 1, cols |-> <<>>, dies |-> FALSE]
<1>13. Walked(buf, m, data, start, 0) = first
  <2>1. SubSeq(data, 1, 0) = <<>>
    BY <1>9
  <2>2. h + 1 + start[0] = h + 1
    BY <1>2, <1>11
  <2>3. (Swapped(buf, m) /\ \E k \in 1 .. 0 : data[k].enc = "rle") = FALSE
    OBVIOUS
  <2> QED
    BY <2>1, <2>2, <2>3, Zenon DEF Walked, h
<1>14. ASSUME NEW d \in 1 .. n
       PROVE  Walked(buf, m, data, start, d) = ReadColumn(buf, m, Walked(buf, m, data, start, d - 1))
  <2> DEFINE b == data[d].bytes
             e == data[d].enc
             at == h + start[d - 1]
             cols == SubSeq(data, 1, d - 1)
             dies == Swapped(buf, m) /\ \E k \in 1 .. d - 1 : data[k].enc = "rle"
  <2>1. /\ d - 1 \in 0 .. n /\ start[d - 1] \in Nat /\ at \in Nat /\ h + 1 + start[d - 1] = at + 1
        /\ start[d] = start[d - 1] + (1 + IntSize + Len(b)) /\ Len(b) \in Nat
    <3>1. d - 1 \in 0 .. n
      BY <1>2
    <3>2. start[d - 1] \in Nat
      BY <1>11, <3>1
    <3>3. Len(b) \in Nat /\ Len(seqs[d]) = 1 + IntSize + Len(b)
      BY <1>6
    <3>4. start[d] = start[d - 1] + (1 + IntSize + Len(b))
      BY <1>11, <3>3
    <3>5. at \in Nat /\ h + 1 + start[d - 1] = at + 1
      BY <1>2, <3>2
    <3> QED
      BY <3>1, <3>2, <3>3, <3>4, <3>5
  <2>2. Holds(buf, at, seqs[d])
    BY <1>2, <1>5, <1>6, <1>12, <2>1, HoldsInside
  <2>3. /\ e \in Encoding /\ b \in Seq(Bytes) /\ Fits(Len(b), IntSize)
        /\ seqs[d] = <<EncodingNumber(e)>> \o Image(Len(b), IntSize, o) \o b
        /\ data[d] = [enc |-> e, bytes |-> b]
    BY <1>6
  <2>4. Walked(buf, m, data, start, d - 1) = [at |-> at + 1, cols |-> cols, dies |-> dies]
    <3> HIDE DEF at
    <3> QED
      BY <2>1, Zenon DEF Walked, h
  <2> HIDE DEF at, b, e, cols, dies
  <2>5. Read(buf, m, at, cols, dies, e, b)
    <3>1. Holds(buf, at, <<EncodingNumber(e)>> \o Image(Len(b), IntSize, o) \o b)
      BY <2>2, <2>3, Zenon
    <3>2. o \in {0, 1} /\ buf \in Seq(Bytes) /\ buf[1] = o
      BY <1>2, <1>5
    <3>3. at \in Nat /\ e \in Encoding /\ b \in Seq(Bytes) /\ Fits(Len(b), IntSize)
      BY <2>1, <2>3
    <3> QED
      BY <3>1, <3>2, <3>3, ColumnRead, Zenon
  <2>6. SubSeq(data, 1, d) = Append(cols, [enc |-> e, bytes |-> b])
    <3>1. SubSeq(data, 1, d) = Append(SubSeq(data, 1, d - 1), data[d])
      BY <1>9, SubSeqGrows
    <3> QED
      BY <2>3, <3>1, Zenon DEF cols
  <2>7. HeaderSize + 1 + start[d] = at + 1 + (1 + IntSize + Len(b))
    BY <1>2, <2>1 DEF at, h
  <2>8. (Swapped(buf, m) /\ \E k \in 1 .. d : data[k].enc = "rle")
          = (dies \/ (Swapped(buf, m) /\ e = "rle"))
    <3>1. \A k : k \in 1 .. d <=> k \in 1 .. d - 1 \/ k = d
      OBVIOUS
    <3>2. (\E k \in 1 .. d : data[k].enc = "rle")
            <=> (\E k \in 1 .. d - 1 : data[k].enc = "rle") \/ data[d].enc = "rle"
      BY <3>1, Zenon
    <3> QED
      BY <3>2, Zenon DEF dies, e
  <2>9. Walked(buf, m, data, start, d)
          = [at |-> at + 1 + (1 + IntSize + Len(b)),
             cols |-> Append(cols, [enc |-> e, bytes |-> b]),
             dies |-> dies \/ (Swapped(buf, m) /\ e = "rle")]
    BY <2>6, <2>7, <2>8, Zenon DEF Walked
  <2> QED
    BY <2>4, <2>5, <2>9, Zenon DEF Read
<1>15. W = [d \in 0 .. n |-> IF d = 0 THEN first ELSE ReadColumn(buf, m, W[d - 1])]
  <2> HIDE DEF first
  <2>1. W[0] = first
    BY <1>2, <1>13
  <2>2. ASSUME NEW d \in 1 .. n PROVE W[d] = ReadColumn(buf, m, W[d - 1])
    <3>1. W[d] = Walked(buf, m, data, start, d) /\ W[d - 1] = Walked(buf, m, data, start, d - 1)
      BY <1>2
    <3> HIDE DEF W
    <3> QED
      BY <1>14, <3>1
  <2>3. W = [d \in 0 .. n |-> W[d]]
    OBVIOUS
  <2> HIDE DEF W
  <2> DEFINE G(d) == IF d = 0 THEN first ELSE ReadColumn(buf, m, W[d - 1])
  <2>4. \A d \in 0 .. n : W[d] = G(d)
    <3> TAKE d \in 0 .. n
    <3>1. CASE d = 0
      BY <2>1, <3>1
    <3>2. CASE d # 0
      <4>1. d \in 1 .. n
        BY <1>2, <3>2
      <4> QED
        BY <2>2, <3>2, <4>1, Zenon
    <3> QED
      BY <3>1, <3>2
  <2> HIDE DEF G
  <2>5. W = [d \in 0 .. n |-> G(d)]
    BY <2>3, <2>4
  <2> QED
    BY <2>5, Zenon DEF G
<1>16. W[n] = Walked(buf, m, data, start, n)
  BY <1>2
<1> HIDE DEF W
<1>17. Columns(buf, p, m) = Walked(buf, m, data, start, n)
  <2>1. Walks(W, buf, p, m)
    BY <1>15, Zenon DEF Walks, n, h, first
  <2>2. Columns(buf, p, m) = W[NDims(p)]
    BY <2>1, WalkIs, Zenon
  <2> QED
    BY <1>16, <2>2, Zenon DEF n
<1>18. SubSeq(data, 1, n) = data
  BY <1>2, <1>9
<1>19. h + 1 + start[n] = Len(buf) + 1
  BY <1>2, <1>5, <1>11, <1>12
<1> DEFINE dies == Swapped(buf, m) /\ \E k \in 1 .. n : data[k].enc = "rle"
<1>20. Columns(buf, p, m) = [at |-> Len(buf) + 1, cols |-> data, dies |-> dies]
  BY <1>17, <1>18, <1>19, Zenon DEF Walked, h
<1>21. ASSUME ~ Swapped(buf, m) PROVE ~ Columns(buf, p, m).dies
  <2>1. dies = FALSE
    BY <1>21
  <2>2. Columns(buf, p, m) = [at |-> Len(buf) + 1, cols |-> data, dies |-> FALSE]
    BY <1>20, <2>1, Zenon
  <2> QED
    BY <2>2
<1>23. ASSUME Swapped(buf, m), ~ Columns(buf, p, m).dies
       PROVE  \A d \in 1 .. n : data[d].enc # "rle"
  <2>1. CASE dies
    <3>1. dies = TRUE
      BY <2>1
    <3>2. Columns(buf, p, m) = [at |-> Len(buf) + 1, cols |-> data, dies |-> TRUE]
      BY <1>20, <3>1, Zenon
    <3> QED
      BY <1>23, <3>2
  <2>2. CASE ~ dies
    BY <1>23, <2>2, Zenon
  <2> QED
    BY <2>1, <2>2
<1> HIDE DEF dies
<1>22. Columns(buf, p, m).at = Len(buf) + 1 /\ Columns(buf, p, m).cols = data
  BY <1>20
<1> QED
  BY <1>21, <1>22, <1>23, Zenon DEF data, n

-----------------------------------------------------------------------------
(* Bytes of the other order, taken as they lie, are the bytes of other      *)
(* values: what becomes of the columns and of the LAZ points that nothing   *)
(* swaps.                                                                   *)

LEMMA DivOfSum ==
  ASSUME NEW s \in Nat \ {0}, NEW x \in Nat, NEW b \in 0 .. s - 1
  PROVE  (x * s + b) \div s = x /\ (x * s + b) % s = b
<1> DEFINE y == x * s + b
           q == y \div s
           r == y % s
<1>1. y \in Nat /\ x * s \in Nat
  OBVIOUS
<1>2. q \in Nat /\ r \in 0 .. s - 1 /\ y = q * s + r
  <2> HIDE DEF y
  <2> QED
    BY <1>1, DivMod
<1>3. y = x * s + b
  OBVIOUS
<1> HIDE DEF y, q, r
<1>4. q = x
  <2>1. CASE q < x
    <3>1. x = q + 1 + (x - q - 1) /\ x - q - 1 \in Nat
      BY <1>2, <2>1
    <3> DEFINE e == x - q - 1
    <3>2. x * s = q * s + s + e * s /\ e * s \in Nat /\ q * s \in Nat
      <4> HIDE DEF e
      <4>1. x = q + 1 + e /\ e \in Nat
        BY <3>1 DEF e
      <4> QED
        BY <1>2, <4>1
    <3> QED
      BY <1>2, <1>3, <3>2
  <2>2. CASE x < q
    <3>1. q = x + 1 + (q - x - 1) /\ q - x - 1 \in Nat
      BY <1>2, <2>2
    <3> DEFINE e == q - x - 1
    <3>2. q * s = x * s + s + e * s /\ e * s \in Nat /\ x * s \in Nat
      <4> HIDE DEF e
      <4>1. q = x + 1 + e /\ e \in Nat
        BY <3>1 DEF e
      <4> QED
        BY <1>2, <4>1
    <3> QED
      BY <1>2, <1>3, <3>2
  <2> QED
    BY <1>2, <2>1, <2>2
<1>5. r = b
  BY <1>1, <1>2, <1>3, <1>4
<1> QED
  BY <1>4, <1>5 DEF q, r, y

(* Any bytes are those of a value.                                          *)
LEMMA ValueOfBytes ==
  ASSUME NEW w \in Nat, NEW big \in Seq(Nat), Len(big) = w, \A i \in 1 .. w : big[i] < Base
  PROVE  \E v \in Fitting(w) : Image(v, w, 0) = big
<1> DEFINE step == [x \in (1 .. w) \X Nat |-> x[2] * Base + big[x[1]]]
<1>1. Base \in Nat /\ Base > 0 /\ \A i \in 1 .. w : big[i] \in Nat
  BY BaseIs
<1>2. step \in [(1 .. w) \X Nat -> Nat]
  <2>1. ASSUME NEW x \in (1 .. w) \X Nat PROVE x[2] * Base + big[x[1]] \in Nat
    BY <1>1
  <2> QED
    BY <2>1
<1>3. PICK f \in [0 .. w -> Nat] : SolvesRecursion(f, 0, w, step)
  <2> HIDE DEF step
  <2> QED
    BY <1>2, RecursionExists, Zenon
<1>4. f[0] = 0
  <2> HIDE DEF step
  <2>1. 0 \in 0 .. w
    OBVIOUS
  <2> QED
    BY <1>3, <2>1 DEF SolvesRecursion
<1>5. ASSUME NEW k \in 1 .. w PROVE f[k] = f[k - 1] * Base + big[k]
  <2>1. f[k - 1] \in Nat
    OBVIOUS
  <2>2. f[k] = step[<<k, f[k - 1]>>]
    <3> HIDE DEF step
    <3> QED
      BY <1>3 DEF SolvesRecursion
  <2> QED
    BY <2>1, <2>2
<1> HIDE DEF step
<1>6. ASSUME NEW k \in 1 .. w PROVE f[k] \div Base = f[k - 1] /\ f[k] % Base = big[k]
  <2> DEFINE x == f[k - 1]
             b == big[k]
             y == f[k]
  <2>1. x \in Nat /\ b \in Nat /\ b < Base /\ y = x * Base + b
    BY <1>1, <1>5
  <2> HIDE DEF x, b, y
  <2>2. (x * Base + b) \div Base = x /\ (x * Base + b) % Base = b
    <3>1. Base \in Nat \ {0} /\ b \in 0 .. Base - 1
      BY <1>1, <2>1
    <3> QED
      BY <2>1, <3>1, DivOfSum
  <2>3. y \div Base = x /\ y % Base = b
    BY <2>1, <2>2
  <2> QED
    BY <2>3 DEF x, b, y
<1> DEFINE v == f[w]
           rest == Rest(v, w)
           K == {k \in 0 .. w : rest[k] = f[w - k]}
<1>7. v \in Nat
  OBVIOUS
<1>8. /\ rest[0] = v /\ \A k \in 1 .. w : rest[k] = rest[k - 1] \div Base
  BY <1>7, RestSteps
<1> HIDE DEF rest
<1>9. 0 \in K
  BY <1>8
<1>10. ASSUME NEW k \in 1 .. w, k - 1 \in K PROVE k \in K
  <2>1. w - (k - 1) \in 1 .. w /\ (w - (k - 1)) - 1 = w - k /\ k \in 0 .. w
    OBVIOUS
  <2>2. rest[k - 1] = f[w - (k - 1)]
    BY <1>10
  <2>3. rest[k] = f[w - k]
    BY <1>6, <1>8, <2>1, <2>2
  <2> QED
    BY <2>1, <2>3
<1> HIDE DEF K
<1>11. \A k \in 0 .. w : k \in K
  BY <1>9, <1>10, UpTo
<1>12. \A k \in 0 .. w : rest[k] = f[w - k]
  BY <1>11 DEF K
<1> HIDE DEF v
<1>13. Fits(v, w)
  <2>1. rest[w] = f[w - w] /\ w - w = 0
    BY <1>12
  <2> QED
    BY <1>4, <2>1 DEF Fits, rest
<1>14. Image(v, w, 0) \in Seq(Nat) /\ Len(Image(v, w, 0)) = w
  BY <1>7, ImageIs
<1>15. ASSUME NEW i \in 1 .. w PROVE Image(v, w, 0)[i] = big[i]
  <2>1. Image(v, w, 0)[i] = rest[w - i] % Base
    BY <1>7, ImageIs DEF rest
  <2>2. w - i \in 0 .. w /\ w - (w - i) = i
    OBVIOUS
  <2>3. rest[w - i] = f[i]
    BY <1>12, <2>2
  <2> QED
    BY <1>6, <2>1, <2>3
<1>16. Image(v, w, 0) = big
  BY <1>14, <1>15, SeqEqual
<1> QED
  BY <1>7, <1>13, <1>16 DEF Fitting

(* The value whose bytes, in either order, are those of v in the other.     *)
Turns(u, v, w) == \A o \in {0, 1} : Image(u, w, 1 - o) = Image(v, w, o)

Misread(v, w) == CHOOSE u \in Fitting(w) : Turns(u, v, w)

LEMMA MisreadIs ==
  ASSUME NEW w \in Nat, NEW v \in Nat
  PROVE  Misread(v, w) \in Fitting(w) /\ Turns(Misread(v, w), v, w)
<1> DEFINE big == Image(v, w, 1)
<1>1. big \in Seq(Nat) /\ Len(big) = w /\ Reverse(big) = Image(v, w, 0)
  <2>1. 1 \in {0, 1} /\ 1 - 1 = 0
    OBVIOUS
  <2> QED
    BY <2>1, ImageIs
<1>2. ASSUME NEW i \in 1 .. w PROVE big[i] < Base
  <2>1. w + 1 - i \in 1 .. w /\ w + 1 - (w + 1 - i) = i /\ w - (w + 1 - i) \in 0 .. w
    OBVIOUS
  <2>2. big[i] = Image(v, w, 0)[w + 1 - i]
    <3>1. 0 \in {0, 1} /\ 1 - 0 = 1
      OBVIOUS
    <3>2. Image(v, w, 0)[w + 1 - i] = Image(v, w, 1 - 0)[i]
      BY <3>1, ImageIs
    <3> QED
      BY <3>1, <3>2
  <2>3. Image(v, w, 0)[w + 1 - i] = Rest(v, w)[w - (w + 1 - i)] % Base
    BY <2>1, ImageIs
  <2>4. Rest(v, w)[w - (w + 1 - i)] \in Nat
    BY <2>1, RestSteps
  <2> QED
    BY <2>2, <2>3, <2>4, BaseIs
<1> HIDE DEF big
<1>3. PICK u \in Fitting(w) : Image(u, w, 0) = big
  BY <1>1, <1>2, ValueOfBytes
<1>4. Image(u, w, 1) = Image(v, w, 0)
  <2>1. u \in Nat /\ 0 \in {0, 1} /\ 1 - 0 = 1
    BY DEF Fitting
  <2>2. Reverse(Image(u, w, 0)) = Image(u, w, 1 - 0)
    BY <2>1, ImageIs
  <2> QED
    BY <1>1, <1>3, <2>1, <2>2
<1>5. Turns(u, v, w)
  <2>1. ASSUME NEW o \in {0, 1} PROVE Image(u, w, 1 - o) = Image(v, w, o)
    <3>1. CASE o = 0
      <4>1. 1 - o = 1
        BY <3>1
      <4> QED
        BY <1>4, <3>1, <4>1
    <3>2. CASE o = 1
      <4>1. 1 - o = 0
        BY <3>2
      <4> QED
        BY <1>3, <3>2, <4>1 DEF big
    <3> QED
      BY <3>1, <3>2
  <2> QED
    BY <2>1 DEF Turns
<1> QED
  BY <1>5, Zenon DEF Misread

MisreadPoints(p, pts) ==
  [i \in DOMAIN pts |-> [d \in 1 .. NDims(p) |-> Misread(pts[i][d], Widths[p][d])]]

LEMMA MisreadPointsAre ==
  ASSUME NEW p \in Pcid, NEW pts \in Points(p)
  PROVE  /\ MisreadPoints(p, pts) \in Points(p) /\ Len(MisreadPoints(p, pts)) = Len(pts)
         /\ \A i \in 1 .. Len(pts), d \in 1 .. NDims(p) :
              Turns(MisreadPoints(p, pts)[i][d], pts[i][d], Widths[p][d])
<1> DEFINE n == Len(pts)
           mis == MisreadPoints(p, pts)
           point(i) == [d \in 1 .. NDims(p) |-> Misread(pts[i][d], Widths[p][d])]
<1>1. n \in Nat \ {0} /\ DOMAIN pts = 1 .. n /\ \A i \in 1 .. n : pts[i] \in PointSet(p)
  BY PointsAre
<1>2. ASSUME NEW i \in 1 .. n, NEW d \in 1 .. NDims(p)
      PROVE  /\ Misread(pts[i][d], Widths[p][d]) \in Fitting(Widths[p][d])
             /\ Turns(Misread(pts[i][d], Widths[p][d]), pts[i][d], Widths[p][d])
  <2>1. Widths[p][d] \in Nat
    BY PcidIs
  <2>2. pts[i][d] \in Nat
    BY <1>1 DEF PointSet
  <2> QED
    BY <2>1, <2>2, MisreadIs
<1>3. \A i \in 1 .. n : point(i) \in PointSet(p)
  <2> SUFFICES ASSUME NEW i \in 1 .. n PROVE point(i) \in PointSet(p)
    OBVIOUS
  <2>1. \A d \in 1 .. NDims(p) :
          /\ Misread(pts[i][d], Widths[p][d]) \in Nat
          /\ Fits(Misread(pts[i][d], Widths[p][d]), Widths[p][d])
    BY <1>2 DEF Fitting
  <2>2. point(i) \in [1 .. NDims(p) -> Nat]
    BY <2>1
  <2>3. \A d \in 1 .. NDims(p) : Fits(point(i)[d], Widths[p][d])
    BY <2>1
  <2> HIDE DEF point
  <2> QED
    BY <2>2, <2>3 DEF PointSet
<1>4. mis = [i \in 1 .. n |-> point(i)]
  BY <1>1 DEF MisreadPoints
<1>5. \A i \in 1 .. n : mis[i] = point(i)
  BY <1>4
<1> HIDE DEF mis, n
<1>6. ASSUME NEW i \in 1 .. n, NEW d \in 1 .. NDims(p) PROVE Turns(mis[i][d], pts[i][d], Widths[p][d])
  <2>1. mis[i][d] = Misread(pts[i][d], Widths[p][d])
    BY <1>5
  <2> QED
    BY <1>2, <2>1
<1> HIDE DEF point
<1>7. mis \in Seq(PointSet(p)) /\ Len(mis) = n
  BY <1>1, <1>3, <1>4
<1>8. mis \in Points(p)
  <2>1. mis # <<>>
    BY <1>1, <1>7
  <2> QED
    BY <1>7, <2>1 DEF Points
<1> QED
  BY <1>6, <1>7, <1>8 DEF mis, n

LEMMA MisreadBytes ==
  ASSUME NEW p \in Pcid, NEW pts \in Points(p), NEW o \in {0, 1}
  PROVE  PointBytes(p, MisreadPoints(p, pts), 1 - o) = PointBytes(p, pts, o)
<1> DEFINE n == Len(pts)
           mis == MisreadPoints(p, pts)
           Bytes1(s, q) == [i \in 1 .. n |->
                             FlattenSeq([d \in 1 .. NDims(p) |-> Image(s[i][d], Widths[p][d], q)])]
<1>1. mis \in Points(p) /\ Len(mis) = n
  BY MisreadPointsAre
<1>2. \A i \in 1 .. n, d \in 1 .. NDims(p) : Turns(mis[i][d], pts[i][d], Widths[p][d])
  BY MisreadPointsAre
<1> HIDE DEF mis
<1>3. DOMAIN pts = 1 .. n /\ DOMAIN mis = 1 .. n
  BY <1>1, PointsAre
<1>4. ASSUME NEW i \in 1 .. n, NEW d \in 1 .. NDims(p)
      PROVE  Image(mis[i][d], Widths[p][d], 1 - o) = Image(pts[i][d], Widths[p][d], o)
  BY <1>2 DEF Turns
<1> HIDE DEF n
<1>5. Bytes1(mis, 1 - o) = Bytes1(pts, o)
  <2>1. ASSUME NEW i \in 1 .. n
        PROVE  [d \in 1 .. NDims(p) |-> Image(mis[i][d], Widths[p][d], 1 - o)]
                 = [d \in 1 .. NDims(p) |-> Image(pts[i][d], Widths[p][d], o)]
    BY <1>4
  <2>2. ASSUME NEW i \in 1 .. n PROVE Bytes1(mis, 1 - o)[i] = Bytes1(pts, o)[i]
    BY <2>1
  <2> QED
    BY <2>2
<1>6. PointBytes(p, mis, 1 - o) = FlattenSeq(Bytes1(mis, 1 - o))
  BY <1>3, Zenon DEF PointBytes
<1>7. PointBytes(p, pts, o) = FlattenSeq(Bytes1(pts, o))
  BY <1>3, Zenon DEF PointBytes
<1> HIDE DEF Bytes1
<1> QED
  BY <1>5, <1>6, <1>7 DEF mis

LEMMA MisreadColumn ==
  ASSUME NEW p \in Pcid, NEW pts \in Points(p), NEW o \in {0, 1}, NEW d \in 1 .. NDims(p),
         NEW enc \in Encoding \ {"rle"}
  PROVE  Encode(enc, ColumnOf(MisreadPoints(p, pts), d), Widths[p][d], 1 - o)
           = Encode(enc, ColumnOf(pts, d), Widths[p][d], o)
<1> DEFINE n == Len(pts)
           w == Widths[p][d]
           mis == MisreadPoints(p, pts)
           a == ColumnOf(mis, d)
           b == ColumnOf(pts, d)
<1>1. mis \in Points(p) /\ Len(mis) = n
  BY MisreadPointsAre
<1>2. \A i \in 1 .. n : Turns(mis[i][d], pts[i][d], w)
  BY MisreadPointsAre
<1> HIDE DEF mis, n
<1>3. DOMAIN a = 1 .. n /\ DOMAIN b = 1 .. n /\ \A i \in 1 .. n : a[i] = mis[i][d] /\ b[i] = pts[i][d]
  <2>1. DOMAIN mis = 1 .. n /\ DOMAIN pts = 1 .. n
    BY <1>1, PointsAre DEF n
  <2> QED
    BY <2>1 DEF ColumnOf
<1>4. ASSUME NEW i \in 1 .. n PROVE Image(a[i], w, 1 - o) = Image(b[i], w, o)
  BY <1>2, <1>3 DEF Turns
<1> HIDE DEF a, b, w
<1>5. Images(a, w, 1 - o) = Images(b, w, o)
  <2>1. [i \in DOMAIN a |-> Image(a[i], w, 1 - o)] = [i \in DOMAIN b |-> Image(b[i], w, o)]
    BY <1>3, <1>4
  <2> QED
    BY <2>1, Zenon DEF Images
<1>6. Encode(enc, a, w, 1 - o) = Encode(enc, b, w, o)
  <2>1. CASE enc = "none"
    BY <1>5, <2>1 DEF Encode
  <2>2. CASE enc = "zlib"
    BY <1>5, <2>2 DEF Encode
  <2> QED
    BY <2>1, <2>2 DEF Encoding
<1> QED
  BY <1>6 DEF a, b, w, mis

-----------------------------------------------------------------------------
(* What a machine holds, or a WKB carries, is the layout of some points.    *)

Known(pa, p, pts, form) ==
  /\ p \in Pcid /\ pts \in Carried(p) /\ (form = "point" => Len(pts) = 1)
  /\ \E m, enc : m \in Machine /\ Shape(p, form, enc) /\ pa = InMemory(m, p, pts, form, enc)

(* Only uncompressed patches are read by machines of the other order.       *)
Portable == CrossForms \subseteq {"none"}

HeldKnown ==
  held # None =>
    \E p, pts, form :
      Known(held, p, pts, form) /\ (Portable /\ outcome = "read" => sent = Meaning(p, pts, form))

SentKnown ==
  wkb # <<>> =>
    \E pa, p, pts, form :
      Known(pa, p, pts, form) /\ wkb = ToWkb(pa) /\ sent = Meaning(p, pts, form)

WkbInv ==
  /\ outcome \in {"made", "read", "inconsistent", "died"} /\ (Portable => outcome # "died")
  /\ typmod \in Typmod
  /\ HeldKnown
  /\ SentKnown

LEMMA KnownIs ==
  ASSUME NEW pa, NEW p, NEW pts, NEW form, Known(pa, p, pts, form)
  PROVE  /\ p \in Pcid /\ pts \in Points(p) /\ pts \in Carried(p)
         /\ pa.at \in Machine /\ pa.pcid = p /\ pa.form = form /\ pa.npoints = Len(pts)
         /\ PointsOf(pa) = pts /\ Meant(pa) = Meaning(p, pts, form) /\ Full(pa)
<1>1. PICK m, enc : m \in Machine /\ Shape(p, form, enc) /\ pa = InMemory(m, p, pts, form, enc)
  BY DEF Known
<1>2. p \in Pcid /\ pts \in Points(p) /\ pts \in Carried(p)
  BY DEF Known, Carried
<1>3. pa.at = m /\ pa.pcid = p /\ pa.form = form /\ pa.npoints = Len(pts)
  <2>1. Fields(pa, m, p, pts, form, enc)
    BY <1>1, FieldsAre, Zenon
  <2> QED
    BY <2>1, Zenon DEF Fields
<1>4. PointsOf(pa) = pts /\ Meant(pa) = Meaning(p, pts, form) /\ Full(pa)
  BY <1>1, <1>2, PointsBack, MeantIs, MemoryFull
<1> QED
  BY <1>1, <1>2, <1>3, <1>4

LEMMA FormIs ==
  ASSUME NEW p \in Pcid, NEW f \in Form(p)
  PROVE  Shape(p, f[1], f[2]) /\ f[1] # "point"
<1>1. Encodings \subseteq Encoding
  BY WkbAssumption DEF Encoding
<1>2. CASE f \in {<<"none", <<>> >>, <<"laz", <<>> >>}
  BY <1>2 DEF Shape
<1>3. CASE f \in {"dimensional"} \X [1 .. NDims(p) -> Encodings]
  <2>1. f[1] = "dimensional" /\ f[2] \in [1 .. NDims(p) -> Encodings]
    BY <1>3
  <2>2. f[2] \in [1 .. NDims(p) -> Encoding]
    BY <1>1, <2>1
  <2> QED
    BY <2>1, <2>2 DEF Shape
<1> QED
  BY <1>2, <1>3 DEF Form

LEMMA PointsInAre ==
  ASSUME NEW p \in Pcid, NEW pts \in PointsIn(p)
  PROVE  pts \in Carried(p)
<1>1. PICK n \in 1 .. MaxPoints : pts \in [1 .. n -> Sample[p]]
  BY DEF PointsIn
<1>2. Sample[p] \subseteq PointSet(p)
  BY LayoutAssumption DEF PointSet
<1>3. n \in Nat /\ n # 0
  BY BaseIs
<1>4. \A i \in 1 .. n : pts[i] \in PointSet(p)
  BY <1>1, <1>2
<1>5. pts = [i \in 1 .. n |-> pts[i]]
  BY <1>1
<1>6. pts \in Seq(PointSet(p)) /\ Len(pts) = n
  BY <1>3, <1>4, <1>5
<1>7. pts # <<>>
  BY <1>3, <1>6
<1> QED
  BY <1>6, <1>7 DEF Carried, Points

LEMMA MakeKnown ==
  ASSUME NEW m \in Machine, NEW p \in Pcid, NEW pts \in Carried(p), NEW f \in Form(p)
  PROVE  Known(InMemory(m, p, pts, f[1], f[2]), p, pts, f[1])
BY FormIs DEF Known

(* A conversion keeps the points.                                           *)
LEMMA ConvertKnown ==
  ASSUME NEW pa, NEW p, NEW pts, NEW form, Known(pa, p, pts, form), NEW f \in Form(pa.pcid)
  PROVE  Known(Converted(pa, f), p, pts, f[1]) /\ f[1] # "point"
<1>1. /\ p \in Pcid /\ pts \in Carried(p) /\ pa.at \in Machine /\ pa.pcid = p /\ PointsOf(pa) = pts
  BY KnownIs
<1>2. f \in Form(p)
  BY <1>1
<1>3. Converted(pa, f) = InMemory(pa.at, p, pts, f[1], f[2])
  BY <1>1 DEF Converted
<1>4. Known(InMemory(pa.at, p, pts, f[1], f[2]), p, pts, f[1])
  BY <1>1, <1>2, MakeKnown
<1> QED
  BY <1>1, <1>2, <1>3, <1>4, FormIs

LEMMA StoredKnown ==
  ASSUME NEW pa, NEW p, NEW pts, NEW form, Known(pa, p, pts, form), NEW f \in Form(pa.pcid)
  PROVE  \E g : Known(Stored(pa, f), p, pts, g) /\ (g = "point" <=> form = "point")
<1>1. pa.form = form
  BY KnownIs
<1>2. CASE pa.form \in {"point", f[1]}
  <2>1. Stored(pa, f) = pa
    BY <1>2 DEF Stored
  <2> QED
    BY <2>1
<1>3. CASE pa.form \notin {"point", f[1]}
  <2>1. Stored(pa, f) = Converted(pa, f)
    BY <1>3 DEF Stored
  <2>2. Known(Converted(pa, f), p, pts, f[1]) /\ f[1] # "point"
    BY ConvertKnown
  <2> QED
    BY <1>1, <1>3, <2>1, <2>2
<1> QED
  BY <1>2, <1>3

LEMMA PointKnown ==
  ASSUME NEW pa, NEW p, NEW pts, NEW form, Known(pa, p, pts, form), NEW n \in 1 .. pa.npoints
  PROVE  Known(PointOf(pa, n), p, <<pts[n]>>, "point")
<1>1. /\ p \in Pcid /\ pts \in Points(p) /\ pa.at \in Machine /\ pa.pcid = p /\ PointsOf(pa) = pts
      /\ pa.npoints = Len(pts)
  BY KnownIs
<1>2. pts[n] \in PointSet(p)
  BY <1>1, PointsAre
<1>3. <<pts[n]>> \in Carried(p) /\ Len(<<pts[n]>>) = 1
  <2> DEFINE pt == pts[n]
  <2>1. pt \in PointSet(p)
    BY <1>2
  <2> HIDE DEF pt
  <2>2. <<pt>> \in Seq(PointSet(p)) /\ Len(<<pt>>) = 1 /\ <<pt>> # <<>>
    BY <2>1
  <2>3. 1 \in 1 .. MaxPoints
    BY BaseIs
  <2> QED
    BY <2>2, <2>3 DEF Carried, Points, pt
<1>4. Shape(p, "point", <<>>)
  BY DEF Shape
<1>5. PointOf(pa, n) = InMemory(pa.at, p, <<pts[n]>>, "point", <<>>)
  BY <1>1 DEF PointOf
<1> QED
  BY <1>1, <1>3, <1>4, <1>5 DEF Known

LEMMA SameMeaning ==
  ASSUME NEW p, NEW pts, NEW f, NEW g, f = "point" <=> g = "point"
  PROVE  Meaning(p, pts, f) = Meaning(p, pts, g)
BY DEF Meaning

(* The layout of a WKB on its way.                                          *)
LEMMA KnownLaid ==
  ASSUME NEW pa, NEW p, NEW pts, NEW form, Known(pa, p, pts, form)
  PROVE  \E w, enc :
           /\ w \in Machine
           /\ Shape(p, form, enc) /\ pa = InMemory(w, p, pts, form, enc)
           /\ Laid(ToWkb(pa), Order[w], p, Len(pts), form, Body(pa))
<1>1. PICK w, enc : w \in Machine /\ Shape(p, form, enc) /\ pa = InMemory(w, p, pts, form, enc)
  BY DEF Known
<1>2. p \in Pcid /\ pts \in Points(p)
  BY KnownIs
<1>3. Laid(ToWkb(pa), Order[w], p, Len(pts), form, Body(pa))
  BY <1>1, <1>2, ToWkbLaid
<1> QED
  BY <1>1, <1>3

-----------------------------------------------------------------------------
(* What an input function makes of a WKB.                                   *)

Record(m, p, form, n, data) == [at |-> m, pcid |-> p, form |-> form, npoints |-> n, data |-> data]

LEMMA RecordIs ==
  ASSUME NEW m, NEW p, NEW pts, NEW form, NEW enc, NEW data,
         data = InMemory(m, p, pts, form, enc).data
  PROVE  Record(m, p, form, Len(pts), data) = InMemory(m, p, pts, form, enc)
<1> DEFINE pa == InMemory(m, p, pts, form, enc)
<1>1. \E x : pa = Record(m, p, form, Len(pts), x)
  BY Zenon DEF InMemory, Record
<1>2. pa.data = data
  OBVIOUS
<1> HIDE DEF pa
<1>3. PICK x : pa = Record(m, p, form, Len(pts), x)
  BY <1>1
<1>4. x = pa.data
  BY <1>3 DEF Record
<1> QED
  BY <1>2, <1>3, <1>4, Zenon DEF pa

(* Uncompressed points read in the order of the machine that reads them.    *)
LEMMA PlainRead ==
  ASSUME NEW w \in Machine, NEW m \in Machine, NEW p \in Pcid, NEW pts \in Carried(p),
         NEW form \in {"none", "point"}, form = "point" => Len(pts) = 1,
         NEW buf, buf[1] = Order[w]
  PROVE  Known(Record(m, p, form, Len(pts), InOrder(buf, p, PointBytes(p, pts, Order[w]), m)), p, pts, form)
<1> DEFINE data == InOrder(buf, p, PointBytes(p, pts, Order[w]), m)
           pa == InMemory(m, p, pts, form, <<>>)
<1>1. pts \in Seq(PointSet(p)) /\ Order[w] \in {0, 1} /\ Order[m] \in {0, 1}
  BY BaseIs DEF Carried, Points
<1>2. data = PointBytes(p, pts, Order[m])
  <2>1. CASE Order[w] = Order[m]
    BY <2>1 DEF InOrder, Swapped
  <2>2. CASE Order[w] # Order[m]
    <3>1. Order[m] = 1 - Order[w]
      BY <1>1, <2>2
    <3>2. data = FlipPoints(p, PointBytes(p, pts, Order[w]))
      BY <2>2 DEF InOrder, Swapped
    <3> QED
      BY <1>1, <3>1, <3>2, Flipped
  <2> QED
    BY <2>1, <2>2
<1> HIDE DEF data
<1>3. Fields(pa, m, p, pts, form, <<>>)
  BY FieldsAre, Zenon
<1>4. pa.data = data
  BY <1>2, <1>3, Zenon DEF Fields
<1>5. Record(m, p, form, Len(pts), data) = pa
  BY <1>4, RecordIs, Zenon
<1>6. Shape(p, form, <<>>)
  BY DEF Shape
<1> QED
  BY <1>5, <1>6 DEF Known, data

(* A LAZ patch: the points in the same order, others when it is the other.  *)
LEMMA DeflatedRead ==
  ASSUME NEW w \in Machine, NEW m \in Machine, NEW p \in Pcid, NEW pts \in Carried(p)
  PROVE  \E qts : /\ Known(Record(m, p, "laz", Len(pts), Deflated(PointBytes(p, pts, Order[w]))), p, qts, "laz")
                  /\ Order[w] = Order[m] => qts = pts
<1> DEFINE qts == IF Order[w] = Order[m] THEN pts ELSE MisreadPoints(p, pts)
           pa == InMemory(m, p, qts, "laz", <<>>)
           data == Deflated(PointBytes(p, pts, Order[w]))
<1>1. pts \in Points(p) /\ Len(pts) \in 1 .. MaxPoints /\ Order[w] \in {0, 1} /\ Order[m] \in {0, 1}
  BY BaseIs DEF Carried
<1>2. /\ qts \in Points(p) /\ Len(qts) = Len(pts)
      /\ PointBytes(p, qts, Order[m]) = PointBytes(p, pts, Order[w])
  <2>1. CASE Order[w] = Order[m]
    BY <1>1, <2>1
  <2>2. CASE Order[w] # Order[m]
    <3>1. Order[m] = 1 - Order[w] /\ qts = MisreadPoints(p, pts)
      BY <1>1, <2>2
    <3>2. PointBytes(p, MisreadPoints(p, pts), 1 - Order[w]) = PointBytes(p, pts, Order[w])
      BY <1>1, MisreadBytes
    <3>3. MisreadPoints(p, pts) \in Points(p) /\ Len(MisreadPoints(p, pts)) = Len(pts)
      BY <1>1, MisreadPointsAre
    <3> HIDE DEF qts
    <3> QED
      BY <3>1, <3>2, <3>3
  <2> QED
    BY <2>1, <2>2
<1>a. Order[w] = Order[m] => qts = pts
  OBVIOUS
<1> HIDE DEF qts
<1>3. Fields(pa, m, p, qts, "laz", <<>>)
  BY FieldsAre, Zenon
<1>4. pa.data = data
  BY <1>2, <1>3, Zenon DEF Fields
<1> HIDE DEF data
<1>5. Record(m, p, "laz", Len(qts), data) = pa
  BY <1>4, RecordIs, Zenon
<1>6. Shape(p, "laz", <<>>)
  BY DEF Shape
<1>7. qts \in Carried(p)
  BY <1>1, <1>2 DEF Carried
<1>8. Known(Record(m, p, "laz", Len(pts), data), p, qts, "laz")
  BY <1>2, <1>5, <1>6, <1>7 DEF Known
<1> QED
  BY <1>a, <1>8 DEF data

(* Columns likewise, when there is none of runs to die of.                  *)
LEMMA ColumnsKnown ==
  ASSUME NEW w \in Machine, NEW m \in Machine, NEW p \in Pcid, NEW pts \in Carried(p),
         NEW enc, Shape(p, "dimensional", enc), NEW pa, pa = InMemory(w, p, pts, "dimensional", enc),
         Order[w] # Order[m] => \A d \in 1 .. NDims(p) : pa.data[d].enc # "rle"
  PROVE  \E qts : /\ Known(Record(m, p, "dimensional", Len(pts), pa.data), p, qts, "dimensional")
                  /\ Order[w] = Order[m] => qts = pts
<1> DEFINE qts == IF Order[w] = Order[m] THEN pts ELSE MisreadPoints(p, pts)
           pb == InMemory(m, p, qts, "dimensional", enc)
           col(s, d, o) == Encode(enc[d], ColumnOf(s, d), Widths[p][d], o)
<1>1. pts \in Points(p) /\ Len(pts) \in 1 .. MaxPoints /\ Order[w] \in {0, 1} /\ Order[m] \in {0, 1}
  BY BaseIs DEF Carried
<1>2. pa.data = [d \in 1 .. NDims(p) |-> [enc |-> enc[d], bytes |-> col(pts, d, Order[w])]]
  BY FieldsAre DEF Fields
<1>3. /\ qts \in Points(p) /\ Len(qts) = Len(pts)
      /\ \A d \in 1 .. NDims(p) : col(qts, d, Order[m]) = col(pts, d, Order[w])
  <2>1. CASE Order[w] = Order[m]
    BY <1>1, <2>1
  <2>2. CASE Order[w] # Order[m]
    <3>1. Order[m] = 1 - Order[w] /\ qts = MisreadPoints(p, pts)
      BY <1>1, <2>2
    <3>2. ASSUME NEW d \in 1 .. NDims(p)
          PROVE  col(MisreadPoints(p, pts), d, 1 - Order[w]) = col(pts, d, Order[w])
      <4>1. enc[d] # "rle"
        <5>1. pa.data[d].enc = enc[d]
          <6> DEFINE dat == pa.data
                     b == col(pts, d, Order[w])
          <6>1. dat[d] = [enc |-> enc[d], bytes |-> b]
            <7> HIDE DEF dat, col
            <7>1. dat = [k \in 1 .. NDims(p) |-> [enc |-> enc[k], bytes |-> col(pts, k, Order[w])]]
              BY <1>2, Zenon DEF dat
            <7> QED
              BY <7>1
          <6> HIDE DEF dat, b
          <6>2. dat[d].enc = enc[d]
            BY <6>1
          <6> QED
            BY <6>2 DEF dat
        <5> QED
          BY <2>2, <5>1
      <4>2. enc[d] \in Encoding
        BY DEF Shape
      <4> QED
        BY <1>1, <4>1, <4>2, MisreadColumn
    <3>3. MisreadPoints(p, pts) \in Points(p) /\ Len(MisreadPoints(p, pts)) = Len(pts)
      BY <1>1, MisreadPointsAre
    <3> HIDE DEF qts, col
    <3> QED
      BY <3>1, <3>2, <3>3
  <2> QED
    BY <2>1, <2>2
<1>a. Order[w] = Order[m] => qts = pts
  OBVIOUS
<1> HIDE DEF qts
<1>4. Fields(pb, m, p, qts, "dimensional", enc)
  BY FieldsAre, Zenon
<1>5. pb.data = [d \in 1 .. NDims(p) |-> [enc |-> enc[d], bytes |-> col(qts, d, Order[m])]]
  BY <1>4, Zenon DEF Fields
<1> HIDE DEF col, pb
<1>6. pb.data = pa.data
  BY <1>2, <1>3, <1>5
<1>7. Record(m, p, "dimensional", Len(qts), pa.data) = pb
  BY <1>6, RecordIs, Zenon DEF pb
<1>8. qts \in Carried(p)
  BY <1>1, <1>3 DEF Carried
<1>9. Known(Record(m, p, "dimensional", Len(pts), pa.data), p, qts, "dimensional")
  BY <1>3, <1>7, <1>8 DEF Known, pb
<1> QED
  BY <1>a, <1>9

(* What is read is stored in some form, or refused by the column.           *)
LEMMA ArriveInv ==
  ASSUME NEW pa, NEW p, NEW pts, NEW form, Known(pa, p, pts, form),
         Portable => sent = Meaning(p, pts, form),
         NEW t \in Typmod, Arrive(pa, t), wkb' = <<>>, UNCHANGED sent
  PROVE  WkbInv'
<1>1. SentKnown'
  BY DEF SentKnown
<1>2. CASE Consistent(pa.pcid, t) /\ typmod' = t /\ outcome' = "read"
           /\ \E f \in Form(pa.pcid) : held' = Stored(pa, f)
  <2>1. PICK f \in Form(pa.pcid) : held' = Stored(pa, f)
    BY <1>2
  <2>2. PICK g : Known(held', p, pts, g) /\ (g = "point" <=> form = "point")
    BY <2>1, StoredKnown
  <2>3. Portable => sent' = Meaning(p, pts, g)
    BY <2>2, SameMeaning
  <2>4. HeldKnown'
    BY <2>2, <2>3 DEF HeldKnown
  <2> QED
    BY <1>1, <1>2, <2>4 DEF WkbInv
<1>3. CASE Fail("inconsistent")
  <2>1. HeldKnown'
    BY <1>3 DEF Fail, HeldKnown
  <2>2. -1 \in Typmod
    BY WkbAssumption
  <2> QED
    BY <1>1, <1>3, <2>1, <2>2 DEF Fail, WkbInv
<1> QED
  BY <1>2, <1>3, Zenon DEF Arrive


LEMMA ReadPatchInv ==
  ASSUME WkbInv, NEW m \in Machine, NEW t \in Typmod, ReadPatch(m, t)
  PROVE  WkbInv'
<1>1. /\ wkb # <<>> /\ sent.type = "PcPatch" /\ wkb' = <<>> /\ UNCHANGED sent
      /\ Swapped(wkb, m) => FormOf(wkb, m) \in {FormNumber(f) : f \in CrossForms}
  BY DEF ReadPatch
<1>2. PICK pa, p, pts, form : Known(pa, p, pts, form) /\ wkb = ToWkb(pa) /\ sent = Meaning(p, pts, form)
  BY <1>1 DEF WkbInv, SentKnown
<1>3. /\ p \in Pcid /\ pts \in Carried(p) /\ pts \in Points(p) /\ Len(pts) \in 1 .. MaxPoints
      /\ form = "point" => Len(pts) = 1
  BY <1>2, KnownIs DEF Carried, Known
<1>4. PICK w, enc :
        /\ w \in Machine
        /\ Shape(p, form, enc) /\ pa = InMemory(w, p, pts, form, enc)
        /\ Laid(wkb, Order[w], p, Len(pts), form, Body(pa))
  BY <1>2, KnownLaid
<1>5. form \in {"none", "laz", "dimensional"} /\ form # "point"
  <2>1. form # "point"
    BY <1>1, <1>2 DEF Meaning
  <2> QED
    BY <1>4, <2>1 DEF Shape
<1>6. wkb[1] = Order[w] /\ Order[w] \in {0, 1}
  BY <1>4, BaseIs DEF Laid
<1>7. PcidOf(wkb, m) = p /\ FormOf(wkb, m) = FormNumber(form) /\ NPointsOf(wkb, m) = Len(pts)
  <2>1. form \in {"none", "laz", "dimensional", "point"}
    BY <1>5
  <2>2. Laid(wkb, Order[w], p, Len(pts), form, Body(pa)) /\ Order[w] \in {0, 1}
        /\ p \in Pcid /\ Len(pts) \in 1 .. MaxPoints
    BY <1>3, <1>4, <1>6
  <2>3. HeaderSays(wkb, m, p, Len(pts), form)
    BY <2>1, <2>2, HeaderRead, Zenon
  <2> QED
    BY <1>5, <2>3 DEF HeaderSays
<1>8. Swapped(wkb, m) <=> Order[w] # Order[m]
  BY <1>6 DEF Swapped
<1>9. Order[w] # Order[m] /\ Portable => form = "none"
  <2> SUFFICES ASSUME Order[w] # Order[m], Portable PROVE form = "none"
    OBVIOUS
  <2>1. PICK f \in CrossForms : FormNumber(form) = FormNumber(f)
    BY <1>1, <1>7, <1>8
  <2>2. FormNumber(form) = FormNumber("none")
    BY <2>1 DEF Portable
  <2> QED
    BY <1>5, <2>2, FormNumberIs
<1>10. \/ form = "none" /\ FormNumber(form) = 0
       \/ form = "dimensional" /\ FormNumber(form) = 1
       \/ form = "laz" /\ FormNumber(form) = 2
  BY <1>5, FormNumberIs
<1> DEFINE body == SubSeq(wkb, HeaderSize + 1, Len(wkb))
           n == Len(pts)
<1>11. \/ /\ form = "none"
          /\ IF Len(body) # n * Size(p) THEN Fail("refused")
             ELSE Arrive(Record(m, p, "none", n, InOrder(wkb, p, body, m)), t)
       \/ /\ form = "dimensional"
          /\ IF Columns(wkb, p, m).dies THEN Fail("died")
             ELSE Arrive(Record(m, p, "dimensional", n, Columns(wkb, p, m).cols), t)
       \/ /\ form = "laz"
          /\ Arrive(Record(m, p, "laz", n, LazBuffer(wkb, m)), t)
  <2> DEFINE q == PcidOf(wkb, m)
             k == NPointsOf(wkb, m)
             f == FormOf(wkb, m)
  <2>1. \/ q \notin Pcid \/ f \notin {0, 1, 2}
        \/ /\ f = 0
           /\ IF Len(body) # k * Size(q) THEN Fail("refused")
              ELSE Arrive(Record(m, q, "none", k, InOrder(wkb, q, body, m)), t)
        \/ /\ f = 1
           /\ IF Columns(wkb, q, m).dies THEN Fail("died")
              ELSE Arrive(Record(m, q, "dimensional", k, Columns(wkb, q, m).cols), t)
        \/ /\ f = 2
           /\ Arrive(Record(m, q, "laz", k, LazBuffer(wkb, m)), t)
    <3> HIDE DEF q, k, f, body
    <3> QED
      BY Zenon DEF ReadPatch, Record, q, k, f, body
  <2>2. q = p /\ k = n /\ f = FormNumber(form)
    BY <1>7
  <2> HIDE DEF q, k, f, body, n
  <2>3. q \in Pcid /\ f \in {0, 1, 2} /\ f = FormNumber(form)
    BY <1>3, <1>10, <2>2
  <2>4. CASE form = "none"
    <3>1. f = 0 /\ f # 1 /\ f # 2
      BY <1>10, <2>3, <2>4
    <3>2. IF Len(body) # k * Size(q) THEN Fail("refused")
          ELSE Arrive(Record(m, q, "none", k, InOrder(wkb, q, body, m)), t)
      BY <2>1, <2>3, <3>1, Zenon
    <3> QED
      BY <2>2, <2>4, <3>2, Zenon
  <2>5. CASE form = "dimensional"
    <3>1. f = 1 /\ f # 0 /\ f # 2
      BY <1>10, <2>3, <2>5
    <3>2. IF Columns(wkb, q, m).dies THEN Fail("died")
          ELSE Arrive(Record(m, q, "dimensional", k, Columns(wkb, q, m).cols), t)
      BY <2>1, <2>3, <3>1, Zenon
    <3> QED
      BY <2>2, <2>5, <3>2, Zenon
  <2>6. CASE form = "laz"
    <3>1. f = 2 /\ f # 0 /\ f # 1
      BY <1>10, <2>3, <2>6
    <3>2. Arrive(Record(m, q, "laz", k, LazBuffer(wkb, m)), t)
      BY <2>1, <2>3, <3>1, Zenon
    <3> QED
      BY <2>2, <2>6, <3>2, Zenon
  <2> QED
    BY <1>5, <2>4, <2>5, <2>6
<1>12. CASE form = "none"
  <2>1. body = PointBytes(p, pts, Order[w])
    <3>1. Body(pa) = PointBytes(p, pts, Order[w])
      BY <1>3, <1>4, <1>12, BodyIs
    <3>2. body = Body(pa)
      <4>1. HeaderOf(form) = HeaderSize
        BY <1>12 DEF HeaderOf
      <4>2. SubSeq(wkb, HeaderOf(form) + 1, Len(wkb)) = Body(pa)
        BY <1>4, BodyRead
      <4> QED
        BY <4>1, <4>2
    <3> QED
      BY <3>1, <3>2
  <2>2. Len(body) = n * Size(p)
    <3>1. pts \in Seq(PointSet(p))
      BY <1>3, PointsAre
    <3>2. Len(PointBytes(p, pts, Order[w])) = n * Size(p)
      BY <1>3, <1>6, <3>1, PointBytesAre
    <3> HIDE DEF body
    <3> QED
      BY <2>1, <3>2
  <2> DEFINE r == Record(m, p, "none", n, InOrder(wkb, p, body, m))
  <2>3. Known(r, p, pts, "none")
    BY <1>3, <1>4, <1>6, <2>1, PlainRead
  <2> HIDE DEF body, n
  <2>4. Arrive(r, t)
    BY <1>11, <1>12, <2>2
  <2>5. Portable => sent = Meaning(p, pts, "none")
    BY <1>2, <1>12
  <2> HIDE DEF r
  <2> QED
    BY <1>1, <2>3, <2>4, <2>5, ArriveInv
<1>13. CASE form = "laz"
  <2> DEFINE data == Deflated(PointBytes(p, pts, Order[w]))
             r == Record(m, p, "laz", n, data)
  <2>1. LazBuffer(wkb, m) = data
    <3>1. Body(pa) = Image(1, IntSize, Order[w]) \o data
      BY <1>3, <1>4, <1>13, BodyIs
    <3>2. PointBytes(p, pts, Order[w]) \in Seq(Nat)
      BY <1>3, <1>6, PointsAre, PointBytesAre
    <3>3. Laid(wkb, Order[w], p, Len(pts), "laz", Image(1, IntSize, Order[w]) \o data)
      BY <1>4, <1>13, <3>1
    <3> QED
      BY <1>3, <1>6, <3>2, <3>3, LazRead
  <2>2. PICK qts : Known(r, p, qts, "laz") /\ (Order[w] = Order[m] => qts = pts)
    BY <1>3, <1>4, DeflatedRead
  <2> HIDE DEF data, n
  <2>3. Arrive(r, t)
    BY <1>11, <1>13, <2>1
  <2>4. Portable => sent = Meaning(p, qts, "laz")
    BY <1>2, <1>9, <1>13, <2>2
  <2> HIDE DEF r
  <2> QED
    BY <1>1, <2>2, <2>3, <2>4, ArriveInv
<1>14. CASE form = "dimensional"
  <2>1. Shape(p, "dimensional", enc) /\ pa = InMemory(w, p, pts, "dimensional", enc)
    BY <1>4, <1>14
  <2>2. Laid(wkb, Order[w], p, Len(pts), "dimensional", Body(pa))
    BY <1>4, <1>14
  <2>3. /\ Columns(wkb, p, m).cols = pa.data
        /\ ~ Swapped(wkb, m) => ~ Columns(wkb, p, m).dies
        /\ Swapped(wkb, m) /\ ~ Columns(wkb, p, m).dies =>
             \A d \in 1 .. NDims(p) : pa.data[d].enc # "rle"
    BY <1>3, <1>4, <2>1, <2>2, ColumnsRead
  <2>4. CASE Columns(wkb, p, m).dies
    <3>1. Fail("died")
      BY <1>11, <1>14, <2>4, Zenon
    <3>2. ~ Portable
      BY <1>8, <1>9, <1>14, <2>3, <2>4
    <3>3. HeldKnown' /\ SentKnown'
      BY <1>1, <3>1 DEF Fail, HeldKnown, SentKnown
    <3>4. -1 \in Typmod
      BY WkbAssumption
    <3> QED
      BY <3>1, <3>2, <3>3, <3>4 DEF Fail, WkbInv
  <2>5. CASE ~ Columns(wkb, p, m).dies
    <3> DEFINE r == Record(m, p, "dimensional", n, pa.data)
    <3>1. Arrive(r, t)
      <4>1. Arrive(Record(m, p, "dimensional", n, Columns(wkb, p, m).cols), t)
        BY <1>11, <1>14, <2>5, Zenon
      <4> QED
        BY <2>3, <4>1, Zenon
    <3>2. Order[w] # Order[m] => \A d \in 1 .. NDims(p) : pa.data[d].enc # "rle"
      BY <1>8, <2>3, <2>5
    <3>3. PICK qts : Known(r, p, qts, "dimensional") /\ (Order[w] = Order[m] => qts = pts)
      BY <1>3, <1>4, <2>1, <3>2, ColumnsKnown
    <3>4. Portable => sent = Meaning(p, qts, "dimensional")
      BY <1>2, <1>9, <1>14, <3>3
    <3> HIDE DEF r
    <3> QED
      BY <1>1, <3>1, <3>3, <3>4, ArriveInv
  <2> QED
    BY <2>4, <2>5
<1> QED
  BY <1>5, <1>12, <1>13, <1>14

LEMMA ReadPointInv ==
  ASSUME WkbInv, NEW m \in Machine, NEW t \in Typmod, ReadPoint(m, t)
  PROVE  WkbInv'
<1>1. wkb # <<>> /\ sent.type = "PcPoint" /\ wkb' = <<>> /\ UNCHANGED sent
  BY DEF ReadPoint
<1>2. PICK pa, p, pts, form : Known(pa, p, pts, form) /\ wkb = ToWkb(pa) /\ sent = Meaning(p, pts, form)
  BY <1>1 DEF WkbInv, SentKnown
<1>3. form = "point"
  BY <1>1, <1>2 DEF Meaning
<1>4. /\ p \in Pcid /\ pts \in Carried(p) /\ pts \in Points(p) /\ Len(pts) = 1
      /\ Len(pts) \in 1 .. MaxPoints
  BY <1>2, <1>3, KnownIs DEF Carried, Known
<1>5. PICK w, enc :
        /\ w \in Machine
        /\ Shape(p, form, enc) /\ pa = InMemory(w, p, pts, form, enc)
        /\ Laid(wkb, Order[w], p, Len(pts), form, Body(pa))
  BY <1>2, KnownLaid
<1>6. wkb[1] = Order[w] /\ Order[w] \in {0, 1}
  BY <1>5, BaseIs DEF Laid
<1>7. PcidOf(wkb, m) = p
  <2>1. form \in {"none", "laz", "dimensional", "point"}
    BY <1>3
  <2>2. HeaderSays(wkb, m, p, Len(pts), form)
    BY <1>4, <1>5, <1>6, <2>1, HeaderRead, Zenon
  <2> QED
    BY <2>2 DEF HeaderSays
<1> DEFINE body == SubSeq(wkb, PointHeaderSize + 1, Len(wkb))
<1>8. body = PointBytes(p, pts, Order[w])
  <2>1. Body(pa) = PointBytes(p, pts, Order[w])
    BY <1>3, <1>4, <1>5, BodyIs
  <2>2. SubSeq(wkb, HeaderOf(form) + 1, Len(wkb)) = Body(pa) /\ HeaderOf(form) = PointHeaderSize
    BY <1>3, <1>5, BodyRead DEF HeaderOf
  <2> QED
    BY <2>1, <2>2
<1>9. Len(body) = Size(p)
  <2>1. pts \in Seq(PointSet(p)) /\ Size(p) \in Nat
    <3>1. 1 \in 1 .. NDims(p)
      BY <1>4, PcidIs
    <3> QED
      BY <1>4, <3>1, PointsAre, OffsetIs
  <2>2. Len(body) = Len(pts) * Size(p)
    BY <1>4, <1>6, <1>8, <2>1, PointBytesAre, ZenonT(30)
  <2>3. 1 * Size(p) = Size(p)
    BY <2>1
  <2> QED
    BY <1>4, <2>2, <2>3
<1> DEFINE r == Record(m, p, "point", 1, InOrder(wkb, p, body, m))
<1>10. Known(r, p, pts, "point")
  BY <1>4, <1>5, <1>6, <1>8, PlainRead
<1>11. Arrive(r, t)
  <2> DEFINE q == PcidOf(wkb, m)
  <2>1. IF q \notin Pcid \/ Len(body) # Size(q) THEN Fail("refused")
        ELSE Arrive(Record(m, q, "point", 1, InOrder(wkb, q, body, m)), t)
    <3> HIDE DEF q, body
    <3> QED
      BY Zenon DEF ReadPoint, Record, q, body
  <2> HIDE DEF q, body
  <2>2. q = p
    BY <1>7 DEF q
  <2> QED
    BY <1>4, <1>9, <2>1, <2>2, Zenon
<1>12. Portable => sent = Meaning(p, pts, "point")
  BY <1>2, <1>3
<1> HIDE DEF r
<1> QED
  BY <1>1, <1>10, <1>11, <1>12, ArriveInv

-----------------------------------------------------------------------------
(* Every step keeps it.                                                     *)

LEMMA InitWkb == Init => WkbInv
<1>1. -1 \in Typmod
  BY WkbAssumption
<1> QED
  BY <1>1 DEF Init, WkbInv, HeldKnown, SentKnown

(* The value of an expression is known.                                     *)
LEMMA ComputedInv ==
  ASSUME WkbInv, NEW pa, NEW p, NEW pts, NEW form, Known(pa, p, pts, form), Computed(pa),
         outcome' \in {"made", outcome},
         Portable /\ outcome' = "read" => sent' = Meaning(p, pts, form), UNCHANGED <<wkb, sent>>
  PROVE  WkbInv'
<1>1. held' = pa /\ typmod' = -1 /\ -1 \in Typmod
  BY WkbAssumption DEF Computed
<1>2. HeldKnown'
  BY <1>1 DEF HeldKnown
<1>3. SentKnown'
  BY DEF WkbInv, SentKnown
<1>4. /\ outcome' \in {"made", "read", "inconsistent", "died"}
      /\ Portable => outcome' # "died"
  BY DEF WkbInv
<1> QED
  BY <1>1, <1>2, <1>3, <1>4 DEF WkbInv

LEMMA HeldIs ==
  ASSUME WkbInv, held # None
  PROVE  \E p, pts, form : /\ Known(held, p, pts, form) /\ held.pcid = p /\ held.form = form
                           /\ Portable /\ outcome = "read" => sent = Meaning(p, pts, form)
<1>1. PICK p, pts, form :
        Known(held, p, pts, form) /\ (Portable /\ outcome = "read" => sent = Meaning(p, pts, form))
  BY DEF WkbInv, HeldKnown
<1>2. held.pcid = p /\ held.form = form
  BY <1>1, KnownIs
<1> QED
  BY <1>1, <1>2

LEMMA StepWkb == WkbInv /\ [Next]_vars => WkbInv'
<1> SUFFICES ASSUME WkbInv, [Next]_vars PROVE WkbInv'
  OBVIOUS
<1>1. ASSUME NEW m \in Machine, NEW p \in Pcid, NEW pts \in PointsIn(p), NEW f \in Form(p),
             Make(m, p, pts, f)
      PROVE  WkbInv'
  <2>1. Known(InMemory(m, p, pts, f[1], f[2]), p, pts, f[1])
    BY PointsInAre, MakeKnown
  <2>2. /\ Computed(InMemory(m, p, pts, f[1], f[2])) /\ outcome' = "made"
        /\ UNCHANGED <<wkb, sent>>
    BY <1>1 DEF Make
  <2> QED
    BY <2>1, <2>2, ComputedInv
<1>2. ASSUME held # None, NEW f \in Form(held.pcid), Convert(f) PROVE WkbInv'
  <2>1. PICK p, pts, form : /\ Known(held, p, pts, form) /\ held.form = form
                            /\ Portable /\ outcome = "read" => sent = Meaning(p, pts, form)
    BY <1>2, HeldIs
  <2>2. Known(Converted(held, f), p, pts, f[1]) /\ f[1] # "point"
    BY <2>1, ConvertKnown
  <2>3. Meaning(p, pts, f[1]) = Meaning(p, pts, form)
    BY <1>2, <2>1, <2>2 DEF Convert, Meaning
  <2>4. Computed(Converted(held, f)) /\ UNCHANGED <<wkb, sent, outcome>>
    BY <1>2 DEF Convert
  <2> QED
    BY <2>1, <2>2, <2>3, <2>4, ComputedInv
<1>3. ASSUME held # None, NEW f \in Form(held.pcid), PatchOfPoint(f) PROVE WkbInv'
  <2>1. PICK p, pts, form : Known(held, p, pts, form)
    BY <1>3, HeldIs
  <2>2. Known(Converted(held, f), p, pts, f[1])
    BY <2>1, ConvertKnown
  <2>3. Computed(Converted(held, f)) /\ outcome' = "made" /\ UNCHANGED <<wkb, sent>>
    BY <1>3 DEF PatchOfPoint
  <2> QED
    BY <2>2, <2>3, ComputedInv
<1>4. ASSUME NEW n, PointN(n) PROVE WkbInv'
  <2>1. /\ held # None /\ n \in 1 .. held.npoints
        /\ Computed(PointOf(held, n)) /\ outcome' = "made" /\ UNCHANGED <<wkb, sent>>
    BY <1>4 DEF PointN
  <2>2. PICK p, pts, form : Known(held, p, pts, form)
    BY <2>1, HeldIs
  <2>3. Known(PointOf(held, n), p, <<pts[n]>>, "point")
    BY <2>1, <2>2, PointKnown
  <2> QED
    BY <2>1, <2>3, ComputedInv
<1>5. ASSUME NEW t \in Typmod, Assign(t) PROVE WkbInv'
  <2>1. typmod' \in Typmod /\ UNCHANGED <<held, wkb, sent, outcome>>
    BY <1>5 DEF Assign, WkbInv
  <2> QED
    BY <2>1 DEF WkbInv, HeldKnown, SentKnown
<1>6. CASE Write
  <2>1. /\ held # None /\ wkb' = ToWkb(held) /\ sent' = Meant(held)
        /\ held' = None /\ typmod' = -1 /\ UNCHANGED outcome
    BY <1>6 DEF Write
  <2>2. PICK p, pts, form : Known(held, p, pts, form)
    BY <2>1, HeldIs
  <2>3. sent' = Meaning(p, pts, form)
    BY <2>1, <2>2, KnownIs
  <2>4. SentKnown'
    BY <2>1, <2>2, <2>3 DEF SentKnown
  <2>5. HeldKnown' /\ -1 \in Typmod
    BY <2>1, WkbAssumption DEF HeldKnown
  <2> QED
    BY <2>1, <2>4, <2>5 DEF WkbInv
<1>7. ASSUME NEW m \in Machine, NEW t \in Typmod, ReadPatch(m, t) PROVE WkbInv'
  BY <1>7, ReadPatchInv
<1>8. ASSUME NEW m \in Machine, NEW t \in Typmod, ReadPoint(m, t) PROVE WkbInv'
  BY <1>8, ReadPointInv
<1>9. CASE UNCHANGED vars
  BY <1>9 DEF vars, WkbInv, HeldKnown, SentKnown
<1> QED
  BY <1>1, <1>2, <1>3, <1>4, <1>5, <1>6, <1>7, <1>8, <1>9 DEF Next

-----------------------------------------------------------------------------
(* What it says.                                                            *)

LEMMA WkbTypesHold == WkbInv => TypeOK
<1> SUFFICES ASSUME WkbInv PROVE TypeOK
  OBVIOUS
<1>1. ASSUME held # None
      PROVE  held.at \in Machine /\ held.pcid \in Pcid /\ Full(held)
  <2>1. PICK p, pts, form : Known(held, p, pts, form)
    BY <1>1, HeldIs
  <2> QED
    BY <2>1, KnownIs
<1>2. outcome \in {"made", "read", "refused", "died", "inconsistent"} /\ typmod \in Typmod
  BY DEF WkbInv
<1> QED
  BY <1>1, <1>2, Zenon DEF TypeOK, Full

LEMMA WkbPartsHold == WkbInv => PartsFoundEverywhere
<1> SUFFICES ASSUME WkbInv, wkb # <<>>
             PROVE  HeaderPortable /\ (sent.type = "PcPatch" => BodyFilled)
  BY DEF PartsFoundEverywhere
<1>1. PICK pa, p, pts, form : Known(pa, p, pts, form) /\ wkb = ToWkb(pa) /\ sent = Meaning(p, pts, form)
  BY DEF WkbInv, SentKnown
<1>2. p \in Pcid /\ pts \in Carried(p) /\ pts \in Points(p) /\ Len(pts) \in 1 .. MaxPoints
  BY <1>1, KnownIs DEF Carried
<1>3. PICK w, enc :
        /\ w \in Machine
        /\ Shape(p, form, enc) /\ pa = InMemory(w, p, pts, form, enc)
        /\ Laid(wkb, Order[w], p, Len(pts), form, Body(pa))
  BY <1>1, KnownLaid
<1>4. sent.type = "PcPatch" <=> form # "point"
  BY <1>1 DEF Meaning
<1>5. Order[w] \in {0, 1} /\ form \in {"none", "laz", "dimensional", "point"}
  BY <1>3, BaseIs DEF Shape
<1>6. ASSUME NEW m \in Machine
      PROVE  /\ PcidOf(wkb, m) = p
             /\ form # "point" => FormOf(wkb, m) = FormNumber(form) /\ NPointsOf(wkb, m) = Len(pts)
  <2>1. HeaderSays(wkb, m, p, Len(pts), form)
    BY <1>2, <1>3, <1>5, HeaderRead, Zenon
  <2> QED
    BY <2>1 DEF HeaderSays
<1>7. HeaderPortable
  BY <1>2, <1>4, <1>6 DEF HeaderPortable
<1>8. ASSUME form # "point", NEW m \in Machine, FormOf(wkb, m) = 1
      PROVE  Columns(wkb, PcidOf(wkb, m), m).at = Len(wkb) + 1
  <2>1. form = "dimensional"
    BY <1>5, <1>6, <1>8, FormNumberIs
  <2>2. Shape(p, "dimensional", enc) /\ pa = InMemory(w, p, pts, "dimensional", enc)
    BY <1>3, <2>1
  <2>3. Laid(wkb, Order[w], p, Len(pts), "dimensional", Body(pa))
    BY <1>3, <2>1
  <2>4. Columns(wkb, p, m).at = Len(wkb) + 1
    BY <1>2, <1>3, <2>2, <2>3, ColumnsRead
  <2> QED
    BY <1>6, <2>4
<1>9. ASSUME form # "point", NEW m \in Machine, FormOf(wkb, m) = 2
      PROVE  HeaderSize + IntSize + GetInt(wkb, HeaderSize + 1, m) = Len(wkb)
  <2> DEFINE img == PointBytes(p, pts, Order[w])
             body == Image(1, IntSize, Order[w]) \o Deflated(img)
  <2>1. form = "laz"
    BY <1>5, <1>6, <1>9, FormNumberIs
  <2>2. img \in Seq(Nat)
    BY <1>2, <1>5, PointsAre, PointBytesAre
  <2>3. Body(pa) = body
    BY <1>2, <1>3, <2>1, BodyIs
  <2> HIDE DEF img
  <2>4. Laid(wkb, Order[w], p, Len(pts), "laz", body)
    <3> HIDE DEF body
    <3> QED
      BY <1>3, <2>1, <2>3
  <2> QED
    BY <1>2, <1>5, <2>2, <2>4, LazRead
<1>10. form # "point" => BodyFilled
  BY <1>8, <1>9 DEF BodyFilled
<1> QED
  BY <1>4, <1>7, <1>10

LEMMA WkbArrivesHold == Portable /\ WkbInv => WhatWasSentArrives
<1> SUFFICES ASSUME Portable, WkbInv PROVE WhatWasSentArrives
  OBVIOUS
<1>1. outcome \notin {"refused", "died"}
  BY DEF WkbInv
<1>2. ASSUME outcome = "read", held # None PROVE Meant(held) = sent
  <2>1. PICK p, pts, form : Known(held, p, pts, form) /\ sent = Meaning(p, pts, form)
    BY <1>2, HeldIs
  <2> QED
    BY <2>1, KnownIs
<1> QED
  BY <1>1, <1>2 DEF WhatWasSentArrives

(* A patch in memory has as many bytes, or values in each column, as its    *)
(* npoints says, whatever was read, computed or converted on machines of    *)
(* either order, and even where the values were left unswapped.             *)
THEOREM WkbTypes == Spec => []TypeOK
BY InitWkb, StepWkb, WkbTypesHold, PTL DEF Spec

(* Every machine finds in a WKB the pcid, form and number of points that    *)
(* were written, and walking its columns, or adding up the size of LAZ,     *)
(* ends at its last byte, whichever machine wrote it.                       *)
THEOREM PartsAreFound == Spec => []PartsFoundEverywhere
BY InitWkb, StepWkb, WkbPartsHold, PTL DEF Spec

(* Where the machines of the other order read only uncompressed patches,    *)
(* and points, a value read from WKB has the schema and the points its      *)
(* writer had, over any number of hops, conversions and columns, and no     *)
(* WKB is refused but for its column.                                       *)
THEOREM ValuesArrive ==
  ASSUME CrossForms \subseteq {"none"}
  PROVE  Spec => []WhatWasSentArrives
<1>1. WkbInv => WhatWasSentArrives
  BY WkbArrivesHold DEF Portable
<1> QED
  BY <1>1, InitWkb, StepWkb, PTL DEF Spec
=============================================================================
