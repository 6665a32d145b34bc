---------------------------- MODULE PatchRowProofs ----------------------------
(***************************************************************************)
(* Proofs about PatchRow for every schema, every number of points and      *)
(* every value, in all three forms: what a patch carries beside its points *)
(* stays what the points say, whatever sequence of functions rewrites it.  *)
(***************************************************************************)
EXTENDS MCPatchQuery, RunLengthProofs

(* Types and scales of a dimension.                                         *)
LEMMA DimensionIs ==
  ASSUME NEW p \in Pcid, NEW d \in Dims(p)
  PROVE  /\ Schema[p].scale[d] \in Nat \ {0}
         /\ Schema[p].offset[d] \in Int
         /\ Schema[p].interp[d].min \in Int /\ Schema[p].interp[d].max \in Nat
         /\ Schema[p].interp[d].min <= 0
         /\ Raw(p, d) \subseteq Int
         /\ \A v \in Int : v \in Raw(p, d) <=> /\ Schema[p].interp[d].min <= v
                                               /\ v <= Schema[p].interp[d].max
  BY SchemaAssumption DEF Raw

(* A schema lists x and y, and has one of three compressions.               *)
LEMMA SchemaIs ==
  ASSUME NEW p \in Pcid
  PROVE  Planar \subseteq Dims(p) /\ Schema[p].comp \in {"none", "dimensional", "laz"}
  BY SchemaAssumption

LEMMA ScaleOrder ==
  ASSUME NEW a \in Int, NEW b \in Int, NEW s \in Nat \ {0}, NEW o \in Int, a <= b
  PROVE  a * s + o <= b * s + o
<1>1. (b - a) * s >= 0
  OBVIOUS
<1>2. (b - a) * s = b * s - a * s /\ a * s \in Int /\ b * s \in Int
  OBVIOUS
<1> QED
  BY <1>1, <1>2

(* A scale is positive, so values are ordered like the raw ones.            *)
LEMMA ScaledKeepsOrder ==
  ASSUME NEW p \in Pcid, NEW d \in Dims(p), NEW a \in Int, NEW b \in Int
  PROVE  /\ Scaled(p, d, a) \in Int
         /\ a <= b => Scaled(p, d, a) <= Scaled(p, d, b)
<1>1. Schema[p].scale[d] \in Nat \ {0} /\ Schema[p].offset[d] \in Int
  BY DimensionIs
<1>2. a <= b => Scaled(p, d, a) <= Scaled(p, d, b)
  BY <1>1, ScaleOrder DEF Scaled
<1>3. a * Schema[p].scale[d] \in Int
  BY <1>1
<1> QED
  BY <1>1, <1>2, <1>3 DEF Scaled

LEMMA LroundIn ==
  ASSUME NEW num \in Int, NEW den \in Nat \ {0}
  PROVE  Lround(num, den) \in Int
<1>1. 2 * den \in Nat \ {0} /\ 2 * num + den \in Int /\ den - 2 * num \in Int
  OBVIOUS
<1>2. (2 * num + den) \div (2 * den) \in Int /\ (den - 2 * num) \div (2 * den) \in Int
  BY <1>1
<1> QED
  BY <1>2 DEF Lround

LEMMA Quotient ==
  ASSUME NEW q \in Int, NEW m \in Nat \ {0}
  PROVE  (2 * (q * m) + m) \div (2 * m) = q
  OBVIOUS

(* A whole number of units is not rounded.                                  *)
LEMMA LroundExact ==
  ASSUME NEW q \in Int, NEW den \in Nat \ {0}
  PROVE  Lround(q * den, den) = q
<1>1. q * den \in Int /\ (q >= 0 <=> q * den >= 0) /\ -q \in Int
  OBVIOUS
<1>2. (2 * (q * den) + den) \div (2 * den) = q
  BY Quotient
<1>3. (2 * ((-q) * den) + den) \div (2 * den) = -q
  BY <1>1, Quotient
<1>4. 2 * ((-q) * den) + den = den - 2 * (q * den)
  OBVIOUS
<1> QED
  BY <1>1, <1>2, <1>3, <1>4 DEF Lround

(* What is written to a point lies within its type.                         *)
LEMMA RawOfIn ==
  ASSUME NEW p \in Pcid, NEW d \in Dims(p), NEW num \in Int, NEW den \in Nat \ {0}
  PROVE  RawOf(p, d, num, den) \in Raw(p, d)
<1> DEFINE n == num - Schema[p].offset[d] * den
           m == Schema[p].scale[d] * den
<1>1. Schema[p].scale[d] \in Nat \ {0} /\ Schema[p].offset[d] \in Int
  BY DimensionIs
<1>2. n \in Int /\ m \in Nat \ {0}
  BY <1>1
<1> HIDE DEF n, m
<1>3. Lround(n, m) \in Int
  BY <1>2, LroundIn
<1>4. Clamp(Lround(n, m), Schema[p].interp[d]) \in Raw(p, d)
  BY <1>3, DimensionIs DEF Clamp
<1> QED
  BY <1>4 DEF RawOf, n, m

LEMMA RawUnit ==
  ASSUME NEW raw \in Int, NEW s \in Nat \ {0}, NEW o \in Int
  PROVE  raw * s \in Int /\ raw * s + o - o * 1 = raw * s /\ s * 1 = s
<1>1. raw * s \in Int
  OBVIOUS
<1> QED
  BY <1>1

(* Reading a value and writing it again leaves the raw value.               *)
LEMMA RawOfScaled ==
  ASSUME NEW p \in Pcid, NEW d \in Dims(p), NEW raw \in Raw(p, d)
  PROVE  RawOf(p, d, Scaled(p, d, raw), 1) = raw
<1>1. Schema[p].scale[d] \in Nat \ {0} /\ Schema[p].offset[d] \in Int /\ raw \in Int
  BY DimensionIs
<1>2. \A num, x, y : num - y * 1 = x /\ Lround(x, Schema[p].scale[d] * 1) = raw /\ y = Schema[p].offset[d]
        => RawOf(p, d, num, 1) = Clamp(raw, Schema[p].interp[d])
  BY Zenon DEF RawOf
<1>3. \A s \in Nat \ {0}, o \in Int : raw * s \in Int /\ raw * s + o - o * 1 = raw * s /\ s * 1 = s
  BY <1>1, RawUnit
<1>4. Lround(raw * Schema[p].scale[d], Schema[p].scale[d]) = raw
  BY <1>1, LroundExact
<1>5. Clamp(raw, Schema[p].interp[d]) = raw
  BY <1>1, DimensionIs DEF Clamp
<1>6. Scaled(p, d, raw) = raw * Schema[p].scale[d] + Schema[p].offset[d]
  BY Zenon DEF Scaled
<1> QED
  BY <1>1, <1>2, <1>3, <1>4, <1>5, <1>6

-----------------------------------------------------------------------------
(* Least and greatest raw value of a dimension.                             *)
LEMMA Extremes ==
  ASSUME NEW T, T # {}, NEW lo \in Int, NEW hi \in Int, T \subseteq lo .. hi
  PROVE  /\ \E x \in T : \A y \in T : x <= y
         /\ \E x \in T : \A y \in T : y <= x
<1> DEFINE U == {x - lo : x \in T}
           V == {hi - x : x \in T}
<1>0. \A x \in T : x \in Int /\ x - lo \in Nat /\ hi - x \in Nat
  OBVIOUS
<1>1. U \subseteq Nat /\ U # {} /\ V \subseteq Nat /\ V # {}
  BY <1>0
<1>2. PICK u \in U : \A y \in U : u <= y
  <2> HIDE DEF U, V
  <2> QED
    BY <1>1, LeastNat
<1>3. PICK v \in V : \A y \in V : v <= y
  <2> HIDE DEF U, V
  <2> QED
    BY <1>1, LeastNat
<1>4. PICK x \in T : u = x - lo
  BY <1>2
<1>5. PICK z \in T : v = hi - z
  BY <1>3
<1>6. \A y \in T : y \in Int /\ x \in Int /\ x - lo <= y - lo
  BY <1>0, <1>2, <1>4
<1>7. \A y \in T : y \in Int /\ z \in Int /\ hi - z <= hi - y
  BY <1>0, <1>3, <1>5
<1>8. \A y \in T : x <= y
  <2> HIDE DEF U, V
  <2> QED
    BY <1>6
<1>9. \A y \in T : y <= z
  <2> HIDE DEF U, V
  <2> QED
    BY <1>7
<1> QED
  BY <1>8, <1>9

IsLeast(v, d, pts) ==
  (\E i \in DOMAIN pts : v = pts[i][d]) /\ \A i \in DOMAIN pts : v <= pts[i][d]

IsGreatest(v, d, pts) ==
  (\E i \in DOMAIN pts : v = pts[i][d]) /\ \A i \in DOMAIN pts : pts[i][d] <= v

Least(d, pts) == Min(ToSet(ColumnOf(d, pts)))
Greatest(d, pts) == Max(ToSet(ColumnOf(d, pts)))

(* Non-empty sequences of points of a schema.                               *)
PointSeq(p) == Seq(PointOf(p)) \ {<<>>}

LEMMA PointsIn ==
  ASSUME NEW p \in Pcid, NEW pts \in Seq(PointOf(p))
  PROVE  /\ DOMAIN pts = 1 .. Len(pts) /\ Len(pts) \in Nat
         /\ \A i \in 1 .. Len(pts) : pts[i] = [d \in Dims(p) |-> pts[i][d]]
         /\ \A i \in 1 .. Len(pts), d \in Dims(p) : pts[i][d] \in Raw(p, d) /\ pts[i][d] \in Int
<1>1. DOMAIN pts = 1 .. Len(pts) /\ Len(pts) \in Nat /\ \A i \in 1 .. Len(pts) : pts[i] \in PointOf(p)
  OBVIOUS
<1>2. \A i \in 1 .. Len(pts) : pts[i] = [d \in Dims(p) |-> pts[i][d]]
  BY <1>1 DEF PointOf
<1>3. \A i \in 1 .. Len(pts), d \in Dims(p) : pts[i][d] \in Raw(p, d)
  BY <1>1 DEF PointOf
<1>4. \A d \in Dims(p) : Raw(p, d) \subseteq Int
  BY DimensionIs
<1> QED
  BY <1>1, <1>2, <1>3, <1>4, Zenon

LEMMA ColumnIs ==
  ASSUME NEW p \in Pcid, NEW pts \in Seq(PointOf(p)), NEW d \in Dims(p)
  PROVE  /\ ColumnOf(d, pts) \in Seq(Raw(p, d))
         /\ Len(ColumnOf(d, pts)) = Len(pts)
         /\ \A i \in 1 .. Len(pts) : ColumnOf(d, pts)[i] = pts[i][d]
         /\ ToSet(ColumnOf(d, pts)) = {pts[i][d] : i \in DOMAIN pts}
<1> DEFINE c == [i \in 1 .. Len(pts) |-> pts[i][d]]
<1>1. DOMAIN pts = 1 .. Len(pts) /\ Len(pts) \in Nat /\ \A i \in 1 .. Len(pts) : pts[i][d] \in Raw(p, d)
  BY PointsIn
<1>2. ColumnOf(d, pts) = c
  BY <1>1, Zenon DEF ColumnOf
<1>3. c \in Seq(Raw(p, d)) /\ Len(c) = Len(pts) /\ DOMAIN c = 1 .. Len(pts)
  BY <1>1
<1>4. ToSet(c) = {pts[i][d] : i \in 1 .. Len(pts)}
  BY <1>3, Zenon DEF ToSet
<1> QED
  BY <1>1, <1>2, <1>3, <1>4

LEMMA ExtremeIs ==
  ASSUME NEW p \in Pcid, NEW pts \in PointSeq(p), NEW d \in Dims(p)
  PROVE  /\ Least(d, pts) \in Raw(p, d) /\ IsLeast(Least(d, pts), d, pts)
         /\ Greatest(d, pts) \in Raw(p, d) /\ IsGreatest(Greatest(d, pts), d, pts)
<1> DEFINE T == {pts[i][d] : i \in DOMAIN pts}
           lo == Schema[p].interp[d].min
           hi == Schema[p].interp[d].max
<1>1. pts \in Seq(PointOf(p)) /\ pts # <<>>
  BY DEF PointSeq
<1>2. DOMAIN pts = 1 .. Len(pts) /\ 1 \in DOMAIN pts
  BY <1>1
<1>3. T # {} /\ T \subseteq Raw(p, d)
  BY <1>1, <1>2, PointsIn
<1>4. lo \in Int /\ hi \in Int /\ Raw(p, d) = lo .. hi /\ Raw(p, d) \in SUBSET Int
  BY DimensionIs DEF Raw
<1>5. ToSet(ColumnOf(d, pts)) = T
  BY <1>1, ColumnIs
<1> HIDE DEF T, lo, hi
<1>6. PICK x \in T : \A y \in T : x <= y
  BY <1>3, <1>4, Extremes
<1>7. PICK z \in T : \A y \in T : y <= z
  BY <1>3, <1>4, Extremes
<1>8. T \in SUBSET Int
  BY <1>3, <1>4
<1>9. Min(T) = x /\ Max(T) = z
  BY <1>6, <1>7, <1>8, MinIs, MaxIs, Zenon
<1>10. Least(d, pts) = x /\ Greatest(d, pts) = z
  BY <1>5, <1>9 DEF Least, Greatest
<1>11. x \in Raw(p, d) /\ z \in Raw(p, d)
  BY <1>3
<1>12. IsLeast(x, d, pts) /\ IsGreatest(z, d, pts)
  BY <1>6, <1>7 DEF T, IsLeast, IsGreatest
<1> QED
  BY <1>10, <1>11, <1>12

LEMMA ExtremeUnique ==
  ASSUME NEW p \in Pcid, NEW pts \in PointSeq(p), NEW d \in Dims(p), NEW v
  PROVE  /\ IsLeast(v, d, pts) => v = Least(d, pts)
         /\ IsGreatest(v, d, pts) => v = Greatest(d, pts)
<1>1. \A i \in DOMAIN pts : pts[i][d] \in Int
  BY PointsIn DEF PointSeq
<1>2. IsLeast(Least(d, pts), d, pts) /\ IsGreatest(Greatest(d, pts), d, pts)
  BY ExtremeIs
<1>3. ASSUME NEW a, NEW b, IsLeast(a, d, pts), IsLeast(b, d, pts) PROVE a = b
  BY <1>1, <1>3 DEF IsLeast
<1>4. ASSUME NEW a, NEW b, IsGreatest(a, d, pts), IsGreatest(b, d, pts) PROVE a = b
  BY <1>1, <1>4 DEF IsGreatest
<1> QED
  BY <1>2, <1>3, <1>4

(* The extremes of the values are the values of the extremes.               *)
LEMMA ValueExtremes ==
  ASSUME NEW p \in Pcid, NEW pts \in PointSeq(p), NEW d \in Dims(p)
  PROVE  /\ Min(ValuesOf(p, d, pts)) = Scaled(p, d, Least(d, pts))
         /\ Max(ValuesOf(p, d, pts)) = Scaled(p, d, Greatest(d, pts))
<1> DEFINE T == ValuesOf(p, d, pts)
           x == Least(d, pts)
           z == Greatest(d, pts)
<1>1. \A i \in DOMAIN pts : pts[i][d] \in Int
  BY PointsIn DEF PointSeq
<1>2. x \in Int /\ z \in Int /\ IsLeast(x, d, pts) /\ IsGreatest(z, d, pts)
  BY ExtremeIs, DimensionIs
<1> HIDE DEF x, z
<1>3. T \in SUBSET Int
  BY <1>1, ScaledKeepsOrder DEF ValuesOf
<1>4. Scaled(p, d, x) \in T /\ \A v \in T : Scaled(p, d, x) <= v
  BY <1>1, <1>2, ScaledKeepsOrder DEF ValuesOf, IsLeast
<1>5. Scaled(p, d, z) \in T /\ \A v \in T : v <= Scaled(p, d, z)
  BY <1>1, <1>2, ScaledKeepsOrder DEF ValuesOf, IsGreatest
<1> HIDE DEF T
<1>6. Min(T) = Scaled(p, d, x) /\ Max(T) = Scaled(p, d, z)
  BY <1>3, <1>4, <1>5, MinIs, MaxIs, Zenon
<1> QED
  BY <1>6 DEF T, x, z

LEMMA SumWhole ==
  ASSUME NEW S \in SUBSET Int, NEW seq \in Seq(S)
  PROVE  SeqSum(seq) \in Int
<1>1. PICK F : SumSteps(F, S, seq)
  BY SumFold
<1>2. Len(seq) \in 0 .. Len(seq)
  OBVIOUS
<1> QED
  BY <1>1, <1>2 DEF SumSteps

(* Values are summed up as they are read.                                   *)
LEMMA SumOfIs ==
  ASSUME NEW p \in Pcid, NEW pts \in Seq(PointOf(p)), NEW d \in Dims(p)
  PROVE  SumOf(p, d, pts) \in Int
<1> DEFINE vals == [i \in DOMAIN pts |-> Scaled(p, d, pts[i][d])]
           Body(it) == [s \in SUBSET (DOMAIN pts) |->
                          IF s = {} THEN 0 ELSE it[s \ {Max(s)}] + Scaled(p, d, pts[Max(s)][d])]
           Same(it) == [s \in SUBSET (DOMAIN pts) |->
                          IF s = {} THEN 0 ELSE Plus(vals, it[s \ {Max(s)}], Max(s))]
<1>1. /\ DOMAIN pts = 1 .. Len(pts) /\ Len(pts) \in Nat
      /\ \A i \in 1 .. Len(pts) : vals[i] \in Int
  BY PointsIn, ScaledKeepsOrder
<1>2. vals \in Seq(Int) /\ DOMAIN vals = DOMAIN pts
  BY <1>1
<1>3. SumOf(p, d, pts) = (CHOOSE it : it = Body(it))[DOMAIN pts]
  BY Zenon DEF SumOf, FoldLeft, MapThenFoldSet
<1>4. SeqSum(vals) = (CHOOSE it : it = Same(it))[DOMAIN pts]
  BY <1>2, Zenon DEF SeqSum, Plus, FoldLeft, MapThenFoldSet
<1>5. ASSUME NEW it PROVE Body(it) = Same(it)
  <2>1. ASSUME NEW s \in SUBSET (DOMAIN pts), s # {}
        PROVE  it[s \ {Max(s)}] + Scaled(p, d, pts[Max(s)][d]) = Plus(vals, it[s \ {Max(s)}], Max(s))
    <3>1. Max(s) \in DOMAIN pts
      BY <1>1, <2>1, MaxIn
    <3> QED
      BY <3>1 DEF Plus
  <2> HIDE DEF vals
  <2> QED
    BY <2>1
<1> HIDE DEF vals, Body, Same
<1>6. (CHOOSE it : it = Body(it)) = (CHOOSE it : it = Same(it))
  BY <1>5, Zenon
<1> QED
  BY <1>2, <1>3, <1>4, <1>6, SumWhole

(* The filter's sum over the runs it keeps.                                 *)
LEMMA OncePerRun ==
  ASSUME NEW S \in SUBSET Int, NEW runs \in Seq(RunSet(S))
  PROVE  FoldLeft(LAMBDA sum, r : sum + r.v, 0, runs) \in Int
<1> DEFINE vals == [k \in DOMAIN runs |-> runs[k].v]
           Body(it) == [s \in SUBSET (DOMAIN runs) |->
                          IF s = {} THEN 0 ELSE it[s \ {Max(s)}] + runs[Max(s)].v]
           Same(it) == [s \in SUBSET (DOMAIN runs) |->
                          IF s = {} THEN 0 ELSE Plus(vals, it[s \ {Max(s)}], Max(s))]
           sum == FoldLeft(LAMBDA sum, r : sum + r.v, 0, runs)
<1>1. /\ DOMAIN runs = 1 .. Len(runs) /\ Len(runs) \in Nat
      /\ \A i \in 1 .. Len(runs) : vals[i] \in S
  BY RunFields
<1>2. vals \in Seq(S) /\ DOMAIN vals = DOMAIN runs
  BY <1>1
<1>3. sum = (CHOOSE it : it = Body(it))[DOMAIN runs]
  BY Zenon DEF FoldLeft, MapThenFoldSet
<1>4. SeqSum(vals) = (CHOOSE it : it = Same(it))[DOMAIN runs]
  BY <1>2, Zenon DEF SeqSum, Plus, FoldLeft, MapThenFoldSet
<1>5. ASSUME NEW it PROVE Body(it) = Same(it)
  <2>1. ASSUME NEW s \in SUBSET (DOMAIN runs), s # {}
        PROVE  it[s \ {Max(s)}] + runs[Max(s)].v = Plus(vals, it[s \ {Max(s)}], Max(s))
    <3>1. Max(s) \in DOMAIN runs
      BY <1>1, <2>1, MaxIn
    <3> QED
      BY <3>1 DEF Plus
  <2> HIDE DEF vals
  <2> QED
    BY <2>1
<1> HIDE DEF vals, Body, Same, sum
<1>6. (CHOOSE it : it = Body(it)) = (CHOOSE it : it = Same(it))
  BY <1>5, Zenon
<1>7. sum \in Int
  BY <1>2, <1>3, <1>4, <1>6, SumWhole
<1> QED
  BY <1>7 DEF sum

LEMMA FilterSumIn ==
  ASSUME NEW S \in SUBSET Int, NEW vals \in Seq(S), NEW c, Represents(c, vals, S), NEW map
  PROVE  FilterSum(c, map) \in Int
<1> DEFINE b == c.body
<1>1. CASE c.enc = "rle"
  <2>1. b \in Seq(RunSet(S))
    BY <1>1, Zenon DEF Represents
  <2> HIDE DEF b
  <2>2. RunLengthFilter(b, map) \in Seq(RunSet(S))
    BY <2>1, FilterIs
  <2>3. FoldLeft(LAMBDA sum, r : sum + r.v, 0, RunLengthFilter(b, map)) \in Int
    BY <2>2, OncePerRun
  <2> QED
    BY <1>1, <2>3, Zenon DEF FilterSum, b
<1>2. CASE c.enc # "rle"
  <2>1. b = vals
    BY <1>2, Zenon DEF Represents
  <2>2. Marked(vals, map) \in Seq(S)
    BY MarkedLen
  <2>3. SeqSum(Marked(vals, map)) \in Int
    BY <2>2, SumWhole
  <2> QED
    BY <1>2, <2>1, <2>3, Zenon DEF FilterSum, SeqSum
<1> QED
  BY <1>1, <1>2

-----------------------------------------------------------------------------
(* What ties a patch to the points it stands for.  The header's bounds are  *)
(* exact only where no WKB arrives as LAZ and PC_SetPCId, which keeps the   *)
(* bounds of a patch whose dimensions have the same types, meets the same   *)
(* scales there.                                                            *)
BoundsKept ==
  /\ "laz" \notin WkbForms
  /\ \A p, q \in Pcid : SameDimensions(p, q) =>
       \A d \in Planar : Schema[p].scale[d] = Schema[q].scale[d]
                         /\ Schema[p].offset[d] = Schema[q].offset[d]

Lows(p, pts) == [d \in Dims(p) |-> Least(d, pts)]
Highs(p, pts) == [d \in Dims(p) |-> Greatest(d, pts)]
Box(p, pts) ==
  [d \in Planar |-> [min |-> Scaled(p, d, Least(d, pts)), max |-> Scaled(p, d, Greatest(d, pts))]]

Holds(form, data, p, pts) ==
  IF form = "dimensional"
  THEN /\ data = [d \in Dims(p) |-> data[d]]
       /\ \A d \in Dims(p) : Represents(data[d], ColumnOf(d, pts), Raw(p, d))
  ELSE data = pts

Boxed(bounds, p, pts) ==
  DOMAIN bounds = Planar /\ (BoundsKept => bounds = Box(p, pts))

Summary(stats, p, pts) ==
  /\ stats.min = Lows(p, pts)
  /\ stats.max = Highs(p, pts)
  /\ \A d \in Dims(p) : stats.avg[d] \in Raw(p, d)

PatchForms == {"none", "dimensional", "laz"}

Patch(p, form, data, n, bounds, stats) ==
  [pcid |-> p, form |-> form, data |-> data, npoints |-> n, bounds |-> bounds, stats |-> stats]

Good(pa, p, pts) ==
  /\ p \in Pcid /\ pts \in PointSeq(p)
  /\ pa = Patch(p, pa.form, pa.data, Len(pts), pa.bounds, pa.stats)
  /\ pa.form \in PatchForms
  /\ Holds(pa.form, pa.data, p, pts)
  /\ Boxed(pa.bounds, p, pts)
  /\ Summary(pa.stats, p, pts)

RowInv == row # NULL => \E p, pts : Good(row, p, pts)

LEMMA GoodPatch ==
  ASSUME NEW p \in Pcid, NEW pts \in PointSeq(p), NEW form \in PatchForms, NEW data,
         NEW bounds, NEW stats,
         Holds(form, data, p, pts), Boxed(bounds, p, pts), Summary(stats, p, pts)
  PROVE  Good(Patch(p, form, data, Len(pts), bounds, stats), p, pts)
<1> DEFINE pa == Patch(p, form, data, Len(pts), bounds, stats)
<1>1. pa.form = form /\ pa.data = data /\ pa.bounds = bounds /\ pa.stats = stats
  BY DEF Patch
<1> HIDE DEF pa
<1>2. Good(pa, p, pts)
  BY <1>1, Zenon DEF Good, pa
<1> QED
  BY <1>2 DEF pa

LEMMA GoodParts ==
  ASSUME NEW pa, NEW p, NEW pts, Good(pa, p, pts)
  PROVE  /\ p \in Pcid /\ pts \in PointSeq(p)
         /\ pa.pcid = p /\ pa.npoints = Len(pts)
         /\ Len(pts) \in Nat \ {0} /\ pts \in Seq(PointOf(p)) /\ DOMAIN pts = 1 .. Len(pts)
<1>1. p \in Pcid /\ pts \in PointSeq(p) /\ pa = Patch(p, pa.form, pa.data, Len(pts), pa.bounds, pa.stats)
  BY DEF Good
<1>2. pa.pcid = p /\ pa.npoints = Len(pts)
  BY <1>1 DEF Patch
<1>3. pts \in Seq(PointOf(p)) /\ pts # <<>>
  BY <1>1 DEF PointSeq
<1> QED
  BY <1>1, <1>2, <1>3

(* Decoding a patch gives the points it stands for.                         *)
LEMMA GoodPoints ==
  ASSUME NEW pa, NEW p, NEW pts, Good(pa, p, pts)
  PROVE  Points(pa) = pts
<1>1. p \in Pcid /\ pts \in Seq(PointOf(p)) /\ DOMAIN pts = 1 .. Len(pts) /\ pa.npoints = Len(pts)
  BY GoodParts
<1>2. CASE pa.form = "dimensional"
  <2>1. DOMAIN pa.data = Dims(p) /\ \A d \in Dims(p) : Represents(pa.data[d], ColumnOf(d, pts), Raw(p, d))
    BY <1>2 DEF Good, Holds
  <2>2. ASSUME NEW d \in Dims(p) PROVE Values(pa.data[d]) = ColumnOf(d, pts)
    BY <1>1, <2>1, <2>2, ColumnIs, RepresentsDecodes
  <2>3. Points(pa) = [i \in 1 .. Len(pts) |-> [d \in Dims(p) |-> Values(pa.data[d])[i]]]
    BY <1>1, <1>2, <2>1, Zenon DEF Points
  <2>4. ASSUME NEW i \in 1 .. Len(pts)
        PROVE  [d \in Dims(p) |-> Values(pa.data[d])[i]] = pts[i]
    <3>1. \A d \in Dims(p) : Values(pa.data[d])[i] = pts[i][d]
      BY <1>1, <2>2, <2>4, ColumnIs
    <3>2. pts[i] = [d \in Dims(p) |-> pts[i][d]]
      BY <1>1, <2>4, PointsIn
    <3> QED
      BY <3>1, <3>2, Zenon
  <2>5. pts = [i \in 1 .. Len(pts) |-> pts[i]]
    BY <1>1
  <2> QED
    BY <2>3, <2>4, <2>5, Zenon
<1>3. CASE pa.form # "dimensional"
  <2>1. pa.data = pts
    BY <1>3 DEF Good, Holds
  <2> QED
    BY <1>3, <2>1 DEF Points
<1> QED
  BY <1>2, <1>3

(* Another form of the same points, the rest of the patch carried along.    *)
LEMMA Reformed ==
  ASSUME NEW pa, NEW p, NEW pts, Good(pa, p, pts), NEW form \in PatchForms, NEW data,
         Holds(form, data, p, pts)
  PROVE  Good([pa EXCEPT !.form = form, !.data = data], p, pts)
<1> DEFINE f == pa.form
           x == pa.data
           n == Len(pts)
           b == pa.bounds
           s == pa.stats
           mid == [pa EXCEPT !.form = form]
<1>1. p \in Pcid /\ pts \in PointSeq(p) /\ pa = Patch(p, f, x, n, b, s)
      /\ Boxed(b, p, pts) /\ Summary(s, p, pts)
  BY Zenon DEF Good
<1>2. Good(Patch(p, form, data, n, b, s), p, pts)
  BY <1>1, GoodPatch
<1> HIDE DEF f, x, n, b, s
<1>3. mid = Patch(p, form, x, n, b, s)
  BY <1>1 DEF Patch
<1>4. [pa EXCEPT !.form = form, !.data = data] = [mid EXCEPT !.data = data]
  OBVIOUS
<1> HIDE DEF mid
<1>5. [mid EXCEPT !.data = data] = Patch(p, form, data, n, b, s)
  BY <1>3 DEF Patch
<1> QED
  BY <1>2, <1>4, <1>5

(* Columns under any encodings hold the points they are made of.            *)
LEMMA EncodedHolds ==
  ASSUME NEW p \in Pcid, NEW pts \in PointSeq(p), NEW enc
  PROVE  Holds("dimensional", [d \in Dims(p) |-> Column(enc[d], ColumnOf(d, pts))], p, pts)
<1> DEFINE data == [d \in Dims(p) |-> Column(enc[d], ColumnOf(d, pts))]
<1>1. ASSUME NEW d \in Dims(p) PROVE Represents(data[d], ColumnOf(d, pts), Raw(p, d))
  <2>1. ColumnOf(d, pts) \in Seq(Raw(p, d))
    BY ColumnIs DEF PointSeq
  <2>2. Represents(Column(enc[d], ColumnOf(d, pts)), ColumnOf(d, pts), Raw(p, d))
    BY <2>1, ColumnRepresents
  <2> QED
    BY <2>2
<1>2. data = [d \in Dims(p) |-> data[d]]
  OBVIOUS
<1> HIDE DEF data
<1>3. Holds("dimensional", data, p, pts)
  BY <1>1, <1>2, Zenon DEF Holds
<1> QED
  BY <1>3 DEF data

(* A conversion keeps what a patch stands for.                              *)
LEMMA Converted ==
  ASSUME NEW pa, NEW p, NEW pts, Good(pa, p, pts)
  PROVE  /\ Good(ToUncompressed(pa), p, pts)
         /\ Good(ToLazperf(pa), p, pts)
         /\ \A enc : Good(ToDimensional(pa, enc), p, pts)
<1>1. Points(pa) = pts /\ pa.pcid = p /\ p \in Pcid /\ pts \in PointSeq(p)
  BY GoodPoints, GoodParts
<1>2. Holds("none", pts, p, pts) /\ Holds("laz", pts, p, pts)
  BY DEF Holds
<1>3. "none" \in PatchForms /\ "laz" \in PatchForms /\ "dimensional" \in PatchForms
  BY DEF PatchForms
<1>4. Good([pa EXCEPT !.form = "none", !.data = pts], p, pts)
  BY <1>2, <1>3, Reformed
<1>5. Good([pa EXCEPT !.form = "laz", !.data = pts], p, pts)
  BY <1>2, <1>3, Reformed
<1>6. ASSUME NEW enc PROVE Good(ToDimensional(pa, enc), p, pts)
  <2> DEFINE data == [d \in Dims(p) |-> Column(enc[d], ColumnOf(d, pts))]
  <2>1. Holds("dimensional", data, p, pts)
    BY <1>1, EncodedHolds
  <2>2. ToDimensional(pa, enc) = [pa EXCEPT !.form = "dimensional", !.data = data]
    BY <1>1 DEF ToDimensional
  <2> HIDE DEF data
  <2>3. Good([pa EXCEPT !.form = "dimensional", !.data = data], p, pts)
    BY <2>1, <1>3, Reformed
  <2> QED
    BY <2>2, <2>3
<1> QED
  BY <1>1, <1>4, <1>5, <1>6 DEF ToUncompressed, ToLazperf

LEMMA SerializedKeeps ==
  ASSUME NEW pa, NEW p, NEW pts, Good(pa, p, pts), NEW comp \in PatchForms,
         NEW new \in Serialized(pa, comp)
  PROVE  Good(new, p, pts)
<1>1. CASE pa.form = comp
  BY <1>1 DEF Serialized
<1>2. CASE pa.form # comp
  <2>1. \/ new = ToUncompressed(pa)
        \/ new = ToLazperf(pa)
        \/ \E enc : new = ToDimensional(pa, enc)
    BY <1>2, Zenon DEF Serialized, PatchForms
  <2> QED
    BY <2>1, Converted
<1> QED
  BY <1>1, <1>2

LEMMA StoredKeeps ==
  ASSUME NEW pa, NEW p, NEW pts, Good(pa, p, pts), NEW new \in Stored(pa)
  PROVE  Good(new, p, pts)
<1>1. pa.pcid = p /\ p \in Pcid
  BY GoodParts
<1>2. Schema[p].comp \in PatchForms
  BY <1>1, SchemaIs DEF PatchForms
<1>3. new \in Serialized(pa, Schema[p].comp)
  BY <1>1 DEF Stored
<1> QED
  BY <1>2, <1>3, SerializedKeeps

(* What is computed from the points.                                        *)
LEMMA ExtentIs ==
  ASSUME NEW p \in Pcid, NEW pts \in PointSeq(p)
  PROVE  Extent(p, pts) = Box(p, pts)
<1>1. \A d \in Planar : d \in Dims(p)
  BY SchemaIs
<1>2. ASSUME NEW d \in Planar
      PROVE  /\ Min(ValuesOf(p, d, pts)) = Scaled(p, d, Least(d, pts))
             /\ Max(ValuesOf(p, d, pts)) = Scaled(p, d, Greatest(d, pts))
  BY <1>1, <1>2, ValueExtremes
<1> QED
  BY <1>2, Zenon DEF Extent, Box

LEMMA StatsAre ==
  ASSUME NEW p \in Pcid, NEW pts \in PointSeq(p)
  PROVE  Summary(Stats(p, pts), p, pts)
<1> DEFINE lo(d) == RawOf(p, d, Min(ValuesOf(p, d, pts)), 1)
           hi(d) == RawOf(p, d, Max(ValuesOf(p, d, pts)), 1)
           avg(d) == RawOf(p, d, SumOf(p, d, pts), Len(pts))
           st == Stats(p, pts)
<1>1. st.min = [d \in Dims(p) |-> lo(d)] /\ st.max = [d \in Dims(p) |-> hi(d)]
      /\ st.avg = [d \in Dims(p) |-> avg(d)]
  BY DEF Stats
<1>2. ASSUME NEW d \in Dims(p)
      PROVE  lo(d) = Least(d, pts) /\ hi(d) = Greatest(d, pts) /\ avg(d) \in Raw(p, d)
  <2>1. Least(d, pts) \in Raw(p, d) /\ Greatest(d, pts) \in Raw(p, d)
    BY ExtremeIs
  <2>2. lo(d) = Least(d, pts) /\ hi(d) = Greatest(d, pts)
    BY <2>1, ValueExtremes, RawOfScaled
  <2>3. pts \in Seq(PointOf(p)) /\ Len(pts) \in Nat \ {0}
    BY DEF PointSeq
  <2>4. SumOf(p, d, pts) \in Int
    BY <2>3, SumOfIs
  <2>5. avg(d) \in Raw(p, d)
    BY <2>3, <2>4, RawOfIn
  <2> QED
    BY <2>2, <2>5
<1> HIDE DEF lo, hi, avg, st
<1>3. Summary(st, p, pts)
  BY <1>1, <1>2 DEF Summary, Lows, Highs
<1> QED
  BY <1>3 DEF st

LEMMA UncompressedKeeps ==
  ASSUME NEW p \in Pcid, NEW pts \in PointSeq(p), NEW bounds, NEW stats,
         Boxed(bounds, p, pts), Summary(stats, p, pts)
  PROVE  Good(Uncompressed(p, pts, bounds, stats), p, pts)
<1>1. Holds("none", pts, p, pts) /\ "none" \in PatchForms
  BY DEF Holds, PatchForms
<1>2. Good(Patch(p, "none", pts, Len(pts), bounds, stats), p, pts)
  BY <1>1, GoodPatch
<1>3. Uncompressed(p, pts, bounds, stats) = Patch(p, "none", pts, Len(pts), bounds, stats)
  BY Zenon DEF Uncompressed, Patch
<1> QED
  BY <1>2, <1>3

LEMMA BoxBoxed ==
  ASSUME NEW p, NEW pts
  PROVE  Boxed(Box(p, pts), p, pts)
BY DEF Boxed, Box

LEMMA ComputedKeeps ==
  ASSUME NEW p \in Pcid, NEW pts \in PointSeq(p)
  PROVE  Good(Computed(p, pts), p, pts)
<1>1. Extent(p, pts) = Box(p, pts) /\ Boxed(Box(p, pts), p, pts) /\ Summary(Stats(p, pts), p, pts)
  BY ExtentIs, BoxBoxed, StatsAre
<1> QED
  BY <1>1, UncompressedKeeps, Zenon DEF Computed

(* The bounds of a patch replaced.                                          *)
LEMMA Rebounded ==
  ASSUME NEW pa, NEW p, NEW pts, Good(pa, p, pts), NEW bounds, Boxed(bounds, p, pts)
  PROVE  Good([pa EXCEPT !.bounds = bounds], p, pts)
<1> DEFINE f == pa.form
           x == pa.data
           n == Len(pts)
           b == pa.bounds
           s == pa.stats
<1>1. /\ p \in Pcid /\ pts \in PointSeq(p) /\ pa = Patch(p, f, x, n, b, s)
      /\ f \in PatchForms /\ Holds(f, x, p, pts) /\ Summary(s, p, pts)
  BY Zenon DEF Good
<1>2. Good(Patch(p, f, x, n, bounds, s), p, pts)
  BY <1>1, GoodPatch
<1> HIDE DEF f, x, n, b, s
<1>3. [pa EXCEPT !.bounds = bounds] = Patch(p, f, x, n, bounds, s)
  BY <1>1 DEF Patch
<1> QED
  BY <1>2, <1>3

(* The extent of a column is that of its points.                            *)
LEMMA ColumnExtremes ==
  ASSUME NEW p \in Pcid, NEW pts \in PointSeq(p), NEW d \in Dims(p), NEW c,
         Represents(c, ColumnOf(d, pts), Raw(p, d))
  PROVE  ColumnMin(c) = Least(d, pts) /\ ColumnMax(c) = Greatest(d, pts)
<1>1. ColumnOf(d, pts) \in Seq(Raw(p, d)) /\ Raw(p, d) \in SUBSET Int
  BY ColumnIs, DimensionIs DEF PointSeq
<1>2. ColumnMin(c) = Min(ToSet(ColumnOf(d, pts))) /\ ColumnMax(c) = Max(ToSet(ColumnOf(d, pts)))
  BY <1>1, RepresentsSums
<1> QED
  BY <1>2 DEF Least, Greatest

LEMMA ColumnBox ==
  ASSUME NEW p \in Pcid, NEW pts \in PointSeq(p), NEW data, Holds("dimensional", data, p, pts)
  PROVE  [d \in Planar |-> [min |-> Scaled(p, d, ColumnMin(data[d])),
                            max |-> Scaled(p, d, ColumnMax(data[d]))]] = Box(p, pts)
<1>1. ASSUME NEW d \in Planar
      PROVE  ColumnMin(data[d]) = Least(d, pts) /\ ColumnMax(data[d]) = Greatest(d, pts)
  <2>1. d \in Dims(p)
    BY SchemaIs
  <2>2. Represents(data[d], ColumnOf(d, pts), Raw(p, d))
    BY <2>1 DEF Holds
  <2> QED
    BY <2>1, <2>2, ColumnExtremes
<1> QED
  BY <1>1, Zenon DEF Box

-----------------------------------------------------------------------------
(* The functions that make, join and cut patches.                           *)
LEMMA WkbKeeps ==
  ASSUME NEW p \in Pcid, NEW form \in WkbForms, NEW pts \in PointSeq(p), FromWkb(p, form, pts)
  PROVE  Good(row', p, pts)
<1> DEFINE pa == Computed(p, pts)
<1>1. Good(pa, p, pts)
  BY ComputedKeeps
<1> HIDE DEF pa
<1>2. form \in PatchForms
  BY PatchAssumption DEF PatchForms
<1>3. CASE form = "none"
  <2>1. row' \in Stored(pa)
    BY <1>3 DEF FromWkb, Store, pa
  <2> QED
    BY <1>1, <2>1, StoredKeeps
<1>4. CASE form = "laz"
  <2> DEFINE zero == [pa EXCEPT !.bounds = Zero]
  <2>1. Boxed(Zero, p, pts)
    BY <1>4 DEF Boxed, Zero, BoundsKept
  <2>2. Good(zero, p, pts)
    BY <1>1, <2>1, Rebounded
  <2>3. row' \in Stored(ToLazperf(zero))
    BY <1>4 DEF FromWkb, Store, pa
  <2> HIDE DEF zero
  <2> QED
    BY <2>2, <2>3, Converted, StoredKeeps
<1>5. CASE form = "dimensional"
  <2>1. PICK enc \in [Dims(p) -> Encodings \cup {"none"}] :
          LET pd == ToDimensional(pa, enc)
          IN Store([pd EXCEPT !.bounds = [d \in Planar |->
                      [min |-> Scaled(p, d, ColumnMin(pd.data[d])),
                       max |-> Scaled(p, d, ColumnMax(pd.data[d]))]]])
    BY <1>5, Zenon DEF FromWkb, pa
  <2> DEFINE pd == ToDimensional(pa, enc)
             data == pd.data
             box == [d \in Planar |-> [min |-> Scaled(p, d, ColumnMin(data[d])),
                                       max |-> Scaled(p, d, ColumnMax(data[d]))]]
  <2>2. Good(pd, p, pts)
    BY <1>1, Converted
  <2>3. pd.form = "dimensional"
    <3>1. pd.form = [pa EXCEPT !.form = "dimensional"].form
      BY DEF ToDimensional
    <3>2. pa = Patch(pa.pcid, pa.form, pa.data, pa.npoints, pa.bounds, pa.stats)
      BY <1>1 DEF Good, Patch
    <3> QED
      BY <3>1, <3>2 DEF Patch
  <2>4. Holds("dimensional", data, p, pts)
    <3> HIDE DEF pd
    <3> QED
      BY <2>2, <2>3 DEF Good
  <2>5. row' \in Stored([pd EXCEPT !.bounds = box])
    BY <2>1, Zenon DEF Store
  <2> HIDE DEF pd, data
  <2>6. box = Box(p, pts)
    BY <2>4, ColumnBox
  <2> HIDE DEF box
  <2>7. Good([pd EXCEPT !.bounds = box], p, pts)
    BY <2>2, <2>6, BoxBoxed, Rebounded
  <2> QED
    BY <2>5, <2>7, StoredKeeps
<1> QED
  BY <1>2, <1>3, <1>4, <1>5 DEF PatchForms

(* Joined, two patches have the extremes of both.                           *)
LEMMA MinTwo ==
  ASSUME NEW x \in Int, NEW y \in Int
  PROVE  /\ Min({x, y}) = (IF x <= y THEN x ELSE y)
         /\ Max({x, y}) = (IF x <= y THEN y ELSE x)
<1>1. {x, y} \in SUBSET Int
  OBVIOUS
<1>2. CASE x <= y
  <2>1. x \in {x, y} /\ y \in {x, y} /\ (\A z \in {x, y} : x <= z) /\ \A z \in {x, y} : z <= y
    BY <1>2
  <2> QED
    BY <1>1, <1>2, <2>1, MinIs, MaxIs
<1>3. CASE ~ (x <= y)
  <2>1. x \in {x, y} /\ y \in {x, y} /\ (\A z \in {x, y} : y <= z) /\ \A z \in {x, y} : z <= x
    BY <1>3
  <2> QED
    BY <1>1, <1>3, <2>1, MinIs, MaxIs
<1> QED
  BY <1>2, <1>3

LEMMA JoinedPoints ==
  ASSUME NEW p \in Pcid, NEW a \in PointSeq(p), NEW b \in PointSeq(p)
  PROVE  a \o b \in PointSeq(p)
BY DEF PointSeq

LEMMA JoinedExtremes ==
  ASSUME NEW p \in Pcid, NEW a \in PointSeq(p), NEW b \in PointSeq(p), NEW d \in Dims(p)
  PROVE  /\ Least(d, a \o b) = (IF Least(d, a) <= Least(d, b) THEN Least(d, a) ELSE Least(d, b))
         /\ Greatest(d, a \o b) =
              (IF Greatest(d, a) <= Greatest(d, b) THEN Greatest(d, b) ELSE Greatest(d, a))
<1> DEFINE m == Len(a)
           n == Len(b)
           c == a \o b
           la == Least(d, a)
           lb == Least(d, b)
           ga == Greatest(d, a)
           gb == Greatest(d, b)
           lc == IF la <= lb THEN la ELSE lb
           gc == IF ga <= gb THEN gb ELSE ga
<1>1. /\ m \in Nat /\ n \in Nat /\ DOMAIN a = 1 .. m /\ DOMAIN b = 1 .. n /\ DOMAIN c = 1 .. m + n
      /\ \A i \in 1 .. m : c[i] = a[i]
      /\ \A i \in 1 .. n : c[m + i] = b[i]
      /\ \A i \in 1 .. m + n : i \in 1 .. m \/ (i - m \in 1 .. n /\ c[i] = b[i - m])
  BY DEF PointSeq
<1>2. (\A i \in 1 .. m : a[i][d] \in Int) /\ \A i \in 1 .. n : b[i][d] \in Int
  BY PointsIn DEF PointSeq
<1>3. /\ la \in Int /\ lb \in Int /\ ga \in Int /\ gb \in Int
      /\ IsLeast(la, d, a) /\ IsLeast(lb, d, b) /\ IsGreatest(ga, d, a) /\ IsGreatest(gb, d, b)
  BY ExtremeIs, DimensionIs
<1>4. c \in PointSeq(p)
  BY JoinedPoints
<1> HIDE DEF m, n, c, la, lb, ga, gb
<1>5. \A i \in 1 .. m : i \in 1 .. m + n
  BY <1>1
<1>6. \A i \in 1 .. n : m + i \in 1 .. m + n
  BY <1>1
<1>7. IsLeast(lc, d, c)
  <2>1. \A i \in 1 .. m + n : lc <= c[i][d]
    <3>1. \A i \in 1 .. m : la <= a[i][d]
      BY <1>1, <1>3 DEF IsLeast
    <3>2. \A i \in 1 .. n : lb <= b[i][d]
      BY <1>1, <1>3 DEF IsLeast
    <3>3. \A i \in 1 .. m : lc <= c[i][d]
      BY <1>1, <1>2, <1>3, <3>1
    <3>4. \A i \in 1 .. n : lc <= b[i][d]
      BY <1>1, <1>2, <1>3, <3>2
    <3> QED
      BY <1>1, <3>3, <3>4
  <2>2. \E i \in 1 .. m + n : lc = c[i][d]
    <3>1. CASE la <= lb
      BY <1>1, <1>3, <1>5, <3>1 DEF IsLeast
    <3>2. CASE ~ (la <= lb)
      BY <1>1, <1>3, <1>6, <3>2 DEF IsLeast
    <3> QED
      BY <3>1, <3>2
  <2> QED
    BY <1>1, <2>1, <2>2 DEF IsLeast
<1>8. IsGreatest(gc, d, c)
  <2>1. \A i \in 1 .. m + n : c[i][d] <= gc
    <3>1. \A i \in 1 .. m : a[i][d] <= ga
      BY <1>1, <1>3 DEF IsGreatest
    <3>2. \A i \in 1 .. n : b[i][d] <= gb
      BY <1>1, <1>3 DEF IsGreatest
    <3>3. \A i \in 1 .. m : c[i][d] <= gc
      BY <1>1, <1>2, <1>3, <3>1
    <3>4. \A i \in 1 .. n : b[i][d] <= gc
      BY <1>1, <1>2, <1>3, <3>2
    <3> QED
      BY <1>1, <3>3, <3>4
  <2>2. \E i \in 1 .. m + n : gc = c[i][d]
    <3>1. CASE ga <= gb
      BY <1>1, <1>3, <1>6, <3>1 DEF IsGreatest
    <3>2. CASE ~ (ga <= gb)
      BY <1>1, <1>3, <1>5, <3>2 DEF IsGreatest
    <3> QED
      BY <3>1, <3>2
  <2> QED
    BY <1>1, <2>1, <2>2 DEF IsGreatest
<1>9. lc = Least(d, c) /\ gc = Greatest(d, c)
  <2> HIDE DEF lc, gc
  <2> QED
    BY <1>4, <1>7, <1>8, ExtremeUnique
<1> QED
  BY <1>9 DEF la, lb, ga, gb, c

LEMMA MergedBox ==
  ASSUME NEW p \in Pcid, NEW a \in PointSeq(p), NEW b \in PointSeq(p)
  PROVE  Merge(Box(p, a), Box(p, b)) = Box(p, a \o b)
<1>1. ASSUME NEW d \in Planar
      PROVE  /\ Min({Scaled(p, d, Least(d, a)), Scaled(p, d, Least(d, b))})
                  = Scaled(p, d, Least(d, a \o b))
             /\ Max({Scaled(p, d, Greatest(d, a)), Scaled(p, d, Greatest(d, b))})
                  = Scaled(p, d, Greatest(d, a \o b))
  <2> DEFINE la == Least(d, a)
             lb == Least(d, b)
             ga == Greatest(d, a)
             gb == Greatest(d, b)
  <2>1. d \in Dims(p)
    BY SchemaIs
  <2>2. la \in Int /\ lb \in Int /\ ga \in Int /\ gb \in Int
    BY <2>1, ExtremeIs, DimensionIs
  <2>3. Least(d, a \o b) = (IF la <= lb THEN la ELSE lb) /\ Greatest(d, a \o b) = (IF ga <= gb THEN gb ELSE ga)
    BY <2>1, JoinedExtremes
  <2> HIDE DEF la, lb, ga, gb
  <2>4. /\ Scaled(p, d, la) \in Int /\ Scaled(p, d, lb) \in Int
        /\ Scaled(p, d, ga) \in Int /\ Scaled(p, d, gb) \in Int
        /\ la <= lb => Scaled(p, d, la) <= Scaled(p, d, lb)
        /\ lb <= la => Scaled(p, d, lb) <= Scaled(p, d, la)
        /\ ga <= gb => Scaled(p, d, ga) <= Scaled(p, d, gb)
        /\ gb <= ga => Scaled(p, d, gb) <= Scaled(p, d, ga)
    BY <2>1, <2>2, ScaledKeepsOrder
  <2>5. Min({Scaled(p, d, la), Scaled(p, d, lb)}) = Scaled(p, d, IF la <= lb THEN la ELSE lb)
    BY <2>2, <2>4, MinTwo
  <2>6. Max({Scaled(p, d, ga), Scaled(p, d, gb)}) = Scaled(p, d, IF ga <= gb THEN gb ELSE ga)
    <3>1. CASE ga <= gb
      BY <2>2, <2>4, <3>1, MinTwo
    <3>2. CASE ~ (ga <= gb)
      <4>1. Scaled(p, d, gb) <= Scaled(p, d, ga)
        BY <2>2, <2>4, <3>2
      <4>2. Max({Scaled(p, d, ga), Scaled(p, d, gb)}) =
              IF Scaled(p, d, ga) <= Scaled(p, d, gb) THEN Scaled(p, d, gb) ELSE Scaled(p, d, ga)
        BY <2>4, MinTwo
      <4> QED
        BY <2>4, <3>2, <4>1, <4>2
    <3> QED
      BY <3>1, <3>2
  <2> QED
    BY <2>3, <2>5, <2>6 DEF la, lb, ga, gb
<1>2. ASSUME NEW d \in Planar
      PROVE  /\ Box(p, a)[d].min = Scaled(p, d, Least(d, a)) /\ Box(p, a)[d].max = Scaled(p, d, Greatest(d, a))
             /\ Box(p, b)[d].min = Scaled(p, d, Least(d, b)) /\ Box(p, b)[d].max = Scaled(p, d, Greatest(d, b))
  BY DEF Box
<1>3. Merge(Box(p, a), Box(p, b)) =
        [d \in Planar |->
           [min |-> Min({Scaled(p, d, Least(d, a)), Scaled(p, d, Least(d, b))}),
            max |-> Max({Scaled(p, d, Greatest(d, a)), Scaled(p, d, Greatest(d, b))})]]
  BY <1>2, Zenon DEF Merge
<1> QED
  BY <1>1, <1>3, Zenon DEF Box

LEMMA UnionKeeps ==
  ASSUME NEW p, NEW a, NEW b, NEW pa, NEW pb, Good(pa, p, a), Good(pb, p, b)
  PROVE  Good(UnionOf(pa, pb), p, a \o b)
<1> DEFINE c == a \o b
           box == Merge(pa.bounds, pb.bounds)
<1>1. /\ p \in Pcid /\ a \in PointSeq(p) /\ b \in PointSeq(p)
      /\ pa.pcid = p /\ Points(pa) = a /\ Points(pb) = b
  BY GoodParts, GoodPoints
<1>2. c \in PointSeq(p)
  BY <1>1, JoinedPoints
<1>3. Boxed(box, p, c)
  <2>1. DOMAIN box = Planar
    BY DEF Merge
  <2>2. BoundsKept => pa.bounds = Box(p, a) /\ pb.bounds = Box(p, b)
    BY DEF Good, Boxed
  <2>3. BoundsKept => box = Box(p, c)
    BY <1>1, <2>2, MergedBox
  <2> HIDE DEF box, c
  <2> QED
    BY <2>1, <2>3 DEF Boxed
<1>4. Summary(Stats(p, c), p, c)
  BY <1>1, <1>2, StatsAre
<1>5. UnionOf(pa, pb) = Uncompressed(p, c, box, Stats(p, c))
  BY <1>1, Zenon DEF UnionOf
<1> HIDE DEF box, c
<1>6. Good(Uncompressed(p, c, box, Stats(p, c)), p, c)
  BY <1>1, <1>2, <1>3, <1>4, UncompressedKeeps
<1> QED
  BY <1>5, <1>6 DEF c

(* Filtering the points filters each column, with the same map.             *)
LEMMA MarkedColumn ==
  ASSUME NEW p \in Pcid, NEW pts \in Seq(PointOf(p)), NEW d \in Dims(p), NEW map
  PROVE  ColumnOf(d, Marked(pts, map)) = Marked(ColumnOf(d, pts), map)
<1> DEFINE S == PointOf(p)
           T == Raw(p, d)
           g == [pt \in S |-> pt[d]]
           c == ColumnOf(d, pts)
           kept == Marked(pts, map)
<1>1. g \in [S -> T] /\ pts \in Seq(S)
  BY DEF PointOf
<1>2. c \in Seq(T) /\ Len(c) = Len(pts) /\ kept \in Seq(S)
  BY ColumnIs, MarkedLen
<1>3. \A i \in 1 .. Len(pts) : c[i] = g[pts[i]]
  BY ColumnIs
<1>4. /\ Len(Marked(c, map)) = Len(kept)
      /\ \A i \in 1 .. Len(kept) : Marked(c, map)[i] = g[kept[i]]
      /\ Marked(c, map) \in Seq(T)
  <2> HIDE DEF S, T, g, c
  <2>1. Marked(c, map) \in Seq(T)
    BY <1>2, MarkedLen
  <2>2. /\ Len(Marked(c, map)) = Len(Marked(pts, map))
        /\ \A i \in 1 .. Len(Marked(pts, map)) : Marked(c, map)[i] = g[Marked(pts, map)[i]]
    BY <1>1, <1>2, <1>3, MarkedMaps, SMTT(30)
  <2> QED
    BY <2>1, <2>2
<1>5. \A i \in 1 .. Len(kept) : g[kept[i]] = kept[i][d]
  BY <1>2
<1>6. ColumnOf(d, kept) = [i \in 1 .. Len(kept) |-> kept[i][d]]
  BY <1>2 DEF ColumnOf
<1>7. Marked(c, map) = [i \in 1 .. Len(kept) |-> Marked(c, map)[i]]
  <2> HIDE DEF c, kept, T
  <2> QED
    BY <1>4
<1> HIDE DEF S, T, g, c, kept
<1>8. ColumnOf(d, kept) = Marked(c, map)
  BY <1>4, <1>5, <1>6, <1>7
<1> QED
  BY <1>8 DEF c, kept

(* What a filter accepts, and the points it marks, in every form alike.     *)
Accepted(p, d, f) == {raw \in Raw(p, d) : Passes(f, Scaled(p, d, raw))}
PassMap(p, d, f, pts) == [i \in 1 .. Len(pts) |-> pts[i][d] \in Accepted(p, d, f)]

LEMMA FilterMapIs ==
  ASSUME NEW pa, NEW p, NEW pts, Good(pa, p, pts), NEW d \in Dims(p), NEW f
  PROVE  (IF pa.form = "dimensional"
          THEN Bitmap(pa.data[d], Accepted(p, d, f))
          ELSE [i \in DOMAIN pa.data |-> pa.data[i][d] \in Accepted(p, d, f)])
           = PassMap(p, d, f, pts)
<1>1. p \in Pcid /\ pts \in Seq(PointOf(p)) /\ DOMAIN pts = 1 .. Len(pts)
  BY GoodParts
<1>2. CASE pa.form = "dimensional"
  <2> DEFINE c == ColumnOf(d, pts)
             A == Accepted(p, d, f)
  <2>1. Represents(pa.data[d], c, Raw(p, d)) /\ c \in Seq(Raw(p, d))
    BY <1>1, <1>2, ColumnIs DEF Good, Holds
  <2>2. MarksLike(pa.data[d], c)
    <3> HIDE DEF c
    <3> QED
      BY <2>1, RepresentsPositions
  <2>3. Bitmap(pa.data[d], A) = [i \in DOMAIN c |-> c[i] \in A]
    BY <2>2, Zenon DEF MarksLike
  <2>4. DOMAIN c = 1 .. Len(pts) /\ \A i \in 1 .. Len(pts) : c[i] = pts[i][d]
    BY <1>1 DEF ColumnOf
  <2> HIDE DEF c
  <2>5. [i \in DOMAIN c |-> c[i] \in A] = [i \in 1 .. Len(pts) |-> pts[i][d] \in A]
    BY <2>4, Zenon
  <2> QED
    BY <1>2, <2>3, <2>5, Zenon DEF PassMap
<1>3. CASE pa.form # "dimensional"
  <2>1. pa.data = pts
    BY <1>3 DEF Good, Holds
  <2> QED
    BY <1>1, <1>3, <2>1, Zenon DEF PassMap
<1> QED
  BY <1>2, <1>3

(* A filter as it is on the points.                                         *)
FilteredTo(pa, p, d, f, map, kept) ==
  IF ~MayPass(pa, d, f) \/ Len(kept) = 0 THEN {NULL}
  ELSE Stored(IF pa.form = "dimensional" THEN DimensionalFilter(pa, map, Len(kept))
                                         ELSE Computed(p, kept))

LEMMA FilteredIs ==
  ASSUME NEW pa, NEW p, NEW pts, Good(pa, p, pts), NEW d \in Dims(p), NEW f
  PROVE  Filtered(pa, d, f) = FilteredTo(pa, p, d, f, PassMap(p, d, f, pts),
                                         Marked(pts, PassMap(p, d, f, pts)))
<1> DEFINE map == PassMap(p, d, f, pts)
           n == Cardinality({i \in DOMAIN map : map[i]})
           kept == Marked(pts, map)
<1>1. pa.pcid = p /\ p \in Pcid /\ pts \in Seq(PointOf(p)) /\ DOMAIN pts = 1 .. Len(pts)
  BY GoodParts
<1>2. DOMAIN map = 1 .. Len(pts)
  BY DEF PassMap
<1>3. n = Len(kept)
  BY <1>1, <1>2, MarkedCount
<1>4. (IF pa.form = "dimensional"
       THEN Bitmap(pa.data[d], Accepted(p, d, f))
       ELSE [i \in DOMAIN pa.data |-> pa.data[i][d] \in Accepted(p, d, f)]) = map
  BY FilterMapIs
<1>5. Filtered(pa, d, f) =
        IF ~MayPass(pa, d, f) \/ n = 0 THEN {NULL}
        ELSE Stored(IF pa.form = "dimensional" THEN DimensionalFilter(pa, map, n)
                                               ELSE Computed(p, Marked(pa.data, map)))
  BY <1>1, <1>4, Zenon DEF Filtered, Accepted
<1>6. pa.form # "dimensional" => pa.data = pts
  BY DEF Good, Holds
<1> HIDE DEF map, n
<1>7. (IF pa.form = "dimensional" THEN DimensionalFilter(pa, map, n) ELSE Computed(p, Marked(pa.data, map)))
      = IF pa.form = "dimensional" THEN DimensionalFilter(pa, map, Len(kept)) ELSE Computed(p, kept)
  BY <1>3, <1>6, Zenon
<1> HIDE DEF kept
<1>8. Filtered(pa, d, f) = FilteredTo(pa, p, d, f, map, kept)
  BY <1>3, <1>5, <1>7, Zenon DEF FilteredTo
<1> QED
  BY <1>8 DEF kept, map

(* A dimensional patch is filtered column by column.                        *)
LEMMA DimensionalFilterKeeps ==
  ASSUME NEW pa, NEW p, NEW pts, Good(pa, p, pts), pa.form = "dimensional",
         NEW map, Marked(pts, map) # <<>>
  PROVE  Good(DimensionalFilter(pa, map, Len(Marked(pts, map))), p, Marked(pts, map))
<1> DEFINE new == Marked(pts, map)
           n == Len(new)
           kept == [d \in Dims(p) |-> ColumnFilter(pa.data[d], map)]
           lo(d) == Scaled(p, d, ColumnMin(kept[d]))
           hi(d) == Scaled(p, d, ColumnMax(kept[d]))
           avg(d) == RawOf(p, d, Scaled(p, d, FilterSum(pa.data[d], map)), n)
           box == [d \in Planar |-> [min |-> lo(d), max |-> hi(d)]]
           st == [min |-> [d \in Dims(p) |-> RawOf(p, d, lo(d), 1)],
                  max |-> [d \in Dims(p) |-> RawOf(p, d, hi(d), 1)],
                  avg |-> [d \in Dims(p) |-> avg(d)]]
<1>1. p \in Pcid /\ pts \in Seq(PointOf(p)) /\ pa.pcid = p
  BY GoodParts
<1>2. new \in PointSeq(p) /\ n \in Nat \ {0}
  <2>1. new \in Seq(PointOf(p))
    BY <1>1, MarkedLen
  <2> HIDE DEF new
  <2> QED
    BY <2>1 DEF PointSeq, new
<1>3. ASSUME NEW d \in Dims(p)
      PROVE  /\ Represents(pa.data[d], ColumnOf(d, pts), Raw(p, d))
             /\ ColumnOf(d, pts) \in Seq(Raw(p, d)) /\ Raw(p, d) \in SUBSET Int
  BY <1>1, <1>3, ColumnIs, DimensionIs DEF Good, Holds
<1>4. ASSUME NEW d \in Dims(p)
      PROVE  Represents(kept[d], ColumnOf(d, new), Raw(p, d))
  <2>1. Represents(ColumnFilter(pa.data[d], map), Marked(ColumnOf(d, pts), map), Raw(p, d))
    BY <1>3, FilterRepresents
  <2>2. ColumnOf(d, new) = Marked(ColumnOf(d, pts), map)
    BY <1>1, MarkedColumn
  <2> QED
    BY <2>1, <2>2
<1>5. DimensionalFilter(pa, map, n) =
        [pa EXCEPT !.data = kept, !.npoints = n, !.bounds = box, !.stats = st]
  BY <1>1, Zenon DEF DimensionalFilter
<1>6. kept = [d \in Dims(p) |-> kept[d]]
  OBVIOUS
<1> HIDE DEF new, n, kept
<1>7. Holds("dimensional", kept, p, new)
  BY <1>4, <1>6, Zenon DEF Holds
<1>8. Boxed(box, p, new)
  BY <1>1, <1>2, <1>7, ColumnBox, BoxBoxed
<1>9. ASSUME NEW d \in Dims(p)
      PROVE  /\ RawOf(p, d, lo(d), 1) = Least(d, new) /\ RawOf(p, d, hi(d), 1) = Greatest(d, new)
             /\ avg(d) \in Raw(p, d)
  <2>1. ColumnMin(kept[d]) = Least(d, new) /\ ColumnMax(kept[d]) = Greatest(d, new)
    BY <1>1, <1>2, <1>4, ColumnExtremes
  <2>2. Least(d, new) \in Raw(p, d) /\ Greatest(d, new) \in Raw(p, d)
    BY <1>1, <1>2, ExtremeIs
  <2>3. FilterSum(pa.data[d], map) \in Int
    BY <1>3, FilterSumIn
  <2>4. Scaled(p, d, FilterSum(pa.data[d], map)) \in Int
    BY <1>1, <2>3, ScaledKeepsOrder
  <2>5. avg(d) \in Raw(p, d)
    BY <1>1, <1>2, <2>4, RawOfIn
  <2> QED
    BY <1>1, <2>1, <2>2, <2>5, RawOfScaled
<1>10. st.min = [d \in Dims(p) |-> RawOf(p, d, lo(d), 1)] /\ st.max = [d \in Dims(p) |-> RawOf(p, d, hi(d), 1)]
       /\ st.avg = [d \in Dims(p) |-> avg(d)]
  OBVIOUS
<1> HIDE DEF box, st, lo, hi, avg
<1>11. Summary(st, p, new)
  BY <1>9, <1>10 DEF Summary, Lows, Highs
<1>12. Good(Patch(p, "dimensional", kept, Len(new), box, st), p, new)
  BY <1>1, <1>2, <1>7, <1>8, <1>11, GoodPatch DEF PatchForms
<1>13. [pa EXCEPT !.data = kept, !.npoints = n, !.bounds = box, !.stats = st]
         = Patch(p, "dimensional", kept, n, box, st)
  <2> DEFINE x == pa.data
             m == Len(pts)
             b == pa.bounds
             s == pa.stats
             q1 == [pa EXCEPT !.data = kept]
             q2 == [q1 EXCEPT !.npoints = n]
             q3 == [q2 EXCEPT !.bounds = box]
  <2>1. pa = Patch(p, "dimensional", x, m, b, s)
    BY DEF Good
  <2> HIDE DEF x, m, b, s
  <2>2. [pa EXCEPT !.data = kept, !.npoints = n, !.bounds = box, !.stats = st] = [q3 EXCEPT !.stats = st]
    OBVIOUS
  <2>3. q1 = Patch(p, "dimensional", kept, m, b, s)
    BY <2>1 DEF Patch
  <2> HIDE DEF q1
  <2>4. q2 = Patch(p, "dimensional", kept, n, b, s)
    BY <2>3 DEF Patch
  <2> HIDE DEF q2
  <2>5. q3 = Patch(p, "dimensional", kept, n, box, s)
    BY <2>4 DEF Patch
  <2> HIDE DEF q3
  <2>6. [q3 EXCEPT !.stats = st] = Patch(p, "dimensional", kept, n, box, st)
    BY <2>5 DEF Patch
  <2> QED
    BY <2>2, <2>6
<1> QED
  BY <1>5, <1>12, <1>13 DEF n, new

LEMMA FilterStands ==
  ASSUME NEW pa, NEW p, NEW pts, Good(pa, p, pts), NEW d \in Dims(p), NEW f,
         NEW new \in Filtered(pa, d, f), new # NULL
  PROVE  Good(new, p, Marked(pts, PassMap(p, d, f, pts)))
<1> DEFINE map == PassMap(p, d, f, pts)
           kept == Marked(pts, map)
<1>1. p \in Pcid /\ pts \in Seq(PointOf(p))
  BY GoodParts
<1>2. kept \in Seq(PointOf(p))
  BY <1>1, MarkedLen
<1>3. new \in FilteredTo(pa, p, d, f, map, kept)
  BY FilteredIs
<1> HIDE DEF map
<1>4. /\ Len(kept) # 0
      /\ new \in Stored(IF pa.form = "dimensional" THEN DimensionalFilter(pa, map, Len(kept))
                                                   ELSE Computed(p, kept))
  BY <1>3 DEF FilteredTo
<1>5. kept # <<>> /\ kept \in PointSeq(p)
  <2> HIDE DEF kept
  <2> QED
    BY <1>2, <1>4 DEF PointSeq
<1>6. CASE pa.form = "dimensional"
  <2>1. Good(DimensionalFilter(pa, map, Len(kept)), p, kept)
    BY <1>5, <1>6, DimensionalFilterKeeps
  <2> HIDE DEF kept
  <2> QED
    BY <1>4, <1>6, <2>1, StoredKeeps DEF kept, map
<1>7. CASE pa.form # "dimensional"
  <2>1. Good(Computed(p, kept), p, kept)
    BY <1>1, <1>5, ComputedKeeps
  <2> HIDE DEF kept
  <2> QED
    BY <1>4, <1>7, <2>1, StoredKeeps DEF kept, map
<1> QED
  BY <1>6, <1>7

(* PC_Range.                                                                *)
LEMMA RangeStands ==
  ASSUME NEW pa, NEW p, NEW pts, Good(pa, p, pts), NEW first \in Int, NEW count \in Int,
         NEW new \in Ranged(pa, first, count), new # NULL
  PROVE  /\ first >= 1 /\ Min({count, Len(pts) - (first - 1)}) >= 1
         /\ Good(new, p, SubSeq(pts, first, first + Min({count, Len(pts) - (first - 1)}) - 1))
<1> DEFINE len == Len(pts)
           n == Min({count, len - (first - 1)})
           cut == SubSeq(pts, first, first + n - 1)
<1>1. /\ p \in Pcid /\ pts \in Seq(PointOf(p)) /\ len \in Nat \ {0}
      /\ pa.pcid = p /\ pa.npoints = len /\ Points(pa) = pts
  BY GoodParts, GoodPoints
<1>2. n = (IF count <= len - (first - 1) THEN count ELSE len - (first - 1))
  <2>1. len - (first - 1) \in Int
    BY <1>1
  <2> HIDE DEF len
  <2> QED
    BY <2>1, MinTwo
<1>3. new \in IF first < 1 \/ n <= 0 THEN {NULL}
              ELSE IF n = len THEN Stored(pa) ELSE Stored(Computed(p, cut))
  BY <1>1, Zenon DEF Ranged
<1> HIDE DEF n, len
<1>4. n \in Int /\ first >= 1 /\ n >= 1 /\ n <= len - (first - 1)
  BY <1>1, <1>2, <1>3
<1>5. /\ cut \in Seq(PointOf(p)) /\ Len(cut) = n
      /\ \A i \in 1 .. n : cut[i] = pts[first + i - 1]
  <2>1. first \in 1 .. len /\ first + n - 1 \in 1 .. len /\ first + n - 1 >= first
    BY <1>1, <1>4
  <2> QED
    BY <1>1, <1>4, <2>1 DEF len
<1>6. cut \in PointSeq(p)
  <2> HIDE DEF cut
  <2> QED
    BY <1>4, <1>5 DEF PointSeq
<1>7. CASE n = len
  <2>1. first = 1
    BY <1>1, <1>4, <1>7
  <2>2. cut = pts
    <3>1. \A i \in 1 .. n : cut[i] = pts[i]
      BY <1>4, <1>5, <2>1
    <3>2. cut \in Seq(PointOf(p)) /\ pts \in Seq(PointOf(p)) /\ Len(cut) = Len(pts)
      BY <1>1, <1>5, <1>7 DEF len
    <3> HIDE DEF cut
    <3> QED
      BY <3>1, <3>2, <1>7 DEF len
  <2>3. new \in Stored(pa)
    BY <1>3, <1>4, <1>7
  <2>4. Good(new, p, pts)
    BY <2>3, StoredKeeps
  <2> QED
    BY <1>4, <2>2, <2>4 DEF n, len
<1>8. CASE n # len
  <2>1. new \in Stored(Computed(p, cut))
    BY <1>3, <1>4, <1>8
  <2>2. Good(Computed(p, cut), p, cut)
    BY <1>1, <1>6, ComputedKeeps
  <2>3. Good(new, p, cut)
    <3> HIDE DEF cut
    <3> QED
      BY <2>1, <2>2, StoredKeeps
  <2> QED
    BY <1>4, <2>3 DEF n, len
<1> QED
  BY <1>7, <1>8

(* PC_Sort moves points about, which changes no extreme.                    *)
LEMMA Shuffled ==
  ASSUME NEW p \in Pcid, NEW pts \in PointSeq(p), NEW keys, NEW s \in Sortings(pts, keys)
  PROVE  /\ s \in PointSeq(p) /\ Len(s) = Len(pts)
         /\ Box(p, s) = Box(p, pts) /\ Lows(p, s) = Lows(p, pts) /\ Highs(p, s) = Highs(p, pts)
<1> DEFINE m == Len(pts)
<1>1. m \in Nat \ {0} /\ DOMAIN pts = 1 .. m /\ \A i \in 1 .. m : pts[i] \in PointOf(p)
  BY DEF PointSeq
<1>2. PICK f \in Bijection(1 .. m, 1 .. m) : s = [i \in 1 .. m |-> pts[f[i]]]
  BY <1>1, Zenon DEF Sortings
<1>3. f \in [1 .. m -> 1 .. m] /\ \A j \in 1 .. m : \E i \in 1 .. m : f[i] = j
  BY DEF Bijection, Surjection
<1> HIDE DEF m
<1>4. /\ DOMAIN s = 1 .. m /\ \A i \in 1 .. m : s[i] = pts[f[i]] /\ f[i] \in 1 .. m
      /\ \A i \in 1 .. m : s[i] \in PointOf(p)
  BY <1>1, <1>2, <1>3
<1>5. s \in Seq(PointOf(p)) /\ Len(s) = m
  <2>1. s \in [1 .. m -> PointOf(p)]
    BY <1>2, <1>4
  <2> QED
    BY <1>1, <2>1
<1>6. s \in PointSeq(p)
  BY <1>1, <1>5 DEF PointSeq
<1>7. ASSUME NEW d \in Dims(p) PROVE Least(d, s) = Least(d, pts) /\ Greatest(d, s) = Greatest(d, pts)
  <2>1. IsLeast(Least(d, pts), d, pts) /\ IsGreatest(Greatest(d, pts), d, pts)
    BY ExtremeIs
  <2>2. IsLeast(Least(d, pts), d, s)
    <3>1. PICK i \in 1 .. m : Least(d, pts) = pts[i][d]
      BY <1>1, <2>1, Zenon DEF IsLeast
    <3>2. PICK j \in 1 .. m : f[j] = i
      BY <1>3
    <3>3. Least(d, pts) = s[j][d] /\ j \in DOMAIN s
      BY <1>4, <3>1, <3>2
    <3>4. \A k \in 1 .. m : Least(d, pts) <= s[k][d]
      BY <1>1, <1>4, <2>1 DEF IsLeast
    <3> QED
      BY <1>4, <3>3, <3>4 DEF IsLeast
  <2>3. IsGreatest(Greatest(d, pts), d, s)
    <3>1. PICK i \in 1 .. m : Greatest(d, pts) = pts[i][d]
      BY <1>1, <2>1, Zenon DEF IsGreatest
    <3>2. PICK j \in 1 .. m : f[j] = i
      BY <1>3
    <3>3. Greatest(d, pts) = s[j][d] /\ j \in DOMAIN s
      BY <1>4, <3>1, <3>2
    <3>4. \A k \in 1 .. m : s[k][d] <= Greatest(d, pts)
      BY <1>1, <1>4, <2>1 DEF IsGreatest
    <3> QED
      BY <1>4, <3>3, <3>4 DEF IsGreatest
  <2> QED
    BY <1>6, <2>2, <2>3, ExtremeUnique
<1>8. \A d \in Planar : d \in Dims(p)
  BY SchemaIs
<1>9. Box(p, s) = Box(p, pts)
  BY <1>7, <1>8, Zenon DEF Box
<1>10. Lows(p, s) = Lows(p, pts) /\ Highs(p, s) = Highs(p, pts)
  BY <1>7, Zenon DEF Lows, Highs
<1> QED
  BY <1>5, <1>6, <1>9, <1>10 DEF m

LEMMA SortStands ==
  ASSUME NEW pa, NEW p, NEW pts, Good(pa, p, pts), NEW keys, NEW s \in Sortings(pts, keys)
  PROVE  Good([ToUncompressed(pa) EXCEPT !.data = s], p, s)
<1> DEFINE b == pa.bounds
           t == pa.stats
           n == Len(pts)
           x == ToUncompressed(pa).data
           u == ToUncompressed(pa)
<1>1. /\ p \in Pcid /\ pts \in PointSeq(p) /\ Boxed(b, p, pts) /\ Summary(t, p, pts)
      /\ pa = Patch(p, pa.form, pa.data, n, b, t)
  BY Zenon DEF Good
<1>2. /\ s \in PointSeq(p) /\ Len(s) = n
      /\ Box(p, s) = Box(p, pts) /\ Lows(p, s) = Lows(p, pts) /\ Highs(p, s) = Highs(p, pts)
  BY <1>1, Shuffled
<1>3. Boxed(b, p, s) /\ Summary(t, p, s)
  BY <1>1, <1>2 DEF Boxed, Summary
<1>4. u = Patch(p, "none", x, n, b, t)
  <2> DEFINE f == pa.form
             y == pa.data
             mid == [pa EXCEPT !.form = "none"]
             z == Points(pa)
  <2>1. pa = Patch(p, f, y, n, b, t)
    BY <1>1
  <2>2. u = [mid EXCEPT !.data = z]
    BY DEF ToUncompressed
  <2> HIDE DEF f, y, n, b, t, z
  <2>3. mid = Patch(p, "none", y, n, b, t)
    BY <2>1 DEF Patch
  <2> HIDE DEF mid
  <2>4. [mid EXCEPT !.data = z] = Patch(p, "none", z, n, b, t)
    BY <2>3 DEF Patch
  <2>5. x = z
    BY <2>2, <2>4 DEF Patch
  <2> HIDE DEF x, u
  <2> QED
    BY <2>2, <2>4, <2>5
<1> HIDE DEF b, t, n, x, u
<1>5. [u EXCEPT !.data = s] = Patch(p, "none", s, n, b, t)
  BY <1>4 DEF Patch
<1>6. Good(Patch(p, "none", s, Len(s), b, t), p, s)
  BY <1>1, <1>2, <1>3, GoodPatch DEF Holds, PatchForms
<1> QED
  BY <1>2, <1>5, <1>6 DEF u

(* PC_SetPCId, same dimensions.                                             *)
LEMMA SameDimensionsAre ==
  ASSUME NEW p \in Pcid, NEW q \in Pcid, SameDimensions(p, q)
  PROVE  /\ Dims(p) = Dims(q) /\ \A d : Raw(p, d) = Raw(q, d)
         /\ PointOf(p) = PointOf(q) /\ PointSeq(p) = PointSeq(q)
         /\ \A pts : Lows(p, pts) = Lows(q, pts) /\ Highs(p, pts) = Highs(q, pts)
         /\ BoundsKept => \A pts : Box(p, pts) = Box(q, pts)
<1>1. Dims(p) = Dims(q) /\ \A d : Raw(p, d) = Raw(q, d)
  BY Zenon DEF SameDimensions, Dims, Raw
<1>2. PointOf(p) = PointOf(q)
  <2>1. UNION {Raw(p, d) : d \in Dims(p)} = UNION {Raw(q, d) : d \in Dims(q)}
    BY <1>1
  <2> QED
    BY <1>1, <2>1 DEF PointOf
<1>3. \A pts : Lows(p, pts) = Lows(q, pts) /\ Highs(p, pts) = Highs(q, pts)
  BY <1>1, Zenon DEF Lows, Highs
<1>4. ASSUME BoundsKept, NEW pts PROVE Box(p, pts) = Box(q, pts)
  <2>1. \A d \in Planar : Schema[p].scale[d] = Schema[q].scale[d] /\ Schema[p].offset[d] = Schema[q].offset[d]
    BY <1>4, Zenon DEF BoundsKept
  <2>2. \A d \in Planar : \A v : Scaled(p, d, v) = Scaled(q, d, v)
    BY <2>1, Zenon DEF Scaled
  <2> QED
    BY <2>2, Zenon DEF Box
<1> QED
  BY <1>1, <1>2, <1>3, <1>4, Zenon DEF PointSeq

LEMMA RetaggedStands ==
  ASSUME NEW pa, NEW p, NEW pts, Good(pa, p, pts), NEW q \in Pcid, SameDimensions(p, q)
  PROVE  Good([pa EXCEPT !.pcid = q], q, pts)
<1> DEFINE f == pa.form
           x == pa.data
           n == Len(pts)
           b == pa.bounds
           s == pa.stats
<1>1. /\ p \in Pcid /\ pts \in PointSeq(p) /\ pa = Patch(p, f, x, n, b, s)
      /\ f \in PatchForms /\ Holds(f, x, p, pts) /\ Boxed(b, p, pts) /\ Summary(s, p, pts)
  BY Zenon DEF Good
<1>2. /\ Dims(p) = Dims(q) /\ \A d : Raw(p, d) = Raw(q, d)
      /\ PointSeq(p) = PointSeq(q)
      /\ Lows(p, pts) = Lows(q, pts) /\ Highs(p, pts) = Highs(q, pts)
      /\ BoundsKept => Box(p, pts) = Box(q, pts)
  BY <1>1, SameDimensionsAre
<1> HIDE DEF f, x, b, s
<1>3. Holds(f, x, q, pts)
  BY <1>1, <1>2, Zenon DEF Holds
<1>4. Boxed(b, q, pts) /\ Summary(s, q, pts)
  BY <1>1, <1>2 DEF Boxed, Summary
<1>5. Good(Patch(q, f, x, n, b, s), q, pts)
  BY <1>1, <1>2, <1>3, <1>4, GoodPatch
<1> HIDE DEF n
<1>6. [pa EXCEPT !.pcid = q] = Patch(q, f, x, n, b, s)
  BY <1>1 DEF Patch
<1> QED
  BY <1>5, <1>6

(* PC_SetPCId, other dimensions.                                            *)
LEMMA RenamedIn ==
  ASSUME NEW p \in Pcid, NEW q \in Pcid, SharedDimsAgree(p, q), NEW a \in PointOf(p), NEW def \in Int
  PROVE  /\ Renamed(a, p, q, def) \in PointOf(q)
         /\ \A d \in Dims(q) : Renamed(a, p, q, def)[d] = IF d \in Dims(p) THEN a[d] ELSE RawOf(q, d, def, 1)
<1> DEFINE new == Renamed(a, p, q, def)
<1>1. /\ new = [d \in Dims(q) |-> new[d]]
      /\ \A d \in Dims(q) : new[d] = IF d \in Dims(p) THEN a[d] ELSE RawOf(q, d, def, 1)
  BY DEF Renamed
<1>2. ASSUME NEW d \in Dims(q) PROVE new[d] \in Raw(q, d)
  <2>1. CASE d \in Dims(p)
    <3>1. Raw(p, d) = Raw(q, d)
      BY <2>1 DEF SharedDimsAgree, Raw
    <3>2. a[d] \in Raw(p, d)
      BY <2>1 DEF PointOf
    <3> QED
      BY <1>1, <1>2, <2>1, <3>1, <3>2
  <2>2. CASE d \notin Dims(p)
    <3>1. RawOf(q, d, def, 1) \in Raw(q, d)
      BY RawOfIn
    <3> QED
      BY <1>1, <1>2, <2>2, <3>1
  <2> QED
    BY <2>1, <2>2
<1> HIDE DEF new
<1>3. new \in PointOf(q)
  BY <1>1, <1>2 DEF PointOf
<1> QED
  BY <1>1, <1>3 DEF new

RenamedAll(pts, p, q, def) == [i \in 1 .. Len(pts) |-> Renamed(pts[i], p, q, def)]

LEMMA RenamedPoints ==
  ASSUME NEW p \in Pcid, NEW q \in Pcid, SharedDimsAgree(p, q), NEW pts \in PointSeq(p), NEW def \in Int
  PROVE  /\ RenamedAll(pts, p, q, def) \in PointSeq(q) /\ Len(RenamedAll(pts, p, q, def)) = Len(pts)
         /\ \A d \in Dims(q) :
              /\ Least(d, RenamedAll(pts, p, q, def)) =
                   IF d \in Dims(p) THEN Least(d, pts) ELSE RawOf(q, d, def, 1)
              /\ Greatest(d, RenamedAll(pts, p, q, def)) =
                   IF d \in Dims(p) THEN Greatest(d, pts) ELSE RawOf(q, d, def, 1)
<1> DEFINE new == RenamedAll(pts, p, q, def)
           m == Len(pts)
<1>1. m \in Nat \ {0} /\ DOMAIN pts = 1 .. m /\ \A i \in 1 .. m : pts[i] \in PointOf(p)
  BY DEF PointSeq
<1>2. /\ new = [i \in 1 .. m |-> new[i]] /\ DOMAIN new = 1 .. m
      /\ \A i \in 1 .. m : new[i] = Renamed(pts[i], p, q, def)
  BY DEF RenamedAll
<1> HIDE DEF new, m
<1>3. ASSUME NEW i \in 1 .. m
      PROVE  /\ new[i] \in PointOf(q)
             /\ \A d \in Dims(q) : new[i][d] = IF d \in Dims(p) THEN pts[i][d] ELSE RawOf(q, d, def, 1)
  BY <1>1, <1>2, <1>3, RenamedIn
<1>4. new \in Seq(PointOf(q)) /\ Len(new) = m
  <2>1. new \in [1 .. m -> PointOf(q)]
    BY <1>2, <1>3
  <2> QED
    BY <1>1, <2>1
<1>5. new \in PointSeq(q)
  BY <1>1, <1>4 DEF PointSeq
<1>6. ASSUME NEW d \in Dims(q)
      PROVE  /\ Least(d, new) = IF d \in Dims(p) THEN Least(d, pts) ELSE RawOf(q, d, def, 1)
             /\ Greatest(d, new) = IF d \in Dims(p) THEN Greatest(d, pts) ELSE RawOf(q, d, def, 1)
  <2>1. CASE d \in Dims(p)
    <3>1. IsLeast(Least(d, pts), d, pts) /\ IsGreatest(Greatest(d, pts), d, pts)
      BY <2>1, ExtremeIs
    <3>2. \A i \in 1 .. m : new[i][d] = pts[i][d]
      BY <1>3, <2>1
    <3>3. IsLeast(Least(d, pts), d, new) /\ IsGreatest(Greatest(d, pts), d, new)
      BY <1>1, <1>2, <3>1, <3>2, Zenon DEF IsLeast, IsGreatest
    <3> QED
      BY <1>5, <2>1, <3>3, ExtremeUnique
  <2>2. CASE d \notin Dims(p)
    <3> DEFINE v == RawOf(q, d, def, 1)
    <3>1. v \in Int
      BY RawOfIn, DimensionIs
    <3>2. \A i \in 1 .. m : new[i][d] = v
      BY <1>3, <2>2
    <3> HIDE DEF v
    <3>3. IsLeast(v, d, new) /\ IsGreatest(v, d, new)
      BY <1>1, <1>2, <3>1, <3>2 DEF IsLeast, IsGreatest
    <3>4. v = Least(d, new) /\ v = Greatest(d, new)
      BY <1>5, <3>3, ExtremeUnique
    <3> QED
      BY <2>2, <3>4 DEF v
  <2> QED
    BY <2>1, <2>2
<1> QED
  BY <1>4, <1>5, <1>6, Zenon DEF new, m

LEMMA RenamedStands ==
  ASSUME NEW pa, NEW p, NEW pts, Good(pa, p, pts), NEW q \in Pcid, SharedDimsAgree(p, q), NEW def \in Int,
         NEW stats, stats = [s \in {"min", "max", "avg"} |-> Renamed(pa.stats[s], p, q, def)],
         NEW bounds, bounds = [d \in Planar |-> [min |-> Scaled(q, d, stats.min[d]),
                                                 max |-> Scaled(q, d, stats.max[d])]]
  PROVE  Good(Uncompressed(q, RenamedAll(pts, p, q, def), bounds, stats), q, RenamedAll(pts, p, q, def))
<1> DEFINE new == RenamedAll(pts, p, q, def)
<1>1. /\ p \in Pcid /\ pts \in PointSeq(p)
      /\ pa.stats.min = Lows(p, pts) /\ pa.stats.max = Highs(p, pts)
      /\ \A d \in Dims(p) : pa.stats.avg[d] \in Raw(p, d)
  BY Zenon DEF Good, Summary
<1>2. /\ new \in PointSeq(q)
      /\ \A d \in Dims(q) :
           /\ Least(d, new) = IF d \in Dims(p) THEN Least(d, pts) ELSE RawOf(q, d, def, 1)
           /\ Greatest(d, new) = IF d \in Dims(p) THEN Greatest(d, pts) ELSE RawOf(q, d, def, 1)
  BY <1>1, RenamedPoints
<1> HIDE DEF new
<1>3. /\ stats.min = Renamed(pa.stats.min, p, q, def)
      /\ stats.max = Renamed(pa.stats.max, p, q, def)
      /\ stats.avg = Renamed(pa.stats.avg, p, q, def)
  OBVIOUS
<1>4. stats.min = Lows(q, new)
  <2>1. \A d \in Dims(p) : Lows(p, pts)[d] = Least(d, pts)
    BY DEF Lows
  <2> QED
    BY <1>1, <1>2, <1>3, <2>1, Zenon DEF Renamed, Lows
<1>5. stats.max = Highs(q, new)
  <2>1. \A d \in Dims(p) : Highs(p, pts)[d] = Greatest(d, pts)
    BY DEF Highs
  <2> QED
    BY <1>1, <1>2, <1>3, <2>1, Zenon DEF Renamed, Highs
<1>6. ASSUME NEW d \in Dims(q) PROVE stats.avg[d] \in Raw(q, d)
  <2>1. stats.avg[d] = IF d \in Dims(p) THEN pa.stats.avg[d] ELSE RawOf(q, d, def, 1)
    BY <1>3 DEF Renamed
  <2>2. d \in Dims(p) => Raw(p, d) = Raw(q, d)
    BY DEF SharedDimsAgree, Raw
  <2>3. RawOf(q, d, def, 1) \in Raw(q, d)
    BY RawOfIn
  <2> QED
    BY <1>1, <2>1, <2>2, <2>3
<1>7. Summary(stats, q, new)
  BY <1>4, <1>5, <1>6, Zenon DEF Summary
<1>8. bounds = Box(q, new)
  <2>1. \A d \in Planar : d \in Dims(q)
    BY SchemaIs
  <2>2. \A d \in Dims(q) : stats.min[d] = Least(d, new) /\ stats.max[d] = Greatest(d, new)
    BY <1>4, <1>5 DEF Lows, Highs
  <2> QED
    BY <2>1, <2>2, Zenon DEF Box
<1>9. Good(Uncompressed(q, new, bounds, stats), q, new)
  BY <1>2, <1>7, <1>8, BoxBoxed, UncompressedKeeps
<1> QED
  BY <1>9 DEF new

(* PC_Transform.                                                            *)
TransformedAll(pts, p, q, def) == [i \in 1 .. Len(pts) |-> Transformed(pts[i], p, q, def)]

LEMMA TransformedPoints ==
  ASSUME NEW p \in Pcid, NEW q \in Pcid, NEW pts \in PointSeq(p), NEW def \in Int
  PROVE  TransformedAll(pts, p, q, def) \in PointSeq(q)
<1> DEFINE new == TransformedAll(pts, p, q, def)
           m == Len(pts)
<1>1. /\ m \in Nat \ {0} /\ DOMAIN pts = 1 .. m
      /\ \A i \in 1 .. m, d \in Dims(p) : pts[i][d] \in Int
  BY PointsIn DEF PointSeq
<1>2. ASSUME NEW i \in 1 .. m PROVE Transformed(pts[i], p, q, def) \in PointOf(q)
  <2> DEFINE a == Transformed(pts[i], p, q, def)
  <2>1. a = [d \in Dims(q) |-> a[d]]
        /\ \A d \in Dims(q) : a[d] = RawOf(q, d, IF d \in Dims(p) THEN Scaled(p, d, pts[i][d]) ELSE def, 1)
    BY DEF Transformed
  <2>2. ASSUME NEW d \in Dims(q) PROVE a[d] \in Raw(q, d)
    <3>1. (IF d \in Dims(p) THEN Scaled(p, d, pts[i][d]) ELSE def) \in Int
      BY <1>1, <1>2, ScaledKeepsOrder
    <3>2. RawOf(q, d, IF d \in Dims(p) THEN Scaled(p, d, pts[i][d]) ELSE def, 1) \in Raw(q, d)
      BY <3>1, RawOfIn
    <3> QED
      BY <2>1, <3>2
  <2> HIDE DEF a
  <2>3. a \in PointOf(q)
    BY <2>1, <2>2 DEF PointOf
  <2> QED
    BY <2>3 DEF a
<1>3. new \in [1 .. m -> PointOf(q)]
  BY <1>2 DEF TransformedAll
<1> HIDE DEF new, m
<1>4. new \in PointSeq(q)
  BY <1>1, <1>3 DEF PointSeq
<1> QED
  BY <1>4 DEF new

-----------------------------------------------------------------------------
(* What each action makes of a row that stands for points.                  *)
LEMMA NewPointsIn ==
  ASSUME NEW p \in Pcid, NEW pts \in NewPoints(p)
  PROVE  pts \in PointSeq(p)
<1>1. PICK n \in 1 .. MaxPoints : pts \in [1 .. n -> NewPoint(p)]
  BY DEF NewPoints
<1>2. n \in Nat \ {0} /\ NewPoint(p) \subseteq PointOf(p)
  BY PatchAssumption DEF NewPoint
<1>3. pts \in Seq(PointOf(p)) /\ Len(pts) = n
  BY <1>1, <1>2
<1> QED
  BY <1>2, <1>3 DEF PointSeq

LEMMA UnionPointStands ==
  ASSUME NEW p, NEW pts, Good(row, p, pts), NEW a \in PointOf(p), UnionPoint(a)
  PROVE  Good(row', p, pts \o <<a>>) \/ Good(row', p, <<a>> \o pts)
<1> DEFINE other == Computed(p, <<a>>)
<1>1. row.pcid = p /\ p \in Pcid
  BY GoodParts
<1>2. <<a>> \in PointSeq(p)
  BY DEF PointSeq
<1>3. Good(other, p, <<a>>)
  BY <1>1, <1>2, ComputedKeeps
<1>4. row' \in Stored(UnionOf(row, other)) \/ row' \in Stored(UnionOf(other, row))
  BY <1>1, Zenon DEF UnionPoint, Store
<1> HIDE DEF other
<1>5. Good(UnionOf(row, other), p, pts \o <<a>>) /\ Good(UnionOf(other, row), p, <<a>> \o pts)
  BY <1>3, UnionKeeps
<1> QED
  BY <1>4, <1>5, StoredKeeps

LEMMA UnionSelfStands ==
  ASSUME NEW p, NEW pts, Good(row, p, pts), UnionSelf
  PROVE  Good(row', p, pts \o pts)
<1>1. row' \in Stored(UnionOf(row, row))
  BY DEF UnionSelf, Store
<1>2. Good(UnionOf(row, row), p, pts \o pts)
  BY UnionKeeps
<1> QED
  BY <1>1, <1>2, StoredKeeps

LEMMA SortRowStands ==
  ASSUME NEW p, NEW pts, Good(row, p, pts), NEW keys, SortRow(keys)
  PROVE  keys \in SortKeys(p) /\ \E s \in Sortings(pts, keys) : Good(row', p, s)
<1>1. row.pcid = p /\ Points(row) = pts
  BY GoodParts, GoodPoints
<1>2. PICK s \in Sortings(pts, keys) : row' \in Stored([ToUncompressed(row) EXCEPT !.data = s])
  BY <1>1 DEF SortRow, Store
<1>3. Good([ToUncompressed(row) EXCEPT !.data = s], p, s)
  BY SortStands
<1>4. Good(row', p, s)
  BY <1>2, <1>3, StoredKeeps
<1> QED
  BY <1>1, <1>4 DEF SortRow

LEMMA CompressStands ==
  ASSUME NEW p, NEW pts, Good(row, p, pts), NEW comp \in PatchForms, Compress(comp)
  PROVE  Good(row', p, pts)
<1>1. row' \in Serialized(ToUncompressed(row), comp)
  BY DEF Compress
<1>2. Good(ToUncompressed(row), p, pts)
  BY Converted
<1> QED
  BY <1>1, <1>2, SerializedKeeps

LEMMA FastStands ==
  ASSUME NEW p, NEW pts, Good(row, p, pts), NEW q \in Pcid, SetPcidFast(q)
  PROVE  SameDimensions(p, q) /\ Good(row', q, pts)
<1> DEFINE pa == [row EXCEPT !.pcid = q]
<1>1. row.pcid = p /\ p \in Pcid
  BY GoodParts
<1>2. SameDimensions(p, q)
  BY <1>1 DEF SetPcidFast
<1>3. Good(pa, q, pts)
  BY <1>2, RetaggedStands
<1>4. row' = pa \/ row' \in Stored(pa)
  BY Zenon DEF SetPcidFast, Store
<1> HIDE DEF pa
<1> QED
  BY <1>2, <1>3, <1>4, StoredKeeps

LEMMA ByNameStands ==
  ASSUME NEW p, NEW pts, Good(row, p, pts), NEW q \in Pcid, NEW def \in Def, SetPcidByName(q, def)
  PROVE  SharedDimsAgree(p, q) /\ Good(row', q, RenamedAll(pts, p, q, def))
<1> DEFINE stats == [s \in {"min", "max", "avg"} |-> Renamed(row.stats[s], p, q, def)]
           bounds == [d \in Planar |-> [min |-> Scaled(q, d, stats.min[d]),
                                        max |-> Scaled(q, d, stats.max[d])]]
           new == RenamedAll(pts, p, q, def)
<1>1. row.pcid = p /\ row.npoints = Len(pts) /\ Points(row) = pts /\ def \in Int
  BY GoodParts, GoodPoints, PatchAssumption
<1>2. SharedDimsAgree(p, q)
  BY <1>1 DEF SetPcidByName
<1>3. row' \in Stored(Uncompressed(q, new, bounds, stats))
  BY <1>1, Zenon DEF SetPcidByName, Store, RenamedAll
<1>4. Good(Uncompressed(q, new, bounds, stats), q, new)
  <2>1. stats = [s \in {"min", "max", "avg"} |-> Renamed(row.stats[s], p, q, def)]
    OBVIOUS
  <2>2. bounds = [d \in Planar |-> [min |-> Scaled(q, d, stats.min[d]), max |-> Scaled(q, d, stats.max[d])]]
    OBVIOUS
  <2> HIDE DEF stats, bounds
  <2> QED
    BY <1>1, <1>2, <2>1, <2>2, RenamedStands, Zenon
<1> HIDE DEF stats, bounds, new
<1>5. Good(row', q, new)
  BY <1>3, <1>4, StoredKeeps
<1> QED
  BY <1>2, <1>5 DEF new

LEMMA TransformStands ==
  ASSUME NEW p, NEW pts, Good(row, p, pts), NEW q \in Pcid, NEW def \in Def, Transform(q, def)
  PROVE  \/ Schema[p].srid # Schema[q].srid /\ row' = NULL
         \/ Schema[p].srid = Schema[q].srid /\ Good(row', q, TransformedAll(pts, p, q, def))
<1> DEFINE new == TransformedAll(pts, p, q, def)
<1>1. /\ row.pcid = p /\ row.npoints = Len(pts) /\ Points(row) = pts /\ def \in Int
      /\ p \in Pcid /\ pts \in PointSeq(p)
  BY GoodParts, GoodPoints, PatchAssumption
<1>2. \/ Schema[p].srid # Schema[q].srid /\ row' = NULL
      \/ Schema[p].srid = Schema[q].srid /\ row' \in Stored(Computed(q, new))
  BY <1>1, Zenon DEF Transform, Store, TransformedAll
<1>3. new \in PointSeq(q)
  BY <1>1, TransformedPoints
<1> HIDE DEF new
<1>4. Good(Computed(q, new), q, new)
  BY <1>3, ComputedKeeps
<1> QED
  BY <1>2, <1>4, StoredKeeps DEF new

-----------------------------------------------------------------------------
LEMMA StepKeeps == RowInv /\ [Next]_vars => RowInv'
<1> SUFFICES ASSUME RowInv, [Next]_vars, row' # NULL
             PROVE  \E p, pts : Good(row', p, pts)
  <2>1. RowInv' <=> (row' # NULL => \E p, pts : Good(row', p, pts))
    BY Zenon DEF RowInv, Good, Patch, Holds, Boxed, Summary
  <2> QED
    BY <2>1
<1>1. CASE UNCHANGED vars
  BY <1>1 DEF vars, RowInv
<1>2. ASSUME NEW p \in Pcid, NEW pts \in NewPoints(p), FromPoints(p, pts)
      PROVE  \E q, new : Good(row', q, new)
  <2>1. Good(Computed(p, pts), p, pts)
    BY NewPointsIn, ComputedKeeps
  <2> QED
    BY <1>2, <2>1, StoredKeeps DEF FromPoints, Store
<1>3. ASSUME NEW p \in Pcid, NEW pts \in NewPoints(p), NEW form \in WkbForms, FromWkb(p, form, pts)
      PROVE  \E q, new : Good(row', q, new)
  BY <1>3, NewPointsIn, WkbKeeps
<1>4. CASE row # NULL
  <2>1. PICK p, pts : Good(row, p, pts)
    BY <1>4 DEF RowInv
  <2>2. row.pcid = p /\ p \in Pcid
    BY <2>1, GoodParts
  <2>3. ASSUME NEW a \in NewPoint(row.pcid), UnionPoint(a)
        PROVE  \E q, new : Good(row', q, new)
    <3>1. a \in PointOf(p)
      BY <2>2 DEF NewPoint
    <3> QED
      BY <2>1, <2>3, <3>1, UnionPointStands
  <2>4. CASE UnionSelf
    BY <2>1, <2>4, UnionSelfStands
  <2>5. ASSUME NEW d \in Dims(row.pcid), NEW f, FilterRow(d, f)
        PROVE  \E q, new : Good(row', q, new)
    <3>1. row' \in Filtered(row, d, f) /\ d \in Dims(p)
      BY <2>2, <2>5 DEF FilterRow
    <3> QED
      BY <2>1, <3>1, FilterStands
  <2>6. ASSUME NEW first \in Int, NEW count \in Int, RangeRow(first, count)
        PROVE  \E q, new : Good(row', q, new)
    BY <2>1, <2>6, RangeStands DEF RangeRow
  <2>7. ASSUME NEW keys, SortRow(keys)
        PROVE  \E q, new : Good(row', q, new)
    BY <2>1, <2>7, SortRowStands
  <2>8. ASSUME NEW comp \in {Schema[row.pcid].comp, "dimensional", "laz"}, Compress(comp)
        PROVE  \E q, new : Good(row', q, new)
    <3>1. comp \in PatchForms
      BY <2>2, SchemaIs DEF PatchForms
    <3> QED
      BY <2>1, <2>8, <3>1, CompressStands
  <2>9. CASE UncompressRow
    BY <2>1, <2>9, Converted DEF UncompressRow
  <2>10. ASSUME NEW q \in Pcid, SetPcidFast(q)
         PROVE  \E r, new : Good(row', r, new)
    BY <2>1, <2>10, FastStands
  <2>11. ASSUME NEW q \in Pcid, NEW def \in Def, SetPcidByName(q, def)
         PROVE  \E r, new : Good(row', r, new)
    BY <2>1, <2>11, ByNameStands
  <2>12. ASSUME NEW q \in Pcid, NEW def \in Def, Transform(q, def)
         PROVE  \E r, new : Good(row', r, new)
    BY <2>1, <2>12, TransformStands
  <2>13. -1 .. MaxPoints + 1 \subseteq Int
    BY PatchAssumption
  <2> QED
    BY <1>1, <1>2, <1>3, <2>3, <2>4, <2>5, <2>6, <2>7, <2>8, <2>9, <2>10, <2>11, <2>12, <2>13 DEF Next
<1>5. CASE row = NULL
  BY <1>1, <1>2, <1>3, <1>5, Zenon
    DEF Next, UnionSelf, RangeRow, UncompressRow, SetPcidFast, SetPcidByName, Transform
<1> QED
  BY <1>4, <1>5

LEMMA InvHolds == Spec => []RowInv
<1>1. Init => RowInv
  BY DEF Init, RowInv
<1> QED
  BY <1>1, StepKeeps, PTL DEF Spec

-----------------------------------------------------------------------------
LEMMA GoodColumn ==
  ASSUME NEW pa, NEW p, NEW pts, Good(pa, p, pts), pa.form = "dimensional", NEW d \in Dims(p)
  PROVE  /\ ColumnLength(pa.data[d]) = Len(pts)
         /\ pa.data[d].enc = "rle" =>
              \A k \in DOMAIN pa.data[d].body : pa.data[d].body[k].n \in 1 .. MaxRun
<1> DEFINE col == pa.data[d]
           vals == ColumnOf(d, pts)
           b == col.body
<1>1. vals \in Seq(Raw(p, d)) /\ Len(vals) = Len(pts) /\ Represents(col, vals, Raw(p, d))
  BY GoodParts, ColumnIs DEF Good, Holds
<1> HIDE DEF col, vals
<1>2. CASE col.enc = "rle"
  <2>1. b \in Seq(RunSet(Raw(p, d))) /\ Expanded(b) = vals
    BY <1>1, <1>2, Zenon DEF Represents
  <2> HIDE DEF b
  <2>2. Total(b) = Len(vals) /\ \A k \in DOMAIN b : b[k].n \in 1 .. MaxRun
    BY <2>1, ExpandedIn, RunFields
  <2>3. ColumnLength(col) = Total(b)
    BY <1>2, Zenon DEF ColumnLength, b
  <2> QED
    BY <1>1, <2>2, <2>3 DEF col, b
<1>3. CASE col.enc # "rle"
  <2>1. b = vals
    BY <1>1, <1>3, Zenon DEF Represents
  <2>2. ColumnLength(col) = Len(b)
    BY <1>3, Zenon DEF ColumnLength
  <2> QED
    BY <1>1, <1>3, <2>1, <2>2 DEF col
<1> QED
  BY <1>2, <1>3

LEMMA InvTypeOK == RowInv => TypeOK
<1> SUFFICES ASSUME RowInv, row # NULL PROVE TypeOK
  BY DEF TypeOK
<1>1. PICK p, pts : Good(row, p, pts)
  BY DEF RowInv
<1>2. /\ p \in Pcid /\ pts \in PointSeq(p) /\ pts \in Seq(PointOf(p))
      /\ row.pcid = p /\ row.npoints = Len(pts) /\ Len(pts) \in Nat \ {0} /\ Points(row) = pts
  BY <1>1, GoodParts, GoodPoints
<1>3. row.form \in {"none", "dimensional", "laz"} /\ DOMAIN row.bounds = Planar
  BY <1>1 DEF Good, PatchForms, Boxed
<1>4. ColumnsAligned
  BY <1>1, <1>2, GoodColumn DEF ColumnsAligned
<1>5. ASSUME NEW d \in Dims(p)
      PROVE  /\ {row.stats.min[d], row.stats.max[d], row.stats.avg[d]} \subseteq Raw(p, d)
             /\ \A i \in 1 .. Len(pts) : pts[i][d] \in Raw(p, d)
  <2>1. row.stats.min[d] = Least(d, pts) /\ row.stats.max[d] = Greatest(d, pts)
        /\ row.stats.avg[d] \in Raw(p, d)
    BY <1>1 DEF Good, Summary, Lows, Highs
  <2>2. Least(d, pts) \in Raw(p, d) /\ Greatest(d, pts) \in Raw(p, d)
    BY <1>2, ExtremeIs
  <2>3. \A i \in 1 .. Len(pts) : pts[i][d] \in Raw(p, d)
    BY <1>2, PointsIn
  <2> QED
    BY <2>1, <2>2, <2>3
<1> QED
  BY <1>2, <1>3, <1>4, <1>5, Zenon DEF TypeOK

(* A stored patch has points, its columns are aligned and decode to them,   *)
(* and points and statistics are within their types: the assertions of      *)
(* pc_bytes.c hold however often a patch is filtered, joined or converted.  *)
THEOREM TypeCorrect == Spec => []TypeOK
<1> QED
  BY InvHolds, InvTypeOK, PTL

(* The stored min and max points, on which a filter alone decides that      *)
(* nothing can pass, are those of the points: carried along by sorts,       *)
(* conversions and changes of pcid, gathered from runs by a filter,         *)
(* computed again by unions and ranges, they are never out of date.         *)
THEOREM MinMaxStayExact == Spec => []MinMaxExact
<1>1. RowInv => MinMaxExact
  <2> SUFFICES ASSUME RowInv, row # NULL PROVE MinMaxExact
    BY DEF MinMaxExact
  <2>1. PICK p, pts : Good(row, p, pts)
    BY DEF RowInv
  <2>2. p \in Pcid /\ pts \in PointSeq(p) /\ row.pcid = p /\ Points(row) = pts
    BY <2>1, GoodParts, GoodPoints
  <2>3. row.stats.min = Lows(p, pts) /\ row.stats.max = Highs(p, pts)
    BY <2>1 DEF Good, Summary
  <2>4. Stats(p, pts).min = Lows(p, pts) /\ Stats(p, pts).max = Highs(p, pts)
    BY <2>2, StatsAre, Zenon DEF Summary
  <2> QED
    BY <2>2, <2>3, <2>4, Zenon DEF MinMaxExact
<1> QED
  BY <1>1, InvHolds, PTL

LEMMA InvBounds ==
  ASSUME BoundsKept
  PROVE  RowInv => BoundsExact
<1> SUFFICES ASSUME RowInv, row # NULL PROVE BoundsExact
  BY DEF BoundsExact
<1>1. PICK p, pts : Good(row, p, pts)
  BY DEF RowInv
<1>2. p \in Pcid /\ pts \in PointSeq(p) /\ row.pcid = p /\ Points(row) = pts
  BY <1>1, GoodParts, GoodPoints
<1>3. row.bounds = Box(p, pts)
  BY <1>1 DEF Good, Boxed
<1>4. Extent(p, pts) = Box(p, pts)
  BY <1>2, ExtentIs
<1> QED
  BY <1>2, <1>3, <1>4 DEF BoundsExact

(* The bounds in the header, all that PC_Intersects and PC_EnvelopeAsBinary *)
(* read, are the extent of the points, where no patch arrives as LAZ WKB    *)
(* (the code leaves its bounds zero) and schemas of the same types have the *)
(* same scales in x and y (PC_SetPCId keeps the bounds).                    *)
THEOREM BoundsStayExact ==
  ASSUME BoundsKept
  PROVE  Spec => []BoundsExact
<1> QED
  BY InvHolds, InvBounds, PTL

-----------------------------------------------------------------------------
(* Queries.                                                                 *)
LEMMA PointAt ==
  ASSUME NEW pa, NEW p, NEW pts, Good(pa, p, pts), NEW n \in Int
  PROVE  LET k == IF n < 0 THEN Len(pts) + n ELSE n - 1
         IN PointN(pa, n) = IF k < 0 \/ k >= Len(pts) THEN NULL ELSE pts[k + 1]
<1> DEFINE m == Len(pts)
           k == IF n < 0 THEN m + n ELSE n - 1
<1>1. /\ p \in Pcid /\ pts \in Seq(PointOf(p)) /\ DOMAIN pts = 1 .. m /\ m \in Nat
      /\ pa.npoints = m
  BY GoodParts
<1>2. PointN(pa, n) = IF k < 0 \/ k >= m THEN NULL
                      ELSE IF pa.form = "dimensional" THEN [d \in DOMAIN pa.data |-> ValueAt(pa.data[d], k)]
                      ELSE pa.data[k + 1]
  BY <1>1, Zenon DEF PointN
<1> HIDE DEF m
<1>3. k \in Int
  BY <1>1
<1> HIDE DEF k
<1>4. ASSUME ~(k < 0 \/ k >= m), pa.form = "dimensional"
      PROVE  [d \in DOMAIN pa.data |-> ValueAt(pa.data[d], k)] = pts[k + 1]
  <2>1. k + 1 \in 1 .. m /\ (k + 1) - 1 = k
    BY <1>1, <1>3, <1>4
  <2>2. DOMAIN pa.data = Dims(p)
    BY <1>4 DEF Good, Holds
  <2>3. ASSUME NEW d \in Dims(p) PROVE ValueAt(pa.data[d], k) = pts[k + 1][d]
    <3> DEFINE vals == ColumnOf(d, pts)
    <3>1. vals \in Seq(Raw(p, d)) /\ Represents(pa.data[d], vals, Raw(p, d))
      BY <1>1, <1>4, ColumnIs DEF Good, Holds
    <3>2. DOMAIN vals = 1 .. m /\ vals[k + 1] = pts[k + 1][d]
      BY <1>1, <2>1 DEF ColumnOf
    <3> HIDE DEF vals
    <3>3. \A i \in DOMAIN vals : ValueAt(pa.data[d], i - 1) = vals[i]
      BY <3>1, RepresentsPositions DEF FindsEach
    <3> QED
      BY <2>1, <3>2, <3>3
  <2>4. pts[k + 1] = [d \in Dims(p) |-> pts[k + 1][d]]
    BY <1>1, <2>1, PointsIn DEF m
  <2> QED
    BY <2>2, <2>3, <2>4, Zenon
<1>5. pa.form # "dimensional" => pa.data = pts
  BY DEF Good, Holds
<1>6. PointN(pa, n) = IF k < 0 \/ k >= m THEN NULL ELSE pts[k + 1]
  BY <1>2, <1>4, <1>5, Zenon
<1> QED
  BY <1>6 DEF k, m

LEMMA InvPointN == RowInv => PointNAgrees
<1> SUFFICES ASSUME RowInv, row # NULL PROVE PointNAgrees
  BY DEF PointNAgrees
<1>1. PICK p, pts : Good(row, p, pts)
  BY DEF RowInv
<1> DEFINE m == Len(pts)
<1>2. row.npoints = m /\ m \in Nat \ {0} /\ Points(row) = pts
  BY <1>1, GoodParts, GoodPoints
<1>3. ASSUME NEW n \in Int
      PROVE  PointN(row, n) = CASE n \in 1 .. m   -> pts[n]
                                [] n \in -m .. -1 -> pts[m + 1 + n]
                                [] OTHER          -> NULL
  <2> DEFINE k == IF n < 0 THEN m + n ELSE n - 1
  <2>1. PointN(row, n) = IF k < 0 \/ k >= m THEN NULL ELSE pts[k + 1]
    BY <1>1, <1>3, PointAt
  <2> HIDE DEF m
  <2>2. CASE n \in 1 .. m
    <3>1. ~(k < 0 \/ k >= m) /\ k + 1 = n
      BY <1>2, <1>3, <2>2
    <3> HIDE DEF k
    <3> QED
      BY <2>1, <2>2, <3>1
  <2>3. CASE n \in -m .. -1
    <3>1. ~(k < 0 \/ k >= m) /\ k + 1 = m + 1 + n /\ n \notin 1 .. m
      BY <1>2, <1>3, <2>3
    <3> HIDE DEF k
    <3> QED
      BY <2>1, <2>3, <3>1
  <2>4. CASE n \notin 1 .. m /\ n \notin -m .. -1
    <3>1. k < 0 \/ k >= m
      BY <1>2, <1>3, <2>4
    <3> HIDE DEF k
    <3> QED
      BY <2>1, <2>4, <3>1
  <2> QED
    BY <2>2, <2>3, <2>4
<1> HIDE DEF m
<1>4. \A n \in -m - 1 .. m + 1 : n \in Int
  BY <1>2
<1>5. \A n \in -m - 1 .. m + 1 :
        PointN(row, n) = CASE n \in 1 .. m   -> pts[n]
                           [] n \in -m .. -1 -> pts[m + 1 + n]
                           [] OTHER          -> NULL
  BY <1>3, <1>4
<1> QED
  BY <1>2, <1>5 DEF PointNAgrees

LEMMA InvIntersects ==
  ASSUME BoundsKept
  PROVE  RowInv => SharedPointIntersects
<1> SUFFICES ASSUME RowInv, row # NULL, NEW i \in 1 .. row.npoints
             PROVE  BoundsIntersect(row.bounds, Extent(row.pcid, <<Points(row)[i]>>))
  BY DEF SharedPointIntersects
<1>1. PICK p, pts : Good(row, p, pts)
  BY DEF RowInv
<1>2. /\ p \in Pcid /\ pts \in PointSeq(p) /\ pts \in Seq(PointOf(p)) /\ DOMAIN pts = 1 .. Len(pts)
      /\ row.pcid = p /\ row.npoints = Len(pts) /\ Points(row) = pts
  BY <1>1, GoodParts, GoodPoints
<1> DEFINE a == pts[i]
           one == <<a>>
<1>3. one \in PointSeq(p) /\ DOMAIN one = {1} /\ one[1] = a
  BY <1>2 DEF PointSeq
<1>4. row.bounds = Box(p, pts) /\ Extent(p, one) = Box(p, one)
  BY <1>1, <1>2, <1>3, ExtentIs DEF Good, Boxed
<1>5. ASSUME NEW d \in Planar
      PROVE  /\ Scaled(p, d, Least(d, pts)) \in Int /\ Scaled(p, d, Greatest(d, pts)) \in Int
             /\ Scaled(p, d, Least(d, one)) = Scaled(p, d, a[d])
             /\ Scaled(p, d, Greatest(d, one)) = Scaled(p, d, a[d])
             /\ Scaled(p, d, a[d]) \in Int
             /\ Scaled(p, d, Least(d, pts)) <= Scaled(p, d, a[d])
             /\ Scaled(p, d, a[d]) <= Scaled(p, d, Greatest(d, pts))
  <2>1. d \in Dims(p)
    BY <1>2, SchemaIs
  <2>2. a[d] \in Int
    BY <1>2, <2>1, PointsIn
  <2>3. IsLeast(a[d], d, one) /\ IsGreatest(a[d], d, one)
    <3> HIDE DEF one, a
    <3> QED
      BY <1>3, <2>2 DEF IsLeast, IsGreatest
  <2>4. Least(d, one) = a[d] /\ Greatest(d, one) = a[d]
    <3> HIDE DEF one, a
    <3> QED
      BY <1>2, <1>3, <2>1, <2>3, ExtremeUnique
  <2>5. /\ Least(d, pts) \in Int /\ Greatest(d, pts) \in Int
        /\ Least(d, pts) <= a[d] /\ a[d] <= Greatest(d, pts)
    BY <1>2, <2>1, ExtremeIs, DimensionIs DEF IsLeast, IsGreatest
  <2> HIDE DEF one, a
  <2> QED
    BY <1>2, <2>1, <2>2, <2>4, <2>5, ScaledKeepsOrder
<1> HIDE DEF one, a
<1>6. ASSUME NEW d \in Planar
      PROVE  ~(Box(p, pts)[d].min > Box(p, one)[d].max \/ Box(p, one)[d].min > Box(p, pts)[d].max)
  <2>1. /\ Box(p, pts)[d].min = Scaled(p, d, Least(d, pts))
        /\ Box(p, pts)[d].max = Scaled(p, d, Greatest(d, pts))
        /\ Box(p, one)[d].min = Scaled(p, d, Least(d, one))
        /\ Box(p, one)[d].max = Scaled(p, d, Greatest(d, one))
    BY DEF Box
  <2> QED
    BY <1>5, <2>1
<1>7. BoundsIntersect(Box(p, pts), Box(p, one))
  BY <1>6 DEF BoundsIntersect
<1> QED
  BY <1>2, <1>4, <1>7 DEF one, a

-----------------------------------------------------------------------------
(* The sequence of points that SQL shows has the same schemas.              *)
LEMMA SeenDims == \A p : Seen!Dims(p) = Dims(p)
BY DEF Seen!Dims, Dims, Seen!ToSet, ToSet

LEMMA SeenScaled == \A p, d, v : Seen!Scaled(p, d, v) = Scaled(p, d, v)
BY Zenon DEF Seen!Scaled, Scaled

LEMMA SeenRaw == \A p, d : Seen!Raw(p, d) = Raw(p, d)
BY Zenon DEF Seen!Raw, Raw

LEMMA SeenPointOf == \A p : Seen!PointOf(p) = PointOf(p)
BY SeenDims, SeenRaw, Zenon DEF Seen!PointOf, PointOf

LEMMA SeenPasses == \A f, v : Seen!Passes(f, v) = Passes(f, v)
BY Zenon DEF Seen!Passes, Passes

LEMMA SeenSortKeys == \A p : Seen!SortKeys(p) = SortKeys(p)
<1> SUFFICES ASSUME NEW p PROVE Seen!SortKeys(p) = SortKeys(p)
  OBVIOUS
<1>1. Seen!Dims(p) = Dims(p)
  BY SeenDims
<1>2. Seen!SortKeys(p) = {<<d>> : d \in Seen!Dims(p)} \cup {<<d, e>> : d, e \in Seen!Dims(p)}
  BY DEF Seen!SortKeys
<1> QED
  BY <1>1, <1>2 DEF SortKeys

LEMMA SeenPrecedes == \A a, b, keys : Seen!Precedes(a, b, keys) = Precedes(a, b, keys)
BY Zenon DEF Seen!Precedes, Precedes

LEMMA SeenSortings == \A pts, keys : Seen!Sortings(pts, keys) = Sortings(pts, keys)
<1> SUFFICES ASSUME NEW pts, NEW keys PROVE Seen!Sortings(pts, keys) = Sortings(pts, keys)
  OBVIOUS
<1> DEFINE m == DOMAIN pts
<1>1. Seen!Bijection(m, m) = Bijection(m, m)
  BY Zenon DEF Seen!Bijection, Bijection, Seen!Injection, Injection, Seen!Surjection, Surjection,
               Seen!IsInjective, IsInjective
<1>2. \A s : (\A i \in 1 .. Len(s) - 1 : Seen!Precedes(s[i], s[i + 1], keys))
             <=> \A i \in 1 .. Len(s) - 1 : Precedes(s[i], s[i + 1], keys)
  BY SeenPrecedes, Zenon
<1>3. Seen!Sortings(pts, keys) =
        {s \in {[i \in m |-> pts[f[i]]] : f \in Seen!Bijection(m, m)} :
           \A i \in 1 .. Len(s) - 1 : Seen!Precedes(s[i], s[i + 1], keys)}
  BY Zenon DEF Seen!Sortings
<1>4. Sortings(pts, keys) =
        {s \in {[i \in m |-> pts[f[i]]] : f \in Bijection(m, m)} :
           \A i \in 1 .. Len(s) - 1 : Precedes(s[i], s[i + 1], keys)}
  BY Zenon DEF Sortings
<1> HIDE DEF m
<1>5. {[i \in m |-> pts[f[i]]] : f \in Seen!Bijection(m, m)} = {[i \in m |-> pts[f[i]]] : f \in Bijection(m, m)}
  BY <1>1
<1> DEFINE U == {[i \in m |-> pts[f[i]]] : f \in Seen!Bijection(m, m)}
<1>6. {s \in U : \A i \in 1 .. Len(s) - 1 : Seen!Precedes(s[i], s[i + 1], keys)}
      = {s \in U : \A i \in 1 .. Len(s) - 1 : Precedes(s[i], s[i + 1], keys)}
  <2> HIDE DEF U
  <2> QED
    BY <1>2, Zenon
<1> QED
  BY <1>3, <1>4, <1>5, <1>6

LEMMA SeenAgree == \A p, q : Seen!SharedDimsAgree(p, q) = SharedDimsAgree(p, q)
BY SeenDims, Zenon DEF Seen!SharedDimsAgree, SharedDimsAgree

LEMMA SeenRawOf == \A p, d, num, den : Seen!RawOf(p, d, num, den) = RawOf(p, d, num, den)
<1>1. \A num, den : Seen!Lround(num, den) = Lround(num, den)
  BY DEF Seen!Lround, Lround
<1>2. \A v, type : Seen!Clamp(v, type) = Clamp(v, type)
  BY DEF Seen!Clamp, Clamp
<1> QED
  BY <1>1, <1>2, Zenon DEF Seen!RawOf, RawOf

LEMMA SeenRenamed == \A a, p, q, def : Seen!Renamed(a, p, q, def) = Renamed(a, p, q, def)
BY SeenDims, SeenRawOf, Zenon DEF Seen!Renamed, Renamed

LEMMA SeenTransformed == \A a, p, q, def : Seen!Transformed(a, p, q, def) = Transformed(a, p, q, def)
BY SeenDims, SeenRawOf, SeenScaled, Zenon DEF Seen!Transformed, Transformed

SeenPcid == IF row = NULL THEN 0 ELSE row.pcid
SeenPoints == IF row = NULL THEN <<>> ELSE Points(row)

(* The points that pass are those the filter marks.                         *)
LEMMA PassingIs ==
  ASSUME NEW pts, NEW p \in Pcid, pts \in PointSeq(p), SeenPcid = p, SeenPoints = pts,
         NEW d \in Dims(p), NEW f
  PROVE  Seen!Passing(d, f) = Marked(pts, PassMap(p, d, f, pts))
<1> DEFINE map == PassMap(p, d, f, pts)
           ids == [i \in DOMAIN pts |-> i]
           Shown(it) == [s \in SUBSET (DOMAIN pts) |->
                          IF s = {} THEN <<>>
                          ELSE IF Seen!Passes(f, Seen!Scaled(p, d, pts[Seen!Max(s)][d]))
                               THEN Append(it[s \ {Seen!Max(s)}], pts[Seen!Max(s)])
                               ELSE it[s \ {Seen!Max(s)}]]
           Same(it) == [s \in SUBSET (DOMAIN ids) |->
                          IF s = {} THEN <<>> ELSE Kept(pts, map, it[s \ {Max(s)}], ids[Max(s)])]
<1>1. Seen!Passing(d, f) = (CHOOSE it : it = Shown(it))[DOMAIN pts]
  <2> DEFINE Raised(it) == [s \in SUBSET (DOMAIN SeenPoints) |->
               IF s = {} THEN <<>>
               ELSE IF Seen!Passes(f, Seen!Scaled(SeenPcid, d, SeenPoints[Seen!Max(s)][d]))
                    THEN Append(it[s \ {Seen!Max(s)}], SeenPoints[Seen!Max(s)])
                    ELSE it[s \ {Seen!Max(s)}]]
  <2>1. Seen!Passing(d, f) = (CHOOSE it : it = Raised(it))[DOMAIN SeenPoints]
    <3>1. Seen!Passing(d, f) =
            Seen!FoldLeft(LAMBDA kept, a : IF Seen!Passes(f, Seen!Scaled(SeenPcid, d, a[d]))
                                           THEN Append(kept, a) ELSE kept, <<>>, SeenPoints)
      BY Zenon DEF Seen!Passing, SeenPcid, SeenPoints
    <3> QED
      BY <3>1, Zenon DEF Seen!FoldLeft, Seen!MapThenFoldSet
  <2>2. \A it : Raised(it) = Shown(it)
    BY Zenon
  <2> HIDE DEF Raised, Shown
  <2>3. (CHOOSE it : it = Raised(it)) = (CHOOSE it : it = Shown(it))
    BY <2>2, Zenon
  <2> QED
    BY <2>1, <2>3
<1>2. DOMAIN pts = 1 .. Len(pts) /\ DOMAIN ids = 1 .. Len(pts) /\ Len(pts) \in Nat
      /\ pts \in Seq(PointOf(p))
  BY DEF PointSeq
<1>3. Marked(pts, map) = (CHOOSE it : it = Same(it))[DOMAIN ids]
  BY Zenon DEF Marked, Kept, FoldLeftDomain, FoldLeft, MapThenFoldSet, ids
<1>4. ASSUME NEW it PROVE Shown(it) = Same(it)
  <2>1. ASSUME NEW s \in SUBSET (DOMAIN pts), s # {}
        PROVE  (IF Seen!Passes(f, Seen!Scaled(p, d, pts[Seen!Max(s)][d]))
                THEN Append(it[s \ {Seen!Max(s)}], pts[Seen!Max(s)])
                ELSE it[s \ {Seen!Max(s)}])
               = Kept(pts, map, it[s \ {Max(s)}], ids[Max(s)])
    <3>1. Max(s) \in 1 .. Len(pts)
      BY <1>2, <2>1, MaxIn
    <3>2. Seen!Max(s) = Max(s)
      BY Zenon DEF Seen!Max, Max
    <3> DEFINE i == Max(s)
    <3>3. ids[i] = i
      BY <1>2, <3>1
    <3>4. pts[i][d] \in Raw(p, d)
      BY <1>2, <3>1, PointsIn
    <3>5. map[i] <=> Passes(f, Scaled(p, d, pts[i][d]))
      BY <3>1, <3>4 DEF PassMap, Accepted
    <3>6. Seen!Passes(f, Seen!Scaled(p, d, pts[i][d])) <=> Passes(f, Scaled(p, d, pts[i][d]))
      BY SeenPasses, SeenScaled, Zenon
    <3> HIDE DEF i, map, ids
    <3>7. Kept(pts, map, it[s \ {i}], ids[i]) = IF map[i] THEN Append(it[s \ {i}], pts[i]) ELSE it[s \ {i}]
      BY <3>3, Zenon DEF Kept
    <3> QED
      BY <3>2, <3>5, <3>6, <3>7, Zenon DEF i
  <2> HIDE DEF map, ids
  <2> QED
    BY <1>2, <2>1
<1> HIDE DEF map, ids, Shown, Same
<1>5. (CHOOSE it : it = Shown(it)) = (CHOOSE it : it = Same(it))
  BY <1>4, Zenon
<1> QED
  BY <1>1, <1>2, <1>3, <1>5 DEF map

-----------------------------------------------------------------------------
(* The answers of PC_Filter and PC_Range.  SQL NULL is no patch.            *)
NullIsNoPatch ==
  \A p, form, data, n, bounds, stats : NULL # Patch(p, form, data, n, bounds, stats)

LEMMA GoodIsNotNull ==
  ASSUME NullIsNoPatch, NEW pa, NEW p, NEW pts, Good(pa, p, pts)
  PROVE  pa # NULL
BY Zenon DEF NullIsNoPatch, Good

(* Statistics that rule a filter out do so for every point.                 *)
LEMMA RuledOut ==
  ASSUME NEW pa, NEW p, NEW pts, Good(pa, p, pts), NEW d \in Dims(p), NEW f \in Filter,
         ~MayPass(pa, d, f), NEW i \in 1 .. Len(pts)
  PROVE  ~PassMap(p, d, f, pts)[i]
<1> DEFINE lo == Least(d, pts)
           hi == Greatest(d, pts)
           v == Scaled(p, d, pts[i][d])
           min == Scaled(p, d, lo)
           max == Scaled(p, d, hi)
<1>1. /\ p \in Pcid /\ pts \in PointSeq(p) /\ pts \in Seq(PointOf(p)) /\ pa.pcid = p
      /\ DOMAIN pts = 1 .. Len(pts)
  BY GoodParts
<1>2. pa.stats.min[d] = lo /\ pa.stats.max[d] = hi
  <2>1. pa.stats.min = Lows(p, pts) /\ pa.stats.max = Highs(p, pts)
    BY DEF Good, Summary
  <2> QED
    BY <2>1 DEF Lows, Highs
<1>3. lo \in Int /\ hi \in Int /\ pts[i][d] \in Int
  BY <1>1, ExtremeIs, DimensionIs, PointsIn
<1>4. lo <= pts[i][d] /\ pts[i][d] <= hi
  BY <1>1, ExtremeIs DEF IsLeast, IsGreatest
<1> HIDE DEF lo, hi
<1>5. min \in Int /\ max \in Int /\ v \in Int /\ min <= v /\ v <= max
  BY <1>1, <1>3, <1>4, ScaledKeepsOrder
<1> HIDE DEF min, max, v
<1>6. f.lo \in Int /\ f.hi \in Int /\ f.op \in {"lt", "gt", "eq", "between"}
  BY PatchAssumption
<1>7. ~CASE f.op = "gt"      -> max >= f.lo
         [] f.op = "lt"      -> min <= f.lo
         [] f.op = "eq"      -> min <= f.lo /\ max >= f.lo
         [] f.op = "between" -> min <= f.hi /\ max >= f.lo
  BY <1>1, <1>2, Zenon DEF MayPass, min, max
<1>8. ~Passes(f, v)
  <2>1. CASE f.op = "lt"
    BY <1>5, <1>6, <1>7, <2>1 DEF Passes
  <2>2. CASE f.op = "gt"
    BY <1>5, <1>6, <1>7, <2>2 DEF Passes
  <2>3. CASE f.op = "eq"
    BY <1>5, <1>6, <1>7, <2>3 DEF Passes
  <2>4. CASE f.op = "between"
    BY <1>5, <1>6, <1>7, <2>4 DEF Passes
  <2> QED
    BY <1>6, <2>1, <2>2, <2>3, <2>4
<1> QED
  BY <1>8 DEF PassMap, Accepted, v

LEMMA NoneMarked ==
  ASSUME NEW S, NEW seq \in Seq(S), NEW map, \A i \in 1 .. Len(seq) : ~map[i]
  PROVE  Marked(seq, map) = <<>>
<1>1. {i \in 1 .. Len(seq) : map[i]} = {}
  OBVIOUS
<1>2. Len(Marked(seq, map)) = 0
  BY <1>1, MarkedCount, FS_EmptySet
<1>3. Marked(seq, map) \in Seq(S)
  BY MarkedLen
<1> DEFINE kept == Marked(seq, map)
<1> HIDE DEF kept
<1>4. kept \in Seq(S) /\ Len(kept) = 0 => kept = <<>>
  OBVIOUS
<1> QED
  BY <1>2, <1>3, <1>4 DEF kept

LEMMA FilterAnswers ==
  ASSUME NullIsNoPatch, NEW pa, NEW p, NEW pts, Good(pa, p, pts), NEW d \in Dims(p),
         NEW f \in Filter, NEW new \in Filtered(pa, d, f)
  PROVE  PointsOrNone(new) = Marked(pts, PassMap(p, d, f, pts))
<1> DEFINE map == PassMap(p, d, f, pts)
           kept == Marked(pts, map)
<1>1. CASE new # NULL
  <2>1. Good(new, p, kept)
    BY <1>1, FilterStands
  <2>2. Points(new) = kept
    BY <2>1, GoodPoints
  <2> QED
    BY <1>1, <2>2, Zenon DEF PointsOrNone
<1>2. CASE new = NULL
  <2>1. p \in Pcid /\ pts \in Seq(PointOf(p))
    BY GoodParts
  <2>2. kept \in Seq(PointOf(p))
    BY <2>1, MarkedLen
  <2>3. new \in FilteredTo(pa, p, d, f, map, kept)
    BY FilteredIs
  <2>4. CASE ~MayPass(pa, d, f)
    <3>1. \A i \in 1 .. Len(pts) : ~map[i]
      BY <2>4, RuledOut
    <3> HIDE DEF map
    <3>2. kept = <<>>
      BY <2>1, <3>1, NoneMarked
    <3> QED
      BY <1>2, <3>2 DEF PointsOrNone, map
  <2>5. CASE Len(kept) = 0
    <3> HIDE DEF kept
    <3>1. kept = <<>>
      BY <2>2, <2>5
    <3> QED
      BY <1>2, <3>1 DEF PointsOrNone, kept
  <2>6. CASE MayPass(pa, d, f) /\ Len(kept) # 0
    <3> HIDE DEF map
    <3>1. new \in Stored(IF pa.form = "dimensional" THEN DimensionalFilter(pa, map, Len(kept))
                                                    ELSE Computed(p, kept))
      BY <2>3, <2>6, Zenon DEF FilteredTo
    <3>2. kept # <<>> /\ kept \in PointSeq(p)
      <4> HIDE DEF kept
      <4> QED
        BY <2>2, <2>6 DEF PointSeq
    <3>3. CASE pa.form = "dimensional"
      <4>1. Good(DimensionalFilter(pa, map, Len(kept)), p, kept)
        BY <3>2, <3>3, DimensionalFilterKeeps
      <4> HIDE DEF kept
      <4>2. Good(new, p, kept)
        BY <3>1, <3>3, <4>1, StoredKeeps
      <4> QED
        BY <1>2, <4>2, GoodIsNotNull
    <3>4. CASE pa.form # "dimensional"
      <4>1. Good(Computed(p, kept), p, kept)
        BY <2>1, <3>2, ComputedKeeps
      <4> HIDE DEF kept
      <4>2. Good(new, p, kept)
        BY <3>1, <3>4, <4>1, StoredKeeps
      <4> QED
        BY <1>2, <4>2, GoodIsNotNull
    <3> QED
      BY <3>3, <3>4
  <2> QED
    BY <2>4, <2>5, <2>6
<1> QED
  BY <1>1, <1>2

Cut(pts, first, count) ==
  IF first < 1 THEN <<>> ELSE SubSeq(pts, first, Min({first + count - 1, Len(pts)}))

LEMMA NothingCut ==
  ASSUME NEW S, NEW pts \in Seq(S), NEW first \in Int, NEW last \in Int, last < first
  PROVE  SubSeq(pts, first, last) = <<>>
OBVIOUS

LEMMA RangeAnswers ==
  ASSUME NullIsNoPatch, NEW pa, NEW p, NEW pts, Good(pa, p, pts),
         NEW first \in Int, NEW count \in Int, NEW new \in Ranged(pa, first, count)
  PROVE  PointsOrNone(new) = Cut(pts, first, count)
<1> DEFINE len == Len(pts)
           n == Min({count, len - (first - 1)})
           last == Min({first + count - 1, len})
           cut == SubSeq(pts, first, first + n - 1)
<1>1. /\ p \in Pcid /\ pts \in Seq(PointOf(p)) /\ len \in Nat \ {0}
      /\ pa.pcid = p /\ pa.npoints = len /\ Points(pa) = pts
  BY GoodParts, GoodPoints
<1>2. n \in Int /\ last \in Int /\ last = first + n - 1
  <2>1. len - (first - 1) \in Int /\ first + count - 1 \in Int /\ len \in Int
    BY <1>1
  <2> HIDE DEF len
  <2>2. n = (IF count <= len - (first - 1) THEN count ELSE len - (first - 1))
    BY <2>1, MinTwo
  <2>3. last = (IF first + count - 1 <= len THEN first + count - 1 ELSE len)
    BY <2>1, MinTwo
  <2> HIDE DEF n, last
  <2> QED
    BY <2>1, <2>2, <2>3
<1>3. Cut(pts, first, count) = IF first < 1 THEN <<>> ELSE SubSeq(pts, first, last)
  BY Zenon DEF Cut
<1>4. CASE new # NULL
  <2>1. first >= 1 /\ Good(new, p, cut)
    <3>1. first >= 1 /\ n >= 1 /\ Good(new, p, cut)
      BY <1>4, RangeStands, Zenon
    <3> QED
      BY <3>1
  <2>2. Points(new) = cut
    BY <2>1, GoodPoints
  <2> HIDE DEF n, last
  <2> QED
    BY <1>2, <1>3, <1>4, <2>1, <2>2 DEF PointsOrNone
<1>5. CASE new = NULL
  <2>1. new \in IF first < 1 \/ n <= 0 THEN {NULL}
                ELSE IF n = len THEN Stored(pa) ELSE Stored(Computed(p, cut))
    BY <1>1, Zenon DEF Ranged
  <2>2. PointsOrNone(new) = <<>>
    BY <1>5, Zenon DEF PointsOrNone
  <2>3. CASE first < 1
    BY <1>3, <2>2, <2>3
  <2>4. CASE first >= 1 /\ n <= 0
    <3> HIDE DEF n, last
    <3>1. last < first
      BY <1>2, <2>4
    <3>2. SubSeq(pts, first, last) = <<>>
      BY <1>1, <1>2, <3>1, NothingCut
    <3> QED
      BY <1>3, <2>2, <2>4, <3>2
  <2>5. CASE first >= 1 /\ n >= 1
    <3>1. n <= len - (first - 1)
      <4>1. len - (first - 1) \in Int
        BY <1>1
      <4> HIDE DEF len
      <4>2. n = (IF count <= len - (first - 1) THEN count ELSE len - (first - 1))
        BY <4>1, MinTwo
      <4> QED
        BY <4>1, <4>2
    <3> HIDE DEF n, last
    <3>2. new \in Stored(pa) \/ new \in Stored(Computed(p, cut))
      BY <1>2, <2>1, <2>5
    <3>3. cut \in PointSeq(p)
      <4>1. first \in 1 .. len /\ first + n - 1 \in 1 .. len /\ first + n - 1 >= first
        BY <1>1, <1>2, <2>5, <3>1
      <4>2. cut \in Seq(PointOf(p)) /\ Len(cut) = n
        BY <1>1, <1>2, <4>1 DEF len
      <4> HIDE DEF cut
      <4> QED
        BY <2>5, <4>2 DEF PointSeq
    <3>4. Good(Computed(p, cut), p, cut)
      BY <1>1, <3>3, ComputedKeeps
    <3> HIDE DEF cut
    <3>5. Good(new, p, pts) \/ Good(new, p, cut)
      BY <3>2, <3>4, StoredKeeps
    <3> QED
      BY <1>5, <3>5, GoodIsNotNull
  <2> QED
    BY <1>2, <2>3, <2>4, <2>5
<1> QED
  BY <1>4, <1>5

LEMMA SeenGood ==
  ASSUME NEW p, NEW pts, Good(row, p, pts), row # NULL
  PROVE  SeenPcid = p /\ SeenPoints = pts
<1>1. row.pcid = p /\ Points(row) = pts
  BY GoodParts, GoodPoints
<1> QED
  BY <1>1 DEF SeenPcid, SeenPoints

LEMMA WindowIs ==
  ASSUME NEW p, NEW pts, Good(row, p, pts), row # NULL, NEW first, NEW count
  PROVE  Seen!Window(first, count) = Cut(pts, first, count)
<1>1. \A S : Seen!Min(S) = Min(S)
  BY Zenon DEF Seen!Min, Min
<1>2. SeenPoints = pts
  BY SeenGood
<1>3. Seen!Window(first, count) =
        IF first < 1 THEN <<>>
        ELSE SubSeq(SeenPoints, first, Seen!Min({first + count - 1, Len(SeenPoints)}))
  BY Zenon DEF Seen!Window, SeenPoints
<1> QED
  BY <1>1, <1>2, <1>3, Zenon DEF Cut

LEMMA InvCalls ==
  ASSUME NullIsNoPatch
  PROVE  RowInv => CallsExact
<1> SUFFICES ASSUME row # NULL, NEW p, NEW pts, Good(row, p, pts) PROVE CallsExact
  BY DEF RowInv, CallsExact
<1>1. p \in Pcid /\ pts \in PointSeq(p) /\ row.pcid = p
  BY GoodParts
<1>2. ASSUME NEW d \in Dims(p), NEW f \in Filter, NEW pa \in Filtered(row, d, f)
      PROVE  PointsOrNone(pa) = Seen!Passing(d, f)
  <2>1. PointsOrNone(pa) = Marked(pts, PassMap(p, d, f, pts))
    BY FilterAnswers
  <2>2. Seen!Passing(d, f) = Marked(pts, PassMap(p, d, f, pts))
    BY <1>1, SeenGood, PassingIs
  <2> QED
    BY <2>1, <2>2, Zenon
<1>3. ASSUME NEW first \in -1 .. MaxPoints + 1, NEW count \in -1 .. MaxPoints + 1,
             NEW pa \in Ranged(row, first, count)
      PROVE  PointsOrNone(pa) = Seen!Window(first, count)
  <2>1. first \in Int /\ count \in Int
    BY PatchAssumption
  <2>2. PointsOrNone(pa) = Cut(pts, first, count)
    BY <2>1, RangeAnswers
  <2>3. Seen!Window(first, count) = Cut(pts, first, count)
    BY WindowIs
  <2> QED
    BY <2>2, <2>3, Zenon
<1> QED
  BY <1>1, <1>2, <1>3, Zenon DEF CallsExact

(* Filters and PC_Range return the points asked for, PC_PointN the point    *)
(* that decoding would give, and PC_Intersects never denies a shared point, *)
(* whatever the form, the encoding and the history of the patch: what is    *)
(* answered from statistics, bounds and bitmaps is what the points say.     *)
THEOREM AnswersStayExact ==
  ASSUME BoundsKept, NullIsNoPatch
  PROVE  Spec => []AnswersExact
<1>1. RowInv => AnswersExact
  BY InvCalls, InvPointN, InvIntersects DEF AnswersExact
<1> QED
  BY <1>1, InvHolds, PTL

-----------------------------------------------------------------------------
(* The row implements a sequence of points: each action, seen through the   *)
(* points that decoding gives, is a step of PointRow.                       *)
LEMMA SeenNext ==
  ASSUME NullIsNoPatch, NEW q, NEW new, Good(row', q, new)
  PROVE  row' # NULL /\ SeenPcid' = q /\ SeenPoints' = new
<1>1. row' # NULL
  BY GoodIsNotNull
<1>2. row'.pcid = q /\ Points(row') = new
  BY GoodParts, GoodPoints
<1>3. Points(row') = Points(row)'
  BY Zenon DEF Points
<1> QED
  BY <1>1, <1>2, <1>3, Zenon DEF SeenPcid, SeenPoints

LEMMA SeenNow ==
  ASSUME NEW p, NEW pts, Good(row, p, pts), row # NULL
  PROVE  /\ p \in Pcid /\ p # 0 /\ pts \in PointSeq(p)
         /\ SeenPcid = p /\ SeenPoints = pts
BY GoodParts, SeenGood, RegisteredAssumption

(* A row that is a patch of points, or NULL for none.                       *)
Becomes(q, new) == Good(row', q, new) \/ (row' = NULL /\ new = <<>>)

LEMMA SetIs ==
  ASSUME NullIsNoPatch, NEW q, NEW new, Becomes(q, new)
  PROVE  Seen!Set(q, new)
<1>1. CASE Good(row', q, new)
  <2>1. SeenPcid' = q /\ SeenPoints' = new /\ new # <<>>
    BY <1>1, SeenNext, GoodParts DEF PointSeq
  <2> QED
    BY <2>1, Zenon DEF Seen!Set, SeenPcid, SeenPoints
<1>2. CASE row' = NULL /\ new = <<>>
  BY <1>2, Zenon DEF Seen!Set
<1> QED
  BY <1>1, <1>2 DEF Becomes

LEMMA SeenInsert ==
  ASSUME NullIsNoPatch, row = NULL, NEW q, NEW new, Good(row', q, new)
  PROVE  Seen!Insert
<1>1. SeenPcid = 0 /\ SeenPcid' = q /\ SeenPoints' = new
  BY SeenNext DEF SeenPcid
<1>2. q \in Pcid /\ new \in Seq(PointOf(q)) \ {<<>>}
  BY GoodParts DEF PointSeq
<1>3. Seen!PointOf(q) = PointOf(q)
  BY SeenPointOf
<1>4. Seen!Insert <=> /\ SeenPcid = 0 /\ SeenPcid' \in Pcid
                      /\ SeenPoints' \in Seq(Seen!PointOf(SeenPcid')) \ {<<>>}
  BY Zenon DEF Seen!Insert, SeenPcid, SeenPoints
<1> QED
  BY <1>1, <1>2, <1>3, <1>4, Zenon

LEMMA SeenJoin ==
  ASSUME NullIsNoPatch, row # NULL, NEW p, NEW pts, Good(row, p, pts),
         NEW a \in PointOf(p), UnionPoint(a)
  PROVE  Seen!Join
<1>1. /\ p \in Pcid /\ p # 0 /\ SeenPcid = p /\ SeenPoints = pts
      /\ pts \in Seq(PointOf(p))
  BY SeenNow, GoodParts
<1>2. PICK new \in {pts \o <<a>>, <<a>> \o pts} : Good(row', p, new)
  BY UnionPointStands
<1>3. SeenPcid' = p /\ SeenPoints' = new
  BY <1>2, SeenNext
<1>4. /\ new \in Seq(PointOf(p)) /\ Len(new) = Len(pts) + 1
      /\ SubSeq(new, 1, Len(new) - 1) = pts \/ Tail(new) = pts
  <2>1. CASE new = pts \o <<a>>
    <3>1. /\ new \in Seq(PointOf(p)) /\ Len(new) = Len(pts) + 1 /\ Len(pts) \in Nat
          /\ \A i \in 1 .. Len(pts) : new[i] = pts[i]
      BY <1>1, <2>1
    <3>2. SubSeq(new, 1, Len(pts)) \in Seq(PointOf(p)) /\ Len(SubSeq(new, 1, Len(pts))) = Len(pts)
          /\ \A i \in 1 .. Len(pts) : SubSeq(new, 1, Len(pts))[i] = pts[i]
      BY <3>1
    <3> DEFINE front == SubSeq(new, 1, Len(pts))
    <3> HIDE DEF front
    <3>3. front = pts
      BY <1>1, <3>2 DEF front
    <3>4. Len(new) - 1 = Len(pts)
      BY <3>1
    <3> QED
      BY <3>1, <3>3, <3>4 DEF front
  <2>2. CASE new = <<a>> \o pts
    <3>1. /\ new \in Seq(PointOf(p)) /\ Len(new) = Len(pts) + 1 /\ Len(pts) \in Nat
          /\ \A i \in 1 .. Len(pts) : new[i + 1] = pts[i]
      BY <1>1, <2>2
    <3>2. Tail(new) \in Seq(PointOf(p)) /\ Len(Tail(new)) = Len(pts)
          /\ \A i \in 1 .. Len(pts) : Tail(new)[i] = pts[i]
      BY <3>1
    <3> DEFINE tail == Tail(new)
    <3> HIDE DEF tail
    <3>3. tail = pts
      BY <1>1, <3>2 DEF tail
    <3> QED
      BY <3>1, <3>3 DEF tail
  <2> QED
    BY <1>2, <2>1, <2>2
<1>5. Seen!PointOf(p) = PointOf(p)
  BY SeenPointOf
<1>6. Seen!Join <=> /\ SeenPcid # 0 /\ SeenPcid' = SeenPcid
                    /\ SeenPoints' \in Seq(Seen!PointOf(SeenPcid))
                    /\ Len(SeenPoints') = Len(SeenPoints) + 1
                    /\ Seen!Front(SeenPoints') = SeenPoints \/ Tail(SeenPoints') = SeenPoints
  BY Zenon DEF Seen!Join, SeenPcid, SeenPoints
<1>7. Seen!Front(new) = SubSeq(new, 1, Len(new) - 1)
  BY Zenon DEF Seen!Front
<1> QED
  BY <1>1, <1>3, <1>4, <1>5, <1>6, <1>7, Zenon

LEMMA SeenRepeat ==
  ASSUME NullIsNoPatch, row # NULL, NEW p, NEW pts, Good(row, p, pts), UnionSelf
  PROVE  Seen!Repeat
<1>1. p # 0 /\ SeenPcid = p /\ SeenPoints = pts
  BY SeenNow
<1>2. Seen!Set(p, pts \o pts)
  BY UnionSelfStands, SetIs DEF Becomes
<1>3. Seen!Repeat <=> SeenPcid # 0 /\ Seen!Set(SeenPcid, SeenPoints \o SeenPoints)
  BY Zenon DEF Seen!Repeat, SeenPcid, SeenPoints
<1> QED
  BY <1>1, <1>2, <1>3, Zenon

LEMMA SeenSelect ==
  ASSUME NullIsNoPatch, row # NULL, NEW p, NEW pts, Good(row, p, pts),
         NEW d \in Dims(p), NEW f \in Filter, FilterRow(d, f)
  PROVE  Seen!Select
<1>1. p \in Pcid /\ p # 0 /\ pts \in PointSeq(p) /\ SeenPcid = p /\ SeenPoints = pts
  BY SeenNow
<1> DEFINE kept == Marked(pts, PassMap(p, d, f, pts))
<1>2. row' \in Filtered(row, d, f)
  BY DEF FilterRow
<1>3. Becomes(p, kept)
  <2>1. CASE row' # NULL
    BY <1>2, <2>1, FilterStands DEF Becomes
  <2>2. CASE row' = NULL
    <3>1. PointsOrNone(row') = kept
      BY <1>2, FilterAnswers
    <3> QED
      BY <2>2, <3>1, Zenon DEF PointsOrNone, Becomes
  <2> QED
    BY <2>1, <2>2
<1>4. Seen!Passing(d, f) = kept
  BY <1>1, PassingIs
<1> HIDE DEF kept
<1>5. Seen!Set(p, Seen!Passing(d, f))
  BY <1>3, <1>4, SetIs
<1>6. d \in Seen!Dims(p)
  BY SeenDims
<1>7. Seen!Select <=> SeenPcid # 0 /\ \E e \in Seen!Dims(SeenPcid), g \in Filter :
                                         Seen!Set(SeenPcid, Seen!Passing(e, g))
  BY Zenon DEF Seen!Select, SeenPcid
<1> QED
  BY <1>1, <1>5, <1>6, <1>7, Zenon

LEMMA SeenSlice ==
  ASSUME NullIsNoPatch, row # NULL, NEW p, NEW pts, Good(row, p, pts),
         NEW first \in -1 .. MaxPoints + 1, NEW count \in -1 .. MaxPoints + 1, RangeRow(first, count)
  PROVE  Seen!Slice
<1>1. p # 0 /\ SeenPcid = p /\ SeenPoints = pts
  BY SeenNow
<1>2. first \in Int /\ count \in Int
  BY PatchAssumption
<1>3. row' \in Ranged(row, first, count)
  BY DEF RangeRow
<1> DEFINE cut == Cut(pts, first, count)
<1>4. PointsOrNone(row') = cut
  BY <1>2, <1>3, RangeAnswers
<1>5. Seen!Window(first, count) = cut
  BY WindowIs
<1>6. Becomes(p, cut)
  <2>1. CASE row' # NULL
    <3>1. PICK new : Good(row', p, new)
      BY <1>2, <1>3, <2>1, RangeStands
    <3>2. Points(row') = new
      BY <3>1, GoodPoints
    <3> QED
      BY <1>4, <2>1, <3>1, <3>2, Zenon DEF PointsOrNone, Becomes
  <2>2. CASE row' = NULL
    BY <1>4, <2>2, Zenon DEF PointsOrNone, Becomes
  <2> QED
    BY <2>1, <2>2
<1> HIDE DEF cut
<1>7. Seen!Set(p, Seen!Window(first, count))
  BY <1>5, <1>6, SetIs
<1>8. Seen!Slice <=> SeenPcid # 0 /\ \E i, n \in -1 .. MaxPoints + 1 :
                                        Seen!Set(SeenPcid, Seen!Window(i, n))
  BY Zenon DEF Seen!Slice, SeenPcid
<1> QED
  BY <1>1, <1>7, <1>8, Zenon

LEMMA SeenSort ==
  ASSUME NullIsNoPatch, row # NULL, NEW p, NEW pts, Good(row, p, pts), NEW keys, SortRow(keys)
  PROVE  Seen!Sort
<1>1. p # 0 /\ SeenPcid = p /\ SeenPoints = pts
  BY SeenNow
<1>2. PICK s \in Sortings(pts, keys) : Good(row', p, s)
  BY SortRowStands
<1>3. keys \in Seen!SortKeys(p) /\ s \in Seen!Sortings(pts, keys)
  BY SortRowStands, SeenSortKeys, SeenSortings
<1>4. Seen!Set(p, s)
  BY <1>2, SetIs DEF Becomes
<1>5. Seen!Sort <=> SeenPcid # 0 /\ \E k \in Seen!SortKeys(SeenPcid) :
                      \E t \in Seen!Sortings(SeenPoints, k) : Seen!Set(SeenPcid, t)
  BY Zenon DEF Seen!Sort, SeenPcid, SeenPoints
<1> QED
  BY <1>1, <1>3, <1>4, <1>5, Zenon

RenameSeen(q, def) == [i \in DOMAIN SeenPoints |-> Seen!Renamed(SeenPoints[i], SeenPcid, q, def)]
TransformSeen(q, def) == [i \in DOMAIN SeenPoints |-> Seen!Transformed(SeenPoints[i], SeenPcid, q, def)]

LEMMA RenameSeenIs ==
  ASSUME NEW p, NEW pts, Good(row, p, pts), row # NULL, NEW q, NEW def
  PROVE  /\ RenameSeen(q, def) = RenamedAll(pts, p, q, def)
         /\ TransformSeen(q, def) = TransformedAll(pts, p, q, def)
<1>1. SeenPcid = p /\ SeenPoints = pts /\ DOMAIN pts = 1 .. Len(pts)
  BY SeenNow, GoodParts
<1>2. \A i : Seen!Renamed(pts[i], p, q, def) = Renamed(pts[i], p, q, def)
  BY SeenRenamed, Zenon
<1>3. \A i : Seen!Transformed(pts[i], p, q, def) = Transformed(pts[i], p, q, def)
  BY SeenTransformed, Zenon
<1> QED
  BY <1>1, <1>2, <1>3, Zenon DEF RenameSeen, TransformSeen, RenamedAll, TransformedAll

SetSeen(q, def) == Seen!SharedDimsAgree(SeenPcid, q) /\ Seen!Set(q, RenameSeen(q, def))

LEMMA SetPcidIs == Seen!SetPcid <=> SeenPcid # 0 /\ \E q \in Pcid, def \in Def : SetSeen(q, def)
BY Zenon DEF Seen!SetPcid, SetSeen, RenameSeen, SeenPcid, SeenPoints

LEMMA SeenByName ==
  ASSUME NullIsNoPatch, row # NULL, NEW p, NEW pts, Good(row, p, pts),
         NEW q \in Pcid, NEW def \in Def, SetPcidByName(q, def)
  PROVE  Seen!SetPcid
<1>1. p # 0 /\ SeenPcid = p
  BY SeenNow
<1>2. SharedDimsAgree(p, q) /\ Good(row', q, RenamedAll(pts, p, q, def))
  BY ByNameStands
<1>3. Seen!Set(q, RenamedAll(pts, p, q, def))
  BY <1>2, SetIs DEF Becomes
<1>4. RenamedAll(pts, p, q, def) = RenameSeen(q, def) /\ Seen!SharedDimsAgree(p, q)
  BY <1>2, RenameSeenIs, SeenAgree
<1>5. SetSeen(q, def)
  BY <1>1, <1>3, <1>4, Zenon DEF SetSeen
<1> QED
  BY <1>1, <1>5, SetPcidIs

(* Moving raw values by name between the same dimensions changes nothing.   *)
LEMMA SameNames ==
  ASSUME NEW p \in Pcid, NEW q \in Pcid, SameDimensions(p, q), NEW pts \in PointSeq(p), NEW def
  PROVE  RenamedAll(pts, p, q, def) = pts /\ SharedDimsAgree(p, q)
<1>1. Dims(p) = Dims(q)
  BY SameDimensionsAre
<1>2. pts \in Seq(PointOf(p))
  BY DEF PointSeq
<1>3. /\ DOMAIN pts = 1 .. Len(pts) /\ Len(pts) \in Nat
      /\ \A i \in 1 .. Len(pts) : pts[i] = [d \in Dims(p) |-> pts[i][d]]
  BY <1>2, PointsIn
<1>4. ASSUME NEW i \in 1 .. Len(pts) PROVE Renamed(pts[i], p, q, def) = pts[i]
  <2>1. Renamed(pts[i], p, q, def) = [d \in Dims(p) |-> pts[i][d]]
    BY <1>1, Zenon DEF Renamed
  <2> QED
    BY <1>3, <2>1
<1>5. RenamedAll(pts, p, q, def) = [i \in 1 .. Len(pts) |-> pts[i]]
  BY <1>4, Zenon DEF RenamedAll
<1>6. pts = [i \in 1 .. Len(pts) |-> pts[i]]
  BY <1>2
<1>7. SharedDimsAgree(p, q)
  BY Zenon DEF SameDimensions, SharedDimsAgree
<1> QED
  BY <1>5, <1>6, <1>7

LEMMA SeenFast ==
  ASSUME NullIsNoPatch, row # NULL, NEW p, NEW pts, Good(row, p, pts), NEW q \in Pcid, SetPcidFast(q)
  PROVE  Seen!SetPcid
<1>1. p \in Pcid /\ p # 0 /\ pts \in PointSeq(p) /\ SeenPcid = p
  BY SeenNow
<1>2. SameDimensions(p, q) /\ Good(row', q, pts)
  BY FastStands
<1>3. PICK def \in Def : TRUE
  BY PatchAssumption
<1>4. RenamedAll(pts, p, q, def) = pts /\ SharedDimsAgree(p, q)
  BY <1>1, <1>2, SameNames
<1>5. Seen!Set(q, pts)
  BY <1>2, SetIs DEF Becomes
<1>6. RenameSeen(q, def) = pts /\ Seen!SharedDimsAgree(p, q)
  BY <1>4, RenameSeenIs, SeenAgree
<1>7. SetSeen(q, def)
  BY <1>1, <1>5, <1>6, Zenon DEF SetSeen
<1> QED
  BY <1>1, <1>3, <1>7, SetPcidIs

LEMMA SeenTransform ==
  ASSUME NullIsNoPatch, row # NULL, NEW p, NEW pts, Good(row, p, pts),
         NEW q \in Pcid, NEW def \in Def, Transform(q, def)
  PROVE  Seen!Transform
<1>1. p # 0 /\ SeenPcid = p
  BY SeenNow
<1>2. Seen!Transform <=>
        SeenPcid # 0 /\ \E r \in Pcid, e \in Def :
          \/ Schema[r].srid = Schema[SeenPcid].srid /\ Seen!Set(r, TransformSeen(r, e))
          \/ Schema[r].srid # Schema[SeenPcid].srid /\ Seen!Set(r, <<>>)
  BY Zenon DEF Seen!Transform, TransformSeen, SeenPcid, SeenPoints
<1>3. CASE Schema[p].srid # Schema[q].srid /\ row' = NULL
  <2>1. Seen!Set(q, <<>>)
    BY <1>3, SetIs DEF Becomes
  <2>2. Schema[q].srid # Schema[SeenPcid].srid
    BY <1>1, <1>3
  <2> QED
    BY <1>1, <1>2, <2>1, <2>2, Zenon
<1>4. CASE Schema[p].srid = Schema[q].srid /\ Good(row', q, TransformedAll(pts, p, q, def))
  <2>1. Seen!Set(q, TransformedAll(pts, p, q, def))
    BY <1>4, SetIs DEF Becomes
  <2>2. Schema[q].srid = Schema[SeenPcid].srid
    BY <1>1, <1>4
  <2>3. TransformedAll(pts, p, q, def) = TransformSeen(q, def)
    BY RenameSeenIs
  <2> QED
    BY <1>1, <1>2, <2>1, <2>2, <2>3, Zenon
<1> QED
  BY <1>3, <1>4, TransformStands

(* Another form of the same points is no step at all.                       *)
LEMMA SeenSame ==
  ASSUME NullIsNoPatch, row # NULL, NEW p, NEW pts, Good(row, p, pts), Good(row', p, pts)
  PROVE  UNCHANGED Seen!vars
<1>1. SeenPcid' = SeenPcid /\ SeenPoints' = SeenPoints
  BY SeenNow, SeenNext
<1> QED
  BY <1>1, Zenon DEF Seen!vars, SeenPcid, SeenPoints

LEMMA SeenStep ==
  ASSUME NullIsNoPatch, RowInv, [Next]_vars
  PROVE  [Seen!Next]_(Seen!vars)
<1>1. CASE UNCHANGED vars
  BY <1>1 DEF vars, Seen!vars, Points
<1>2. ASSUME NEW p \in Pcid, NEW pts \in NewPoints(p), FromPoints(p, pts)
      PROVE  Seen!Insert
  <2>1. Good(Computed(p, pts), p, pts)
    BY NewPointsIn, ComputedKeeps
  <2>2. row = NULL /\ Good(row', p, pts)
    BY <1>2, <2>1, StoredKeeps DEF FromPoints, Store
  <2> QED
    BY <2>2, SeenInsert
<1>3. ASSUME NEW p \in Pcid, NEW pts \in NewPoints(p), NEW form \in WkbForms, FromWkb(p, form, pts)
      PROVE  Seen!Insert
  <2>1. row = NULL /\ Good(row', p, pts)
    BY <1>3, NewPointsIn, WkbKeeps DEF FromWkb
  <2> QED
    BY <2>1, SeenInsert
<1>4. CASE row # NULL
  <2>1. PICK p, pts : Good(row, p, pts)
    BY <1>4 DEF RowInv
  <2>2. row.pcid = p /\ p \in Pcid
    BY <2>1, GoodParts
  <2>3. ASSUME NEW a \in NewPoint(row.pcid), UnionPoint(a)
        PROVE  Seen!Join
    <3>1. a \in PointOf(p)
      BY <2>2 DEF NewPoint
    <3> QED
      BY <1>4, <2>1, <2>3, <3>1, SeenJoin
  <2>4. UnionSelf => Seen!Repeat
    BY <1>4, <2>1, SeenRepeat
  <2>5. ASSUME NEW d \in Dims(row.pcid), NEW f \in Filter, FilterRow(d, f)
        PROVE  Seen!Select
    BY <1>4, <2>1, <2>2, <2>5, SeenSelect
  <2>6. ASSUME NEW first \in -1 .. MaxPoints + 1, NEW count \in -1 .. MaxPoints + 1,
               RangeRow(first, count)
        PROVE  Seen!Slice
    BY <1>4, <2>1, <2>6, SeenSlice
  <2>7. ASSUME NEW keys, SortRow(keys)
        PROVE  Seen!Sort
    BY <1>4, <2>1, <2>7, SeenSort
  <2>8. ASSUME NEW comp \in {Schema[row.pcid].comp, "dimensional", "laz"}, Compress(comp)
        PROVE  UNCHANGED Seen!vars
    <3>1. comp \in PatchForms
      BY <2>2, SchemaIs DEF PatchForms
    <3>2. Good(row', p, pts)
      BY <2>1, <2>8, <3>1, CompressStands
    <3> QED
      BY <1>4, <2>1, <3>2, SeenSame
  <2>9. ASSUME UncompressRow PROVE UNCHANGED Seen!vars
    <3>1. Good(row', p, pts)
      BY <2>1, <2>9, Converted DEF UncompressRow
    <3> QED
      BY <1>4, <2>1, <3>1, SeenSame
  <2>10. ASSUME NEW q \in Pcid, SetPcidFast(q)
         PROVE  Seen!SetPcid
    BY <1>4, <2>1, <2>10, SeenFast
  <2>11. ASSUME NEW q \in Pcid, NEW def \in Def, SetPcidByName(q, def)
         PROVE  Seen!SetPcid
    BY <1>4, <2>1, <2>11, SeenByName
  <2>12. ASSUME NEW q \in Pcid, NEW def \in Def, Transform(q, def)
         PROVE  Seen!Transform
    BY <1>4, <2>1, <2>12, SeenTransform
  <2> QED
    BY <1>1, <1>2, <1>3, <2>3, <2>4, <2>5, <2>6, <2>7, <2>8, <2>9, <2>10, <2>11, <2>12, Zenon
      DEF Next, Seen!Next
<1>5. CASE row = NULL
  BY <1>1, <1>2, <1>3, <1>5, Zenon
    DEF Next, UnionSelf, RangeRow, UncompressRow, SetPcidFast, SetPcidByName, Transform, Seen!Next
<1> QED
  BY <1>4, <1>5

(* Whatever the schemas, the encodings and the number of points, each call  *)
(* on a stored patch is a call of some SQL function on a plain sequence of  *)
(* points: form, encodings, bounds and statistics are not observable.       *)
THEOREM RowIsPoints ==
  ASSUME NullIsNoPatch
  PROVE  Spec => ImplementsPoints
<1>1. Init => Seen!Init
  BY Zenon DEF Init, Seen!Init
<1>2. RowInv /\ [Next]_vars => [Seen!Next]_(Seen!vars)
  BY SeenStep
<1> QED
  BY <1>1, <1>2, InvHolds, PTL DEF Spec, ImplementsPoints, Seen!Spec

-----------------------------------------------------------------------------
(* Order.  Where no dimension is run-length encoded, PC_IsSorted compares   *)
(* neighbouring points.                                                     *)
Shaped(pa) ==
  /\ pa.pcid \in Pcid
  /\ pa = Patch(pa.pcid, pa.form, pa.data, pa.npoints, pa.bounds, pa.stats)

Plain(pa) == pa.form = "dimensional" => \A d \in Dims(pa.pcid) : pa.data[d].enc # "rle"

NoRuns == row # NULL => Plain(row)

LEMMA GoodShaped ==
  ASSUME NEW pa, NEW p, NEW pts, Good(pa, p, pts)
  PROVE  Shaped(pa)
<1>1. pa.pcid = p /\ pa.npoints = Len(pts) /\ p \in Pcid
  BY GoodParts
<1>2. pa = Patch(p, pa.form, pa.data, Len(pts), pa.bounds, pa.stats)
  BY Zenon DEF Good
<1> QED
  BY <1>1, <1>2, Zenon DEF Shaped

LEMMA UncompressedPlain ==
  ASSUME NEW p \in Pcid, NEW pts, NEW bounds, NEW stats
  PROVE  Shaped(Uncompressed(p, pts, bounds, stats)) /\ Plain(Uncompressed(p, pts, bounds, stats))
BY DEF Uncompressed, Shaped, Patch, Plain

LEMMA ConvertedPlain ==
  ASSUME NEW pa, Shaped(pa)
  PROVE  /\ Shaped(ToUncompressed(pa)) /\ Plain(ToUncompressed(pa))
         /\ Shaped(ToLazperf(pa)) /\ Plain(ToLazperf(pa))
         /\ \A enc : (\A d \in Dims(pa.pcid) : enc[d] # "rle") => Plain(ToDimensional(pa, enc))
<1> DEFINE p == pa.pcid
           pts == Points(pa)
<1>1. \A form, data : [pa EXCEPT !.form = form, !.data = data]
                        = Patch(p, form, data, pa.npoints, pa.bounds, pa.stats)
  <2> TAKE form, data
  <2> DEFINE mid == [pa EXCEPT !.form = form]
  <2>1. mid = Patch(pa.pcid, form, pa.data, pa.npoints, pa.bounds, pa.stats)
    BY DEF Shaped, Patch
  <2>2. [pa EXCEPT !.form = form, !.data = data] = [mid EXCEPT !.data = data]
    OBVIOUS
  <2> HIDE DEF mid
  <2>3. [mid EXCEPT !.data = data] = Patch(pa.pcid, form, data, pa.npoints, pa.bounds, pa.stats)
    BY <2>1 DEF Patch
  <2> QED
    BY <2>2, <2>3
<1>2. p \in Pcid
  BY DEF Shaped
<1> HIDE DEF p, pts
<1>3. ToUncompressed(pa) = Patch(p, "none", pts, pa.npoints, pa.bounds, pa.stats)
  BY <1>1 DEF ToUncompressed, pts
<1>4. ToLazperf(pa) = Patch(p, "laz", pts, pa.npoints, pa.bounds, pa.stats)
  BY <1>1 DEF ToLazperf, pts
<1>5. ASSUME NEW enc, \A d \in Dims(p) : enc[d] # "rle" PROVE Plain(ToDimensional(pa, enc))
  <2> DEFINE data == [d \in Dims(p) |-> Column(enc[d], ColumnOf(d, pts))]
  <2>1. ToDimensional(pa, enc) = Patch(p, "dimensional", data, pa.npoints, pa.bounds, pa.stats)
    BY <1>1 DEF ToDimensional, p, pts
  <2>2. \A d \in Dims(p) : data[d].enc # "rle"
    BY <1>5 DEF Column
  <2> HIDE DEF data
  <2> QED
    BY <2>1, <2>2 DEF Plain, Patch
<1> QED
  BY <1>2, <1>3, <1>4, <1>5 DEF Shaped, Plain, Patch, p

LEMMA SerializedPlain ==
  ASSUME "rle" \notin Encodings, NEW pa, Shaped(pa), Plain(pa), NEW comp \in PatchForms,
         NEW new \in Serialized(pa, comp)
  PROVE  Plain(new)
<1>1. CASE pa.form = comp
  BY <1>1 DEF Serialized
<1>2. CASE pa.form # comp
  <2>1. \/ new = ToUncompressed(pa)
        \/ new = ToLazperf(pa)
        \/ \E enc \in [Dims(pa.pcid) -> Encodings] : new = ToDimensional(pa, enc)
    BY <1>2, Zenon DEF Serialized, PatchForms
  <2>2. \A enc \in [Dims(pa.pcid) -> Encodings] : \A d \in Dims(pa.pcid) : enc[d] # "rle"
    OBVIOUS
  <2> QED
    BY <2>1, <2>2, ConvertedPlain
<1> QED
  BY <1>1, <1>2

LEMMA StoredPlain ==
  ASSUME "rle" \notin Encodings, NEW pa, Shaped(pa), Plain(pa), NEW new \in Stored(pa)
  PROVE  Plain(new)
<1>1. Schema[pa.pcid].comp \in PatchForms
  BY SchemaIs DEF Shaped, PatchForms
<1> QED
  BY <1>1, SerializedPlain DEF Stored

LEMMA FilterPlain ==
  ASSUME NEW pa, NEW p, NEW pts, Good(pa, p, pts), pa.form = "dimensional", Plain(pa),
         NEW map, NEW n
  PROVE  Shaped(DimensionalFilter(pa, map, n)) /\ Plain(DimensionalFilter(pa, map, n))
<1> DEFINE kept == [d \in Dims(p) |-> ColumnFilter(pa.data[d], map)]
<1>1. p \in Pcid /\ pa.pcid = p /\ Shaped(pa)
  BY GoodParts, GoodShaped
<1>2. ASSUME NEW d \in Dims(p) PROVE kept[d].enc # "rle"
  <2>1. Represents(pa.data[d], ColumnOf(d, pts), Raw(p, d)) /\ pa.data[d].enc # "rle"
    BY <1>1 DEF Good, Holds, Plain
  <2> QED
    BY <2>1 DEF Represents, ColumnFilter
<1> DEFINE new == DimensionalFilter(pa, map, n)
<1>3. \E bounds, stats :
        new = [pa EXCEPT !.data = kept, !.npoints = n, !.bounds = bounds, !.stats = stats]
  BY <1>1, Zenon DEF DimensionalFilter
<1> HIDE DEF new, kept
<1>4. PICK bounds, stats :
        new = [pa EXCEPT !.data = kept, !.npoints = n, !.bounds = bounds, !.stats = stats]
  BY <1>3
<1>5. new = Patch(p, "dimensional", kept, n, bounds, stats)
  BY <1>1, <1>4 DEF Shaped, Patch
<1> QED
  BY <1>1, <1>2, <1>5 DEF Shaped, Plain, Patch, new

LEMMA WkbPlain ==
  ASSUME "rle" \notin Encodings, NEW p \in Pcid, NEW form \in WkbForms, NEW pts \in PointSeq(p),
         FromWkb(p, form, pts)
  PROVE  Plain(row')
<1> DEFINE c == Computed(p, pts)
<1>1. Shaped(c) /\ Plain(c) /\ c.pcid = p /\ Good(c, p, pts)
  BY UncompressedPlain, ComputedKeeps, GoodParts DEF Computed
<1>2. ASSUME NEW pa, Shaped(pa), NEW bounds
      PROVE  /\ Shaped([pa EXCEPT !.bounds = bounds])
             /\ Plain(pa) => Plain([pa EXCEPT !.bounds = bounds])
             /\ [pa EXCEPT !.bounds = bounds].pcid = pa.pcid
  BY <1>2 DEF Shaped, Plain, Patch
<1>3. CASE form = "none"
  <2>1. row' \in Stored(c)
    BY <1>3, Zenon DEF FromWkb, Store
  <2> HIDE DEF c
  <2> QED
    BY <1>1, <2>1, StoredPlain
<1>4. CASE form = "laz"
  <2> DEFINE z == [c EXCEPT !.bounds = Zero]
  <2>1. row' \in Stored(ToLazperf(z))
    <3>1. form # "none"
      BY <1>4
    <3> QED
      BY <1>4, <3>1, Zenon DEF FromWkb, Store
  <2>2. Shaped(z)
    BY <1>1, <1>2
  <2>3. Shaped(ToLazperf(z)) /\ Plain(ToLazperf(z))
    <3> HIDE DEF z, c
    <3> QED
      BY <2>2, ConvertedPlain
  <2> HIDE DEF z, c
  <2> QED
    BY <2>1, <2>3, StoredPlain
<1>5. CASE form = "dimensional"
  <2>1. PICK enc \in [Dims(p) -> Encodings \cup {"none"}] :
          LET pa == ToDimensional(c, enc)
          IN row' \in Stored([pa EXCEPT !.bounds = [d \in Planar |->
                          [min |-> Scaled(p, d, ColumnMin(pa.data[d])),
                           max |-> Scaled(p, d, ColumnMax(pa.data[d]))]]])
    <3>1. form # "none" /\ form # "laz"
      BY <1>5
    <3> QED
      BY <1>5, <3>1, Zenon DEF FromWkb, Store
  <2> DEFINE pa == ToDimensional(c, enc)
             bounds == [d \in Planar |-> [min |-> Scaled(p, d, ColumnMin(pa.data[d])),
                                          max |-> Scaled(p, d, ColumnMax(pa.data[d]))]]
  <2>2. row' \in Stored([pa EXCEPT !.bounds = bounds])
    BY <2>1, Zenon
  <2>3. \A d \in Dims(p) : enc[d] # "rle"
    OBVIOUS
  <2>4. Good(pa, p, pts)
    BY <1>1, Converted
  <2>5. Shaped(pa) /\ Plain(pa)
    <3> HIDE DEF c
    <3>1. Plain(pa)
      BY <1>1, <2>3, ConvertedPlain
    <3> QED
      BY <2>4, <3>1, GoodShaped
  <2> HIDE DEF pa, bounds, c
  <2>6. Shaped([pa EXCEPT !.bounds = bounds]) /\ Plain([pa EXCEPT !.bounds = bounds])
    BY <1>2, <2>5
  <2> QED
    BY <2>2, <2>6, StoredPlain
<1> QED
  BY <1>3, <1>4, <1>5, PatchAssumption

LEMMA SortPlain ==
  ASSUME "rle" \notin Encodings, NEW p, NEW pts, Good(row, p, pts), NEW keys, SortRow(keys)
  PROVE  Plain(row')
<1>0. Shaped(row)
  BY GoodShaped
<1>1. PICK s : row' \in Stored([ToUncompressed(row) EXCEPT !.data = s])
  BY Zenon DEF SortRow, Store
<1>2. Shaped(ToUncompressed(row)) /\ ToUncompressed(row).form = "none"
  BY <1>0, ConvertedPlain DEF ToUncompressed, Shaped, Patch
<1> DEFINE pa == ToUncompressed(row)
               new == [pa EXCEPT !.data = s]
<1> HIDE DEF pa
<1>3. Shaped(new) /\ Plain(new)
  BY <1>2 DEF Shaped, Plain, Patch, pa
<1> HIDE DEF new
<1> QED
  BY <1>1, <1>3, StoredPlain DEF new, pa

LEMMA NoRunsStep ==
  ASSUME "rle" \notin Encodings, RowInv, NoRuns, [Next]_vars, row' # NULL
  PROVE  Plain(row')
<1>0. ASSUME NEW p \in Pcid, NEW pts, NEW bounds, NEW stats,
             row' \in Stored(Uncompressed(p, pts, bounds, stats))
      PROVE  Plain(row')
  BY <1>0, UncompressedPlain, StoredPlain
<1>1. CASE UNCHANGED vars
  BY <1>1 DEF vars, NoRuns
<1>2. ASSUME NEW p \in Pcid, NEW pts, FromPoints(p, pts)
      PROVE  Plain(row')
  BY <1>0, <1>2 DEF FromPoints, Store, Computed
<1>3. ASSUME NEW p \in Pcid, NEW pts \in NewPoints(p), NEW form \in WkbForms, FromWkb(p, form, pts)
      PROVE  Plain(row')
  BY <1>3, NewPointsIn, WkbPlain
<1>4. CASE row # NULL
  <2>1. PICK p, pts : Good(row, p, pts)
    BY <1>4 DEF RowInv
  <2>2. row.pcid = p /\ p \in Pcid /\ Shaped(row) /\ Plain(row)
    BY <1>4, <2>1, GoodParts, GoodShaped DEF NoRuns
  <2>3. ASSUME NEW a, UnionPoint(a)
        PROVE  Plain(row')
    <3> DEFINE other == Computed(row.pcid, <<a>>)
    <3>1. row' \in Stored(UnionOf(row, other)) \/ row' \in Stored(UnionOf(other, row))
      BY <2>3, Zenon DEF UnionPoint, Store
    <3>2. other.pcid = p
      BY <2>2 DEF Computed, Uncompressed
    <3> HIDE DEF other
    <3> QED
      BY <1>0, <2>2, <3>1, <3>2 DEF UnionOf
  <2>4. CASE UnionSelf
    BY <1>0, <2>2, <2>4 DEF UnionSelf, UnionOf, Store
  <2>5. ASSUME NEW d \in Dims(row.pcid), NEW f, FilterRow(d, f)
        PROVE  Plain(row')
    <3>1. row' \in Filtered(row, d, f) /\ d \in Dims(p)
      BY <2>2, <2>5 DEF FilterRow
    <3> DEFINE map == PassMap(p, d, f, pts)
               kept == Marked(pts, map)
    <3>2. row' \in FilteredTo(row, p, d, f, map, kept)
      BY <2>1, <3>1, FilteredIs
    <3> HIDE DEF map, kept
    <3>3. row' \in Stored(IF row.form = "dimensional" THEN DimensionalFilter(row, map, Len(kept))
                                                      ELSE Computed(p, kept))
      BY <3>2 DEF FilteredTo
    <3>4. CASE row.form = "dimensional"
      <4>1. /\ Shaped(DimensionalFilter(row, map, Len(kept)))
            /\ Plain(DimensionalFilter(row, map, Len(kept)))
        BY <2>1, <2>2, <3>4, FilterPlain
      <4> QED
        BY <3>3, <3>4, <4>1, StoredPlain
    <3>5. CASE row.form # "dimensional"
      BY <1>0, <2>2, <3>3, <3>5 DEF Computed
    <3> QED
      BY <3>4, <3>5
  <2>6. ASSUME NEW first, NEW count, RangeRow(first, count)
        PROVE  Plain(row')
    <3>1. \/ row' \in Stored(row)
          \/ \E cut : row' \in Stored(Computed(p, cut))
      BY <2>2, <2>6, Zenon DEF RangeRow, Ranged
    <3> QED
      BY <1>0, <2>2, <3>1, StoredPlain DEF Computed
  <2>7. ASSUME NEW keys, SortRow(keys)
        PROVE  Plain(row')
    BY <2>1, <2>7, SortPlain
  <2>8. ASSUME NEW comp \in {Schema[row.pcid].comp, "dimensional", "laz"}, Compress(comp)
        PROVE  Plain(row')
    <3>1. comp \in PatchForms
      BY <2>2, SchemaIs DEF PatchForms
    <3> QED
      BY <2>2, <2>8, <3>1, ConvertedPlain, SerializedPlain DEF Compress
  <2>9. CASE UncompressRow
    BY <2>2, <2>9, ConvertedPlain DEF UncompressRow
  <2>10. ASSUME NEW q \in Pcid, SetPcidFast(q)
         PROVE  Plain(row')
    <3> DEFINE pa == [row EXCEPT !.pcid = q]
    <3>1. row' = pa \/ row' \in Stored(pa)
      BY <2>10, Zenon DEF SetPcidFast, Store
    <3>2. Dims(q) = Dims(p)
      BY <2>1, <2>2, <2>10, FastStands, SameDimensionsAre
    <3>3. pa = Patch(q, row.form, row.data, row.npoints, row.bounds, row.stats)
      BY <2>2 DEF Shaped, Patch
    <3> HIDE DEF pa
    <3>4. Shaped(pa) /\ Plain(pa)
      BY <2>2, <3>2, <3>3 DEF Shaped, Plain, Patch
    <3> QED
      BY <3>1, <3>4, StoredPlain
  <2>11. ASSUME NEW q \in Pcid, NEW def \in Def, SetPcidByName(q, def)
         PROVE  Plain(row')
    BY <1>0, <2>11, Zenon DEF SetPcidByName, Store
  <2>12. ASSUME NEW q \in Pcid, NEW def \in Def, Transform(q, def)
         PROVE  Plain(row')
    <3>1. \E pts2 : row' \in Stored(Computed(q, pts2))
      BY <2>12, Zenon DEF Transform, Store
    <3> QED
      BY <1>0, <3>1 DEF Computed
  <2> QED
    BY <1>1, <1>2, <1>3, <2>3, <2>4, <2>5, <2>6, <2>7, <2>8, <2>9, <2>10, <2>11, <2>12, Zenon DEF Next
<1>5. CASE row = NULL
  BY <1>1, <1>2, <1>3, <1>5, Zenon
    DEF Next, UnionSelf, RangeRow, UncompressRow, SetPcidFast, SetPcidByName, Transform
<1> QED
  BY <1>4, <1>5

LEMMA NoRunsHolds ==
  ASSUME "rle" \notin Encodings
  PROVE  Spec => []NoRuns
<1>1. Init => NoRuns
  BY DEF Init, NoRuns
<1>2. RowInv /\ NoRuns /\ [Next]_vars => NoRuns'
  <2> SUFFICES ASSUME RowInv, NoRuns, [Next]_vars PROVE NoRuns'
    OBVIOUS
  <2>1. NoRuns' <=> (row' # NULL => Plain(row'))
    BY Zenon DEF NoRuns, Plain
  <2> QED
    BY <2>1, NoRunsStep
<1> QED
  BY <1>1, <1>2, InvHolds, PTL DEF Spec

(* Of two points one precedes the other.                                    *)
LEMMA OneKey ==
  ASSUME NEW a, NEW b, NEW d, a[d] \in Int, b[d] \in Int
  PROVE  Precedes(a, b, <<d>>) <=> a[d] <= b[d]
BY DEF Precedes

LEMMA TwoKeys ==
  ASSUME NEW a, NEW b, NEW d, NEW e, a[d] \in Int, b[d] \in Int, a[e] \in Int, b[e] \in Int
  PROVE  Precedes(a, b, <<d, e>>) <=> a[d] <= b[d] /\ (a[d] = b[d] => a[e] <= b[e])
<1> DEFINE keys == <<d, e>>
           Upto2(k) == (\A j \in 1 .. k - 1 : a[keys[j]] = b[keys[j]]) => a[keys[k]] <= b[keys[k]]
<1>1. DOMAIN keys = {1, 2} /\ keys[1] = d /\ keys[2] = e
  OBVIOUS
<1>2. Precedes(a, b, keys) <=> \A k \in DOMAIN keys : Upto2(k)
  BY Zenon DEF Precedes
<1> HIDE DEF keys
<1>3. Upto2(1) <=> a[d] <= b[d]
  <2>1. 1 .. 1 - 1 = {}
    OBVIOUS
  <2> QED
    BY <1>1, <2>1
<1>4. Upto2(2) <=> (a[d] = b[d] => a[e] <= b[e])
  <2>1. 1 .. 2 - 1 = {1}
    OBVIOUS
  <2> QED
    BY <1>1, <2>1
<1> HIDE DEF Upto2
<1>5. Precedes(a, b, keys) <=> Upto2(1) /\ Upto2(2)
  BY <1>1, <1>2
<1> QED
  BY <1>3, <1>4, <1>5 DEF keys

LEMMA OneOrTheOther ==
  ASSUME NEW p \in Pcid, NEW keys \in SortKeys(p), NEW a, NEW b,
         \A d \in Dims(p) : a[d] \in Int /\ b[d] \in Int
  PROVE  Precedes(a, b, keys) \/ Precedes(b, a, keys)
<1>1. CASE \E d \in Dims(p) : keys = <<d>>
  <2>1. PICK d \in Dims(p) : keys = <<d>>
    BY <1>1
  <2>2. a[d] \in Int /\ b[d] \in Int
    OBVIOUS
  <2>3. /\ Precedes(a, b, <<d>>) <=> a[d] <= b[d]
        /\ Precedes(b, a, <<d>>) <=> b[d] <= a[d]
    BY <2>2, OneKey
  <2> QED
    BY <2>1, <2>2, <2>3
<1>2. CASE \E d, e \in Dims(p) : keys = <<d, e>>
  <2>1. PICK d, e \in Dims(p) : keys = <<d, e>>
    BY <1>2
  <2>2. a[d] \in Int /\ b[d] \in Int /\ a[e] \in Int /\ b[e] \in Int
    OBVIOUS
  <2>3. /\ Precedes(a, b, <<d, e>>) <=> a[d] <= b[d] /\ (a[d] = b[d] => a[e] <= b[e])
        /\ Precedes(b, a, <<d, e>>) <=> b[d] <= a[d] /\ (b[d] = a[d] => b[e] <= a[e])
    BY <2>2, TwoKeys
  <2> QED
    BY <2>1, <2>2, <2>3
<1> QED
  BY <1>1, <1>2 DEF SortKeys

LEMMA InOrderPairs ==
  ASSUME NEW p \in Pcid, NEW keys \in SortKeys(p), NEW pts \in Seq(PointOf(p)),
         NEW i \in 1 .. Len(pts) - 1
  PROVE  /\ Precedes(pts[i], pts[i + 1], keys) \/ Precedes(pts[i + 1], pts[i], keys)
         /\ Precedes(pts[i], pts[i + 1], keys) => Compare(pts[i], pts[i + 1], keys) < 1
         /\ Compare(pts[i], pts[i + 1], keys) < 1 => Precedes(pts[i], pts[i + 1], keys)
         /\ Compare(pts[i], pts[i + 1], keys) < 0 => ~Precedes(pts[i + 1], pts[i], keys)
<1>1. i \in 1 .. Len(pts) /\ i + 1 \in 1 .. Len(pts)
  OBVIOUS
<1>2. \A d \in Dims(p) : pts[i][d] \in Int /\ pts[i + 1][d] \in Int
  BY <1>1, PointsIn
<1> DEFINE a == pts[i]
           b == pts[i + 1]
<1> HIDE DEF a, b
<1>3. Precedes(a, b, keys) \/ Precedes(b, a, keys)
  BY <1>2, OneOrTheOther DEF a, b
<1>4. Compare(a, b, keys) = IF ~Precedes(b, a, keys) THEN -1 ELSE IF Precedes(a, b, keys) THEN 0 ELSE 1
  BY Zenon DEF Compare
<1>5. /\ Precedes(a, b, keys) => Compare(a, b, keys) < 1
      /\ Compare(a, b, keys) < 1 => Precedes(a, b, keys)
      /\ Compare(a, b, keys) < 0 => ~Precedes(b, a, keys)
  BY <1>3, <1>4
<1> QED
  BY <1>3, <1>5 DEF a, b

(* A patch without runs is scanned point by point.                          *)
LEMMA ScanIs ==
  ASSUME NEW pa, NEW p, NEW pts, Good(pa, p, pts), Plain(pa), NEW keys \in SortKeys(p), NEW strict
  PROVE  PatchIsSorted(pa, keys, strict) = UncompressedIsSorted(pts, keys, strict)
<1>1. pa.pcid = p /\ Points(pa) = pts
  BY GoodParts, GoodPoints
<1>2. Len(keys) = 1 => keys[1] \in Dims(p)
  BY DEF SortKeys
<1>3. ~(pa.form = "dimensional" /\ Len(keys) = 1 /\ pa.data[keys[1]].enc = "rle")
  BY <1>1, <1>2 DEF Plain
<1> QED
  BY <1>1, <1>3, Zenon DEF PatchIsSorted

(* Without run-length encoding, what PC_Sort returns is sorted for          *)
(* PC_IsSorted, whatever form the result is stored in.                      *)
THEOREM SortGivesSorted ==
  ASSUME "rle" \notin Encodings
  PROVE  Spec => SortedAfterSort
<1> DEFINE A == \A keys \in (IF row = NULL THEN {} ELSE SortKeys(row.pcid)) :
                  SortRow(keys) => PatchIsSorted(row', keys, 1)
<1>1. RowInv => [A]_row
  <2> SUFFICES ASSUME RowInv, row # NULL, NEW keys \in SortKeys(row.pcid), SortRow(keys)
               PROVE  PatchIsSorted(row', keys, 1)
    OBVIOUS
  <2>1. PICK p, pts : Good(row, p, pts)
    BY DEF RowInv
  <2>2. p \in Pcid /\ row.pcid = p
    BY <2>1, GoodParts
  <2>3. PICK s \in Sortings(pts, keys) : Good(row', p, s)
    BY <2>1, SortRowStands
  <2>4. s \in Seq(PointOf(p)) /\ Len(s) \in Nat
    BY <2>3, GoodParts
  <2>5. \A i \in 1 .. Len(s) - 1 : Compare(s[i], s[i + 1], keys) < 1
    <3>1. \A i \in 1 .. Len(s) - 1 : Precedes(s[i], s[i + 1], keys)
      BY <2>3, Zenon DEF Sortings
    <3> QED
      BY <2>2, <2>4, <3>1, InOrderPairs
  <2>6. Plain(row')
    BY <2>1, SortPlain
  <2> QED
    BY <2>2, <2>3, <2>5, <2>6, ScanIs DEF UncompressedIsSorted
<1> QED
  BY <1>1, InvHolds, PTL DEF SortedAfterSort

-----------------------------------------------------------------------------
(* Order.  Below is the order that the scan of PC_IsSorted asks of          *)
(* neighbours: with equal ones (strict = 1) or without.                     *)
Below(a, b, keys, strict) ==
  IF strict = 1 THEN Precedes(a, b, keys) ELSE ~Precedes(b, a, keys)

LEMMA ScanBelow ==
  ASSUME NEW p \in Pcid, NEW keys \in SortKeys(p), NEW pts \in Seq(PointOf(p)), NEW strict \in {0, 1}
  PROVE  UncompressedIsSorted(pts, keys, strict) <=>
           \A i \in 1 .. Len(pts) - 1 : Below(pts[i], pts[i + 1], keys, strict)
<1>1. ASSUME NEW i \in 1 .. Len(pts) - 1
      PROVE  Compare(pts[i], pts[i + 1], keys) < strict <=> Below(pts[i], pts[i + 1], keys, strict)
  <2>1. i \in 1 .. Len(pts) /\ i + 1 \in 1 .. Len(pts)
    BY PointsIn
  <2>2. \A d \in Dims(p) : pts[i][d] \in Int /\ pts[i + 1][d] \in Int
    BY <2>1, PointsIn
  <2> DEFINE a == pts[i]
             b == pts[i + 1]
  <2> HIDE DEF a, b
  <2>3. Precedes(a, b, keys) \/ Precedes(b, a, keys)
    BY <2>2, OneOrTheOther DEF a, b
  <2>4. Compare(a, b, keys) = IF ~Precedes(b, a, keys) THEN -1 ELSE IF Precedes(a, b, keys) THEN 0 ELSE 1
    BY Zenon DEF Compare
  <2>5. Compare(a, b, keys) < strict <=> Below(a, b, keys, strict)
    BY <2>3, <2>4 DEF Below
  <2> QED
    BY <2>5 DEF a, b
<1> QED
  BY <1>1, Zenon DEF UncompressedIsSorted

LEMMA BelowChains ==
  ASSUME NEW p \in Pcid, NEW keys \in SortKeys(p), NEW a, NEW b, NEW c, NEW strict,
         \A d \in Dims(p) : a[d] \in Int /\ b[d] \in Int /\ c[d] \in Int,
         Below(a, b, keys, strict), Below(b, c, keys, strict)
  PROVE  Below(a, c, keys, strict)
<1>1. CASE \E d \in Dims(p) : keys = <<d>>
  <2>1. PICK d \in Dims(p) : keys = <<d>>
    BY <1>1
  <2>2. a[d] \in Int /\ b[d] \in Int /\ c[d] \in Int
    OBVIOUS
  <2>3. /\ Precedes(a, b, keys) <=> a[d] <= b[d]
        /\ Precedes(b, a, keys) <=> b[d] <= a[d]
        /\ Precedes(b, c, keys) <=> b[d] <= c[d]
        /\ Precedes(c, b, keys) <=> c[d] <= b[d]
        /\ Precedes(a, c, keys) <=> a[d] <= c[d]
        /\ Precedes(c, a, keys) <=> c[d] <= a[d]
    BY <2>1, <2>2, OneKey
  <2> QED
    BY <2>2, <2>3 DEF Below
<1>2. CASE \E d, e \in Dims(p) : keys = <<d, e>>
  <2>1. PICK d, e \in Dims(p) : keys = <<d, e>>
    BY <1>2
  <2>2. /\ a[d] \in Int /\ b[d] \in Int /\ c[d] \in Int
        /\ a[e] \in Int /\ b[e] \in Int /\ c[e] \in Int
    OBVIOUS
  <2>3. /\ Precedes(a, b, keys) <=> a[d] <= b[d] /\ (a[d] = b[d] => a[e] <= b[e])
        /\ Precedes(b, a, keys) <=> b[d] <= a[d] /\ (b[d] = a[d] => b[e] <= a[e])
        /\ Precedes(b, c, keys) <=> b[d] <= c[d] /\ (b[d] = c[d] => b[e] <= c[e])
        /\ Precedes(c, b, keys) <=> c[d] <= b[d] /\ (c[d] = b[d] => c[e] <= b[e])
        /\ Precedes(a, c, keys) <=> a[d] <= c[d] /\ (a[d] = c[d] => a[e] <= c[e])
        /\ Precedes(c, a, keys) <=> c[d] <= a[d] /\ (c[d] = a[d] => c[e] <= a[e])
    BY <2>1, <2>2, TwoKeys
  <2> QED
    BY <2>2, <2>3 DEF Below
<1> QED
  BY <1>1, <1>2 DEF SortKeys

(* In order from neighbour to neighbour is in order throughout.             *)
LEMMA BelowThroughout ==
  ASSUME NEW p \in Pcid, NEW keys \in SortKeys(p), NEW pts \in Seq(PointOf(p)), NEW strict \in {0, 1},
         UncompressedIsSorted(pts, keys, strict), NEW i \in 1 .. Len(pts), NEW j \in i + 1 .. Len(pts)
  PROVE  Below(pts[i], pts[j], keys, strict)
<1> DEFINE m == Len(pts)
           K == {k \in 0 .. m : k > i => Below(pts[i], pts[k], keys, strict)}
<1>1. /\ m \in Nat /\ \A k \in 1 .. m, d \in Dims(p) : pts[k][d] \in Int
      /\ \A k \in 1 .. m - 1 : Below(pts[k], pts[k + 1], keys, strict)
  BY PointsIn, ScanBelow
<1> HIDE DEF m
<1>2. 0 \in K
  BY <1>1 DEF m
<1>3. ASSUME NEW k \in 1 .. m, k - 1 \in K PROVE k \in K
  <2>1. CASE k <= i
    BY <1>1, <2>1 DEF m
  <2>2. CASE k = i + 1
    BY <1>1, <2>2 DEF m
  <2>3. CASE k > i + 1
    <3>1. Below(pts[i], pts[k - 1], keys, strict) /\ k - 1 \in 1 .. m - 1 /\ (k - 1) + 1 = k
      BY <1>1, <1>3, <2>3 DEF m
    <3>2. Below(pts[k - 1], pts[k], keys, strict)
      BY <1>1, <3>1
    <3>3. \A d \in Dims(p) : pts[i][d] \in Int /\ pts[k - 1][d] \in Int /\ pts[k][d] \in Int
      BY <1>1, <3>1 DEF m
    <3>4. Below(pts[i], pts[k], keys, strict)
      BY <3>1, <3>2, <3>3, BelowChains
    <3> QED
      BY <3>4
  <2> QED
    BY <1>1, <2>1, <2>2, <2>3 DEF m
<1> HIDE DEF K
<1>4. \A k \in 0 .. m : k \in K
  BY <1>1, <1>2, <1>3, UpTo
<1> QED
  BY <1>1, <1>4 DEF K, m

(* Points picked from a sequence without changing their order: neighbours   *)
(* stand in the same order in it.                                           *)
Picked(new, pts, upto) ==
  /\ \A i \in 1 .. Len(new) - 1 : \E k \in 1 .. upto, l \in 1 .. upto :
       k < l /\ new[i] = pts[k] /\ new[i + 1] = pts[l]
  /\ Len(new) > 0 => \E k \in 1 .. upto : new[Len(new)] = pts[k]

LEMMA PickedSorted ==
  ASSUME NEW p \in Pcid, NEW keys \in SortKeys(p), NEW pts \in Seq(PointOf(p)), NEW new \in Seq(PointOf(p)),
         NEW strict \in {0, 1}, UncompressedIsSorted(pts, keys, strict), Picked(new, pts, Len(pts))
  PROVE  UncompressedIsSorted(new, keys, strict)
<1>1. ASSUME NEW i \in 1 .. Len(new) - 1
      PROVE  Below(new[i], new[i + 1], keys, strict)
  <2>1. PICK k \in 1 .. Len(pts), l \in 1 .. Len(pts) : k < l /\ new[i] = pts[k] /\ new[i + 1] = pts[l]
    BY Zenon DEF Picked
  <2>2. Len(pts) \in Nat
    OBVIOUS
  <2>3. l \in k + 1 .. Len(pts)
    BY <2>1, <2>2
  <2> QED
    BY <2>1, <2>3, BelowThroughout
<1> QED
  BY <1>1, ScanBelow

LEMMA MarkedPicked ==
  ASSUME NEW S, NEW seq \in Seq(S), NEW map
  PROVE  Picked(Marked(seq, map), seq, Len(seq))
<1> DEFINE m == Len(seq)
<1>1. PICK G : MarkedSteps(G, S, seq, map)
  BY MarkedFold
<1>2. /\ m \in Nat /\ G[0] = <<>> /\ G[m] = Marked(seq, map)
      /\ \A k \in 0 .. m : G[k] \in Seq(S)
      /\ \A k \in 1 .. m : seq[k] \in S
  BY <1>1 DEF MarkedSteps
<1>3. \A k \in 1 .. m : G[k] = IF map[k] THEN Append(G[k - 1], seq[k]) ELSE G[k - 1]
  BY <1>1, Zenon DEF MarkedSteps, Kept
<1> DEFINE K == {k \in 0 .. m : Picked(G[k], seq, k)}
<1> HIDE DEF m
<1>4. 0 \in K
  BY <1>2 DEF Picked
<1>5. ASSUME NEW k \in 1 .. m, k - 1 \in K PROVE k \in K
  <2> DEFINE g == G[k - 1]
             n == Len(g)
  <2>1. Picked(g, seq, k - 1) /\ g \in Seq(S) /\ n \in Nat /\ k - 1 \in Nat /\ seq[k] \in S
    BY <1>2, <1>5
  <2> HIDE DEF g
  <2>2. Picked(g, seq, k)
    <3>1. 1 .. k - 1 \subseteq 1 .. k
      BY <2>1
    <3> QED
      BY <2>1, <3>1 DEF Picked
  <2>3. Picked(Append(g, seq[k]), seq, k)
    <3> DEFINE h == Append(g, seq[k])
    <3>1. /\ Len(h) = n + 1 /\ h[n + 1] = seq[k]
          /\ \A i \in 1 .. n : h[i] = g[i]
      BY <2>1
    <3> HIDE DEF h, n
    <3>2. ASSUME NEW i \in 1 .. Len(h) - 1
          PROVE  \E a \in 1 .. k, l \in 1 .. k : a < l /\ h[i] = seq[a] /\ h[i + 1] = seq[l]
      <4>1. CASE i = n
        <5>1. PICK a \in 1 .. k - 1 : g[n] = seq[a]
          BY <2>1, <3>1, <4>1 DEF Picked, n
        <5>2. a \in 1 .. k /\ k \in 1 .. k /\ a < k /\ h[i] = seq[a] /\ h[i + 1] = seq[k]
          BY <2>1, <3>1, <3>2, <4>1, <5>1
        <5> QED
          BY <5>2
      <4>2. CASE i # n
        <5>1. i \in 1 .. n - 1 /\ i \in 1 .. n /\ i + 1 \in 1 .. n
          BY <2>1, <3>1, <3>2, <4>2
        <5>2. PICK a \in 1 .. k, l \in 1 .. k : a < l /\ g[i] = seq[a] /\ g[i + 1] = seq[l]
          BY <2>2, <5>1, Zenon DEF Picked, n
        <5> QED
          BY <3>1, <5>1, <5>2, Zenon
      <4> QED
        BY <4>1, <4>2
    <3>3. k \in 1 .. k /\ h[Len(h)] = seq[k]
      BY <2>1, <3>1
    <3>4. Picked(h, seq, k)
      BY <3>2, <3>3, Zenon DEF Picked
    <3> QED
      BY <3>4 DEF h
  <2> QED
    BY <1>3, <1>5, <2>2, <2>3 DEF g
<1> HIDE DEF K
<1>6. \A k \in 0 .. m : k \in K
  BY <1>2, <1>4, <1>5, UpTo
<1>7. m \in K
  BY <1>2, <1>6
<1> QED
  BY <1>2, <1>7 DEF K, m

LEMMA SlicePicked ==
  ASSUME NEW S, NEW seq \in Seq(S), NEW first \in Nat \ {0}, NEW n \in Nat \ {0}, first + n - 1 <= Len(seq)
  PROVE  Picked(SubSeq(seq, first, first + n - 1), seq, Len(seq))
<1> DEFINE new == SubSeq(seq, first, first + n - 1)
           m == Len(seq)
<1>1. m \in Nat /\ Len(new) = n /\ \A i \in 1 .. n : new[i] = seq[first + i - 1]
  OBVIOUS
<1> HIDE DEF new, m
<1>2. ASSUME NEW i \in 1 .. Len(new) - 1
      PROVE  \E k \in 1 .. m, l \in 1 .. m : k < l /\ new[i] = seq[k] /\ new[i + 1] = seq[l]
  <2> DEFINE k == first + i - 1
             l == first + (i + 1) - 1
  <2>1. k \in 1 .. m /\ l \in 1 .. m /\ k < l /\ new[i] = seq[k] /\ new[i + 1] = seq[l]
    BY <1>1, <1>2 DEF m
  <2> HIDE DEF k, l
  <2> QED
    BY <2>1
<1>3. first + n - 1 \in 1 .. m /\ new[Len(new)] = seq[first + n - 1]
  BY <1>1 DEF m
<1>4. Picked(new, seq, m)
  BY <1>2, <1>3 DEF Picked
<1> QED
  BY <1>4 DEF new, m

(* The order of two points is that of their values along the keys.          *)
LEMMA PrecedesAlike ==
  ASSUME NEW keys, \A k \in DOMAIN keys : \A j \in 1 .. k - 1 : j \in DOMAIN keys,
         NEW a, NEW b, NEW c, NEW d,
         \A k \in DOMAIN keys : c[keys[k]] = a[keys[k]] /\ d[keys[k]] = b[keys[k]]
  PROVE  Precedes(c, d, keys) <=> Precedes(a, b, keys)
<1>1. ASSUME NEW k \in DOMAIN keys
      PROVE  ((\A j \in 1 .. k - 1 : c[keys[j]] = d[keys[j]]) => c[keys[k]] <= d[keys[k]])
             <=> ((\A j \in 1 .. k - 1 : a[keys[j]] = b[keys[j]]) => a[keys[k]] <= b[keys[k]])
  <2>1. \A j \in 1 .. k - 1 : c[keys[j]] = a[keys[j]] /\ d[keys[j]] = b[keys[j]]
    OBVIOUS
  <2>2. c[keys[k]] = a[keys[k]] /\ d[keys[k]] = b[keys[k]]
    OBVIOUS
  <2>3. (\A j \in 1 .. k - 1 : c[keys[j]] = d[keys[j]]) <=> (\A j \in 1 .. k - 1 : a[keys[j]] = b[keys[j]])
    BY <2>1
  <2>4. c[keys[k]] <= d[keys[k]] <=> a[keys[k]] <= b[keys[k]]
    BY <2>2
  <2> QED
    BY <2>3, <2>4
<1> QED
  BY <1>1, Zenon DEF Precedes

(* PC_SetPCId by name leaves the raw values along the keys.                 *)
LEMMA RenamedSorted ==
  ASSUME NEW p \in Pcid, NEW q \in Pcid, SharedDimsAgree(p, q), NEW pts \in PointSeq(p), NEW def \in Int,
         NEW keys \in SortKeys(p), keys \in SortKeys(q), NEW strict \in {0, 1},
         UncompressedIsSorted(pts, keys, strict)
  PROVE  UncompressedIsSorted(RenamedAll(pts, p, q, def), keys, strict)
<1> DEFINE new == RenamedAll(pts, p, q, def)
           m == Len(pts)
<1>1. /\ pts \in Seq(PointOf(p)) /\ m \in Nat /\ \A i \in 1 .. m : pts[i] \in PointOf(p)
      /\ \A i \in 1 .. m, d \in Dims(p) : pts[i][d] \in Int
  BY PointsIn DEF PointSeq
<1>2. new \in Seq(PointOf(q)) /\ Len(new) = m /\ \A i \in 1 .. m : new[i] = Renamed(pts[i], p, q, def)
  BY RenamedPoints DEF PointSeq, RenamedAll
<1> HIDE DEF new, m
<1>3. ASSUME NEW i \in 1 .. m, NEW d \in Dims(p) \cap Dims(q) PROVE new[i][d] = pts[i][d]
  BY <1>1, <1>2, <1>3, RenamedIn
<1>4. ASSUME NEW i \in 1 .. m - 1
      PROVE  Below(new[i], new[i + 1], keys, strict)
  <2>1. i \in 1 .. m /\ i + 1 \in 1 .. m
    BY <1>1
  <2>2. Below(pts[i], pts[i + 1], keys, strict)
    BY <1>1, ScanBelow DEF m
  <2>3. \A k \in DOMAIN keys : keys[k] \in Dims(p) \cap Dims(q)
    BY DEF SortKeys
  <2>4. \A k \in DOMAIN keys : new[i][keys[k]] = pts[i][keys[k]] /\ new[i + 1][keys[k]] = pts[i + 1][keys[k]]
    BY <1>3, <2>1, <2>3
  <2>5. \A k \in DOMAIN keys : \A j \in 1 .. k - 1 : j \in DOMAIN keys
    BY DEF SortKeys
  <2>6. /\ Precedes(new[i], new[i + 1], keys) <=> Precedes(pts[i], pts[i + 1], keys)
        /\ Precedes(new[i + 1], new[i], keys) <=> Precedes(pts[i + 1], pts[i], keys)
    BY <2>4, <2>5, PrecedesAlike, Zenon
  <2> QED
    BY <2>2, <2>6, Zenon DEF Below
<1>5. UncompressedIsSorted(new, keys, strict)
  BY <1>2, <1>4, ScanBelow
<1> QED
  BY <1>5 DEF new

(* Rounding and clamping never turn two values around.                      *)
LEMMA DivKeepsOrder ==
  ASSUME NEW a \in Int, NEW b \in Int, NEW m \in Nat \ {0}, a <= b
  PROVE  a \div m <= b \div m
<1> DEFINE q == a \div m
           r == b \div m
<1>1. q \in Int /\ r \in Int /\ q * m <= a /\ b < (r + 1) * m
  OBVIOUS
<1> HIDE DEF q, r
<1>2. SUFFICES ASSUME q > r PROVE FALSE
  BY <1>1 DEF q, r
<1>3. (q - (r + 1)) * m >= 0
  BY <1>1, <1>2
<1>4. (q - (r + 1)) * m = q * m - (r + 1) * m /\ q * m \in Int /\ (r + 1) * m \in Int
  BY <1>1
<1> QED
  BY <1>1, <1>3, <1>4

LEMMA LroundKeepsOrder ==
  ASSUME NEW a \in Int, NEW b \in Int, NEW den \in Nat \ {0}, a <= b
  PROVE  Lround(a, den) <= Lround(b, den)
<1> DEFINE Up(x) == (2 * x + den) \div (2 * den)
           Down(x) == (den - 2 * x) \div (2 * den)
<1>1. 2 * den \in Nat \ {0} /\ 0 \div (2 * den) = 0
  OBVIOUS
<1>2. /\ 2 * a + den \in Int /\ 2 * b + den \in Int /\ den - 2 * a \in Int /\ den - 2 * b \in Int
      /\ 2 * a + den <= 2 * b + den /\ den - 2 * b <= den - 2 * a
  OBVIOUS
<1>3. Up(a) <= Up(b) /\ Down(b) <= Down(a)
  BY <1>1, <1>2, DivKeepsOrder
<1>4. (b >= 0 => 0 <= Up(b)) /\ (a < 0 => 0 <= Down(a))
  <2>1. /\ b >= 0 => 0 \div (2 * den) <= (2 * b + den) \div (2 * den)
        /\ a < 0 => 0 \div (2 * den) <= (den - 2 * a) \div (2 * den)
    <3>1. (b >= 0 => 0 <= 2 * b + den) /\ (a < 0 => 0 <= den - 2 * a)
      OBVIOUS
    <3> QED
      BY <1>1, <1>2, <3>1, DivKeepsOrder
  <2> QED
    BY <1>1, <2>1
<1>5. Up(a) \in Int /\ Up(b) \in Int /\ Down(a) \in Int /\ Down(b) \in Int
  BY <1>1, <1>2
<1>6. /\ Lround(a, den) = IF a >= 0 THEN Up(a) ELSE -Down(a)
      /\ Lround(b, den) = IF b >= 0 THEN Up(b) ELSE -Down(b)
  BY DEF Lround
<1> HIDE DEF Up, Down
<1> QED
  BY <1>3, <1>4, <1>5, <1>6

LEMMA RawOfKeepsOrder ==
  ASSUME NEW p \in Pcid, NEW d \in Dims(p), NEW v \in Int, NEW w \in Int, v <= w
  PROVE  RawOf(p, d, v, 1) <= RawOf(p, d, w, 1)
<1> DEFINE o == Schema[p].offset[d]
           s == Schema[p].scale[d]
           t == Schema[p].interp[d]
<1>1. s \in Nat \ {0} /\ o \in Int /\ t.min \in Int /\ t.max \in Nat /\ t.min <= 0
  BY DimensionIs
<1>2. RawOf(p, d, v, 1) = Clamp(Lround(v - o * 1, s * 1), t) /\ RawOf(p, d, w, 1) = Clamp(Lround(w - o * 1, s * 1), t)
  BY Zenon DEF RawOf
<1> HIDE DEF o, s, t
<1>3. o * 1 = o /\ s * 1 = s /\ v - o \in Int /\ w - o \in Int /\ v - o <= w - o
  BY <1>1
<1> DEFINE x == Lround(v - o, s)
           y == Lround(w - o, s)
<1>4. x \in Int /\ y \in Int /\ x <= y
  BY <1>1, <1>3, LroundIn, LroundKeepsOrder
<1>5. RawOf(p, d, v, 1) = Clamp(x, t) /\ RawOf(p, d, w, 1) = Clamp(y, t)
  BY <1>2, <1>3
<1> HIDE DEF x, y
<1>6. Clamp(x, t) <= Clamp(y, t)
  BY <1>1, <1>4 DEF Clamp
<1> QED
  BY <1>5, <1>6

LEMMA TransformedSorted ==
  ASSUME NEW p \in Pcid, NEW q \in Pcid, NEW pts \in PointSeq(p), NEW def \in Int,
         NEW d \in Dims(p), d \in Dims(q), UncompressedIsSorted(pts, <<d>>, 1)
  PROVE  UncompressedIsSorted(TransformedAll(pts, p, q, def), <<d>>, 1)
<1> DEFINE new == TransformedAll(pts, p, q, def)
           m == Len(pts)
<1>1. /\ pts \in Seq(PointOf(p)) /\ m \in Nat
      /\ \A i \in 1 .. m : pts[i][d] \in Int
  BY PointsIn DEF PointSeq
<1>2. new \in Seq(PointOf(q)) /\ Len(new) = m
  <2>1. new \in PointSeq(q)
    BY TransformedPoints
  <2>2. DOMAIN new = 1 .. m
    BY DEF TransformedAll
  <2> HIDE DEF new, m
  <2> QED
    BY <1>1, <2>1, <2>2 DEF PointSeq
<1>3. ASSUME NEW i \in 1 .. m PROVE new[i][d] = RawOf(q, d, Scaled(p, d, pts[i][d]), 1)
  BY <1>3 DEF TransformedAll, Transformed
<1> HIDE DEF new, m
<1>4. <<d>> \in SortKeys(p) /\ <<d>> \in SortKeys(q)
  BY DEF SortKeys
<1>5. ASSUME NEW i \in 1 .. m - 1
      PROVE  Below(new[i], new[i + 1], <<d>>, 1)
  <2>1. i \in 1 .. m /\ i + 1 \in 1 .. m
    BY <1>1
  <2>2. Below(pts[i], pts[i + 1], <<d>>, 1)
    BY <1>1, <1>4, ScanBelow DEF m
  <2>3. pts[i][d] \in Int /\ pts[i + 1][d] \in Int /\ pts[i][d] <= pts[i + 1][d]
    BY <1>1, <2>1, <2>2, OneKey DEF Below
  <2>4. /\ Scaled(p, d, pts[i][d]) \in Int /\ Scaled(p, d, pts[i + 1][d]) \in Int
        /\ Scaled(p, d, pts[i][d]) <= Scaled(p, d, pts[i + 1][d])
    BY <2>3, ScaledKeepsOrder
  <2>5. new[i][d] <= new[i + 1][d]
    BY <1>3, <2>1, <2>4, RawOfKeepsOrder
  <2>6. new[i][d] \in Int /\ new[i + 1][d] \in Int
    BY <1>2, <2>1, PointsIn
  <2> QED
    BY <2>5, <2>6, OneKey DEF Below
<1>6. UncompressedIsSorted(new, <<d>>, 1)
  BY <1>2, <1>4, <1>5, ScanBelow
<1> QED
  BY <1>6 DEF new

(* What a step other than PC_Sort makes of a patch in order.                *)
Ordered(pa, keys, strict) == UncompressedIsSorted(Points(pa), keys, strict)

LEMMA OrderedIs ==
  ASSUME NEW pa, NEW p, NEW pts, Good(pa, p, pts), NEW keys, NEW strict
  PROVE  Ordered(pa, keys, strict) <=> UncompressedIsSorted(pts, keys, strict)
  BY GoodPoints DEF Ordered

(* Excused: the step is a PC_Sort, or a PC_Transform that may leave the     *)
(* order of the keys asked.                                                 *)
Excused(keys, strict) ==
  \/ \E other \in SortKeys(row.pcid) : SortRow(other)
  \/ /\ strict = 0 \/ Len(keys) = 2
     /\ \E q \in Pcid, def \in Def : Transform(q, def)

LEMMA OrderKept ==
  ASSUME NEW p, NEW pts, Good(row, p, pts), row # NULL, row' # NULL, row'.npoints <= row.npoints, Next,
         NEW keys \in SortKeys(p), keys \in SortKeys(row'.pcid), NEW strict \in {0, 1},
         UncompressedIsSorted(pts, keys, strict)
  PROVE  Excused(keys, strict) \/ Ordered(row', keys, strict)
<1> DEFINE Fine == Excused(keys, strict) \/ Ordered(row', keys, strict)
<1>1. /\ p \in Pcid /\ row.pcid = p /\ pts \in PointSeq(p) /\ pts \in Seq(PointOf(p))
      /\ Len(pts) \in Nat \ {0} /\ row.npoints = Len(pts)
  BY GoodParts
<1>2. ASSUME NEW new, Good(row', p, new), Picked(new, pts, Len(pts))
      PROVE  Fine
  <2>1. new \in Seq(PointOf(p))
    BY <1>2, GoodParts
  <2>2. UncompressedIsSorted(new, keys, strict)
    BY <1>1, <1>2, <2>1, PickedSorted
  <2> QED
    BY <1>2, <2>2, OrderedIs
<1>3. ASSUME NEW q, Good(row', q, pts)
      PROVE  Fine
  BY <1>3, OrderedIs
<1>4. ASSUME NEW a \in NewPoint(row.pcid), UnionPoint(a)
      PROVE  FALSE
  <2>1. a \in PointOf(p)
    BY <1>1, <1>4 DEF NewPoint
  <2>2. Good(row', p, pts \o <<a>>) \/ Good(row', p, <<a>> \o pts)
    BY <1>4, <2>1, UnionPointStands
  <2>3. Len(pts \o <<a>>) = Len(pts) + 1 /\ Len(<<a>> \o pts) = Len(pts) + 1
    BY <1>1, <2>1
  <2>4. row'.npoints = Len(pts) + 1
    BY <2>2, <2>3, GoodParts
  <2> QED
    BY <1>1, <2>4
<1>5. CASE UnionSelf
  <2>1. Good(row', p, pts \o pts)
    BY <1>5, UnionSelfStands
  <2>2. row'.npoints = Len(pts) + Len(pts)
    <3>1. Len(pts \o pts) = Len(pts) + Len(pts)
      BY <1>1
    <3> QED
      BY <2>1, <3>1, GoodParts
  <2> QED
    BY <1>1, <2>2
<1>6. ASSUME NEW d \in Dims(row.pcid), NEW f, FilterRow(d, f)
      PROVE  Fine
  <2>1. row' \in Filtered(row, d, f) /\ d \in Dims(p)
    BY <1>1, <1>6 DEF FilterRow
  <2>2. Good(row', p, Marked(pts, PassMap(p, d, f, pts)))
    BY <2>1, FilterStands
  <2>3. Picked(Marked(pts, PassMap(p, d, f, pts)), pts, Len(pts))
    BY <1>1, MarkedPicked
  <2> QED
    BY <1>2, <2>2, <2>3
<1>7. ASSUME NEW first \in Int, NEW count \in Int, RangeRow(first, count)
      PROVE  Fine
  <2> DEFINE n == Min({count, Len(pts) - (first - 1)})
  <2>1. first >= 1 /\ n >= 1 /\ Good(row', p, SubSeq(pts, first, first + n - 1))
    BY <1>7, RangeStands DEF RangeRow
  <2>2. n \in Int /\ n <= Len(pts) - (first - 1)
    <3>1. count \in Int /\ Len(pts) - (first - 1) \in Int
      BY <1>1, <1>7
    <3> QED
      BY <3>1, MinTwo
  <2> HIDE DEF n
  <2>3. first \in Nat \ {0} /\ n \in Nat \ {0} /\ first + n - 1 <= Len(pts)
    BY <1>1, <1>7, <2>1, <2>2
  <2>4. Picked(SubSeq(pts, first, first + n - 1), pts, Len(pts))
    BY <1>1, <2>3, SlicePicked
  <2> QED
    BY <1>2, <2>1, <2>4
<1>8. ASSUME NEW comp \in {Schema[row.pcid].comp, "dimensional", "laz"}, Compress(comp)
      PROVE  Fine
  <2>1. comp \in PatchForms
    BY <1>1, SchemaIs DEF PatchForms
  <2> QED
    BY <1>3, <1>8, <2>1, CompressStands
<1>9. CASE UncompressRow
  BY <1>3, <1>9, Converted DEF UncompressRow
<1>10. ASSUME NEW q \in Pcid, SetPcidFast(q)
       PROVE  Fine
  BY <1>3, <1>10, FastStands
<1>11. ASSUME NEW q \in Pcid, NEW def \in Def, SetPcidByName(q, def)
       PROVE  Fine
  <2>1. SharedDimsAgree(p, q) /\ Good(row', q, RenamedAll(pts, p, q, def))
    BY <1>11, ByNameStands
  <2>2. row'.pcid = q /\ def \in Int
    BY <2>1, GoodParts, PatchAssumption
  <2>3. UncompressedIsSorted(RenamedAll(pts, p, q, def), keys, strict)
    BY <1>1, <2>1, <2>2, RenamedSorted
  <2> QED
    BY <2>1, <2>3, OrderedIs
<1>12. ASSUME NEW q \in Pcid, NEW def \in Def, Transform(q, def)
       PROVE  Fine
  <2>1. CASE strict = 0 \/ Len(keys) = 2
    BY <1>12, <2>1 DEF Excused
  <2>2. CASE ~(strict = 0 \/ Len(keys) = 2)
    <3>1. Good(row', q, TransformedAll(pts, p, q, def))
      BY <1>12, TransformStands
    <3>2. row'.pcid = q /\ def \in Int
      BY <3>1, GoodParts, PatchAssumption
    <3>3. PICK d \in Dims(p) : keys = <<d>>
      BY <2>2 DEF SortKeys
    <3>4. d \in Dims(q)
      <4>1. keys \in SortKeys(q) /\ Len(keys) = 1 /\ keys[1] = d
        BY <3>2, <3>3
      <4> QED
        BY <4>1 DEF SortKeys
    <3>5. strict = 1
      BY <2>2
    <3>6. UncompressedIsSorted(TransformedAll(pts, p, q, def), <<d>>, 1)
      BY <1>1, <3>2, <3>3, <3>4, <3>5, TransformedSorted
    <3> QED
      BY <3>1, <3>3, <3>5, <3>6, OrderedIs
  <2> QED
    BY <2>1, <2>2
<1>13. ASSUME NEW other \in SortKeys(row.pcid), SortRow(other)
       PROVE  Fine
  BY <1>13 DEF Excused
<1>14. -1 .. MaxPoints + 1 \subseteq Int
  BY PatchAssumption
<1>15. \A r, s, form : ~FromPoints(r, s) /\ ~FromWkb(r, form, s)
  BY Zenon DEF FromPoints, FromWkb
<1>16. Fine
  BY <1>4, <1>5, <1>6, <1>7, <1>8, <1>9, <1>10, <1>11, <1>12, <1>13, <1>14, <1>15 DEF Next
<1> QED
  BY <1>16 DEF Fine

(* A patch in order stays in order, in every form and encoding and for      *)
(* every schema: filters, PC_Range, recompression and a change of pcid only *)
(* pick points or move raw values by name, and PC_Transform scales, rounds  *)
(* and clamps, none of which turns two values around.                       *)
THEOREM OrderStays == Spec => OrderSurvives
<1> DEFINE A == row # NULL /\ row' # NULL /\ row'.npoints <= row.npoints =>
                  \A keys \in SortKeys(row.pcid) \cap SortKeys(row'.pcid), strict \in {0, 1} :
                    UncompressedIsSorted(Points(row), keys, strict) =>
                      \/ UncompressedIsSorted(Points(row'), keys, strict)
                      \/ \E other \in SortKeys(row.pcid) : SortRow(other)
                      \/ /\ strict = 0 \/ Len(keys) = 2
                         /\ \E q \in Pcid, def \in Def : Transform(q, def)
<1>1. RowInv /\ [Next]_vars => [A]_row
  <2> SUFFICES ASSUME RowInv, Next, row # NULL, row' # NULL, row'.npoints <= row.npoints,
                      NEW keys \in SortKeys(row.pcid), keys \in SortKeys(row'.pcid), NEW strict \in {0, 1},
                      UncompressedIsSorted(Points(row), keys, strict)
               PROVE  Excused(keys, strict) \/ Ordered(row', keys, strict)
    BY Zenon DEF vars, Excused, Ordered
  <2>1. PICK p, pts : Good(row, p, pts)
    BY DEF RowInv
  <2>2. row.pcid = p /\ Points(row) = pts
    BY <2>1, GoodParts, GoodPoints
  <2> QED
    BY <2>1, <2>2, OrderKept
<1> QED
  BY <1>1, InvHolds, PTL DEF OrderSurvives, Spec
=============================================================================
