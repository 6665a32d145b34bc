--------------------------- MODULE DimStatsProofs ---------------------------
(***************************************************************************)
(* Proofs about a column and the statistics that choose its encoding, for  *)
(* every set of values, length of column and length of run: whatever is    *)
(* filtered, encoded again or shared, the column stands for its values     *)
(* (ColumnInv), and the counters stay those of a sample (StatsInv).        *)
(***************************************************************************)
EXTENDS DimStats, RunLengthProofs

LEMMA ValsAre ==
  ASSUME NEW W, W \subseteq Val, NEW vals
  PROVE  vals \in UNION {[1 .. n -> W] : n \in 1 .. MaxLen}
           <=> vals \in Seq(W) /\ Len(vals) \in 1 .. MaxLen
<1>1. MaxLen \in Nat /\ \A n \in 1 .. MaxLen : n \in Nat
  BY ColumnAssumption
<1>2. ASSUME NEW n \in 1 .. MaxLen, vals \in [1 .. n -> W]
      PROVE  vals \in Seq(W) /\ Len(vals) \in 1 .. MaxLen
  BY <1>1, <1>2
<1>3. ASSUME vals \in Seq(W), Len(vals) \in 1 .. MaxLen
      PROVE  \E n \in 1 .. MaxLen : vals \in [1 .. n -> W]
  <2>1. vals \in [1 .. Len(vals) -> W]
    BY <1>3
  <2> QED
    BY <1>3, <2>1, Zenon
<1> QED
  BY <1>2, <1>3, Zenon

(* A column that stands for pts is what the runs check, and more: the body  *)
(* of a column of another encoding is pts itself.                           *)
ColumnInv ==
  /\ col.enc \in Enc
  /\ pts \in Seq(Val) /\ Len(pts) \in 1 .. MaxLen
  /\ Represents(col, pts, Val)

LEMMA ColumnInvTypeOK == ColumnInv => TypeOK
<1> SUFFICES ASSUME ColumnInv PROVE TypeOK
  OBVIOUS
<1>1. pts \in Vals
  BY ValsAre, Zenon DEF ColumnInv, Vals
<1>2. ASSUME col.enc = "rle"
      PROVE  /\ \A k \in DOMAIN col.body : col.body[k].n \in 1 .. MaxRun
             /\ Len(col.body) <= Len(pts)
  <2> DEFINE b == col.body
  <2>1. b \in Seq(RunSet(Val)) /\ Expanded(b) = pts
    BY <1>2, Zenon DEF ColumnInv, Represents
  <2> HIDE DEF b
  <2>2. DOMAIN b = 1 .. Len(b)
    BY <2>1, LenProperties, Zenon
  <2>3. Len(b) <= Total(b) /\ Len(pts) = Total(b)
    BY <2>1, RunsFit, ExpandedIn
  <2>4. \A k \in 1 .. Len(b) : b[k].n \in 1 .. MaxRun
    BY <2>1, RunFields
  <2> QED
    BY <2>2, <2>3, <2>4 DEF b
<1> QED
  BY <1>1, <1>2 DEF ColumnInv, TypeOK

LEMMA ColumnInvAnswers == ColumnInv => ColumnAnswers
<1> SUFFICES ASSUME ColumnInv PROVE ColumnAnswers
  OBVIOUS
<1>1. pts \in Seq(Val) /\ Represents(col, pts, Val) /\ Val \in SUBSET Int
  BY ColumnAssumption DEF ColumnInv
<1>2. ValuesMatch
  BY <1>1, RepresentsDecodes, Zenon DEF ValuesMatch
<1>3. FindsEach(col, pts) /\ MarksLike(col, pts)
  BY <1>1, RepresentsPositions, Zenon
<1>4. PositionsMatch /\ BitmapMatches
  BY <1>3, Zenon DEF FindsEach, MarksLike, PositionsMatch, BitmapMatches
<1>5. AggregatesMatch
  BY <1>1, RepresentsSums, Zenon DEF AggregatesMatch
<1> QED
  BY <1>2, <1>4, <1>5 DEF ColumnAnswers

(* Encoding anew, by whatever encoding.                                     *)
LEMMA Recoded ==
  ASSUME NEW enc \in Enc, NEW vals \in Seq(Val), Len(vals) \in 1 .. MaxLen,
         pts' = vals, col' = Column(enc, vals)
  PROVE  ColumnInv'
BY ColumnRepresents, Zenon DEF ColumnInv

LEMMA FilterKeeps ==
  ASSUME ColumnInv, NEW map \in [DOMAIN pts -> BOOLEAN], FilterColumn(map)
  PROVE  ColumnInv'
<1>1. DOMAIN pts = 1 .. Len(pts) /\ DOMAIN map = DOMAIN pts /\ Len(pts) \in 1 .. MaxLen /\ MaxLen \in Nat
  BY ColumnAssumption DEF ColumnInv
<1>2. \E i \in 1 .. Len(pts) : map[i]
  BY <1>1, Zenon DEF FilterColumn
<1>3. /\ Marked(pts, map) \in Seq(Val)
      /\ Len(Marked(pts, map)) <= Len(pts)
      /\ Len(Marked(pts, map)) >= 1
  BY <1>2, MarkedLen, Zenon DEF ColumnInv
<1>4. Len(Marked(pts, map)) \in 1 .. MaxLen
  <2> DEFINE s == Marked(pts, map)
  <2>1. Len(s) \in Nat
    <3>1. s \in Seq(Val)
      BY <1>3
    <3> HIDE DEF s
    <3> QED
      BY <3>1
  <2> HIDE DEF s
  <2> QED
    BY <1>1, <1>3, <2>1 DEF s
<1>5. Represents(ColumnFilter(col, map), Marked(pts, map), Val) /\ ColumnFilter(col, map).enc = col.enc
  BY FilterRepresents, Zenon DEF ColumnInv
<1> QED
  BY <1>3, <1>4, <1>5, Zenon DEF ColumnInv, FilterColumn

LEMMA NextKeeps == ColumnInv /\ Next => ColumnInv'
<1> SUFFICES ASSUME ColumnInv, Next PROVE ColumnInv'
  OBVIOUS
<1>1. ASSUME NEW map \in [DOMAIN pts -> BOOLEAN], FilterColumn(map) PROVE ColumnInv'
  BY <1>1, FilterKeeps
<1>2. ASSUME NEW enc \in Enc, Recode(enc) PROVE ColumnInv'
  <2>1. Values(col) = pts
    BY RepresentsDecodes, Zenon DEF ColumnInv
  <2> QED
    BY <1>2, <2>1, Recoded, Zenon DEF Recode, ColumnInv
<1> QED
  BY <1>1, <1>2, Zenon DEF Next

-----------------------------------------------------------------------------
(* What one patch adds to the statistics.                                   *)
EncChoice == {"rle", "sigbits", "zlib"}

LEMMA RunCountBounded ==
  ASSUME NEW vals \in Seq(Val), Len(vals) >= 1
  PROVE  RunCount(vals) \in 1 .. Len(vals)
<1> DEFINE C == {i \in 2 .. Len(vals) : vals[i] # vals[i - 1]}
<1>1. Len(vals) \in Nat
  OBVIOUS
<1>2. IsFiniteSet(2 .. Len(vals)) /\ Cardinality(2 .. Len(vals)) = Len(vals) - 1
  BY <1>1, FS_Interval
<1>3. C \in SUBSET (2 .. Len(vals))
  OBVIOUS
<1> HIDE DEF C
<1>4. Cardinality(C) \in Nat /\ Cardinality(C) <= Len(vals) - 1
  BY <1>2, <1>3, FS_Subset, FS_CardinalityType
<1>5. RunCount(vals) = 1 + Cardinality(C)
  BY DEF RunCount, C
<1> QED
  BY <1>1, <1>4, <1>5

(* The CHOOSE of the common bits has something to choose: the least number  *)
(* of shifts after which all values agree.                                  *)
LEMMA CommonBitsWithin ==
  ASSUME NEW n \in {1, 2, 4, 8}, Fits(n), NEW vals \in Seq(Val)
  PROVE  CommonBits(n, vals) \in 0 .. 8 * n
<1> DEFINE w == 8 * n
           T == {k \in 0 .. w : Agree(vals, k)}
           Least(k) == Agree(vals, k) /\ (k > 0 => ~ Agree(vals, k - 1))
<1>1. w \in Nat
  OBVIOUS
<1>2. T \subseteq Nat /\ T # {}
  <2>1. PICK k \in 0 .. w : \A v \in Val : v \div 2 ^ k = 0
    BY Zenon DEF Fits
  <2>2. \A i \in DOMAIN vals : vals[i] \in Val
    OBVIOUS
  <2>3. Agree(vals, k)
    BY <2>1, <2>2, Zenon DEF Agree
  <2> HIDE DEF w
  <2> QED
    BY <1>1, <2>3
<1>3. PICK k \in T : \A y \in T : k <= y
  <2> HIDE DEF T
  <2> QED
    BY <1>2, LeastNat
<1>4. k \in 0 .. w /\ Least(k)
  <2> HIDE DEF w
  <2>1. k > 0 => k - 1 \notin T
    BY <1>1, <1>3
  <2> QED
    BY <1>1, <1>3, <2>1
<1> DEFINE c == CHOOSE j \in 0 .. w : Least(j)
<1>5. c \in 0 .. w
  <2> HIDE DEF w, Least
  <2> QED
    BY <1>4, Zenon
<1>6. CommonBits(n, vals) = w - c
  BY DEF CommonBits
<1> HIDE DEF w, c
<1>7. w - c \in 0 .. w
  BY <1>1, <1>5
<1> QED
  BY <1>6, <1>7 DEF w

LEMMA CommonBitsBounded ==
  ASSUME NEW dim \in Dims, NEW vals \in Seq(Val)
  PROVE  CommonBits(dim.size, vals) \in 0 .. 8 * dim.size
<1>1. dim.size \in {1, 2, 4, 8} /\ Fits(dim.size)
  BY DimsAssumption
<1> QED
  BY <1>1, CommonBitsWithin

(* A record of counters, in which the choice may not have been made yet.    *)
Counters(s) ==
  /\ s = [dim |-> s.dim, points |-> s.points, patches |-> s.patches,
          runs |-> s.runs, bits |-> s.bits, choice |-> s.choice]
  /\ s.dim \in Dims
  /\ s.points \in Nat /\ s.patches \in Nat /\ s.runs \in Nat /\ s.bits \in Nat

LEMMA MadeCounters ==
  ASSUME NEW dim \in Dims
  PROVE  /\ Counters(Made(dim)) /\ Made(dim).dim = dim
         /\ Made(dim).points = 0 /\ Made(dim).patches = 0
         /\ Made(dim).runs = 0 /\ Made(dim).bits = 0
BY DEF Made, Counters

Adds(s, vals, t) ==
  /\ t.dim = s.dim
  /\ t.points = s.points + Len(vals)
  /\ t.patches = s.patches + 1
  /\ t.runs = s.runs + RunCount(vals)
  /\ t.bits = s.bits + CommonBits(s.dim.size, vals)

LEMMA UpdatedAdds ==
  ASSUME NEW s, Counters(s), NEW vals \in Seq(Val), Len(vals) >= 1
  PROVE  /\ Counters(Updated(s, vals)) /\ Adds(s, vals, Updated(s, vals))
         /\ Updated(s, vals).choice \in EncChoice
<1> DEFINE n == Len(vals)
           r == RunCount(vals)
           b == CommonBits(s.dim.size, vals)
           counted == [s EXCEPT !.points = @ + n, !.patches = @ + 1, !.runs = @ + r, !.bits = @ + b]
           c == Recommended(counted)
           t == Updated(s, vals)
<1>1. t = [counted EXCEPT !.choice = c]
  BY DEF Updated
<1>2. c \in EncChoice
  BY DEF Recommended, EncChoice
<1>3. n \in Nat /\ r \in Nat /\ b \in Nat
  <2>1. n \in Nat
    OBVIOUS
  <2>2. r \in Nat
    BY <2>1, RunCountBounded
  <2>3. s.dim \in Dims
    BY DEF Counters
  <2>4. b \in 0 .. 8 * s.dim.size
    BY <2>3, CommonBitsBounded
  <2> QED
    BY <2>1, <2>2, <2>4
<1> HIDE DEF n, r, b, c, t
<1>4. /\ t.dim = s.dim /\ t.points = s.points + n /\ t.patches = s.patches + 1
      /\ t.runs = s.runs + r /\ t.bits = s.bits + b /\ t.choice = c
      /\ t = [dim |-> t.dim, points |-> t.points, patches |-> t.patches,
              runs |-> t.runs, bits |-> t.bits, choice |-> t.choice]
  BY <1>1 DEF Counters
<1>5. /\ s.dim \in Dims
      /\ s.points \in Nat /\ s.patches \in Nat /\ s.runs \in Nat /\ s.bits \in Nat
  BY DEF Counters
<1>6. t.points \in Nat /\ t.patches \in Nat /\ t.runs \in Nat /\ t.bits \in Nat /\ t.dim \in Dims
  <2> HIDE DEF counted
  <2>1. t.points \in Nat
    BY <1>3, <1>4, <1>5
  <2>2. t.patches \in Nat
    BY <1>4, <1>5
  <2>3. t.runs \in Nat
    BY <1>3, <1>4, <1>5
  <2>4. t.bits \in Nat
    BY <1>3, <1>4, <1>5
  <2> QED
    BY <1>4, <1>5, <2>1, <2>2, <2>3, <2>4, Zenon
<1>7. Counters(t)
  BY <1>4, <1>6 DEF Counters
<1>8. Adds(s, vals, t)
  BY <1>4, Zenon DEF Adds, n, r, b
<1> QED
  BY <1>2, <1>4, <1>7, <1>8, Zenon DEF t

Within(points, patches, runs, bits, d) ==
  patches <= runs /\ runs <= points /\ bits <= patches * 8 * d

(* Counters of a sample.                                                    *)
Sample(s) ==
  /\ Counters(s)
  /\ Within(s.points, s.patches, s.runs, s.bits, s.dim.size)
  /\ s.points < MinSample + MaxLen
  /\ s.points < MinSample \/ s.choice \in EncChoice

LEMMA WithinGrows ==
  ASSUME NEW points \in Nat, NEW patches \in Nat, NEW runs \in Nat, NEW bits \in Nat, NEW d \in Nat,
         NEW n \in Nat, NEW r \in 1 .. n, NEW b \in 0 .. 8 * d,
         Within(points, patches, runs, bits, d)
  PROVE  Within(points + n, patches + 1, runs + r, bits + b, d)
<1>1. patches <= runs /\ runs <= points /\ bits <= patches * 8 * d
  BY DEF Within
<1>2. (patches + 1) * 8 * d = patches * 8 * d + 8 * d
  OBVIOUS
<1>3. bits + b <= patches * 8 * d + 8 * d
  <2> DEFINE x == patches * 8 * d
             y == 8 * d
  <2>1. x \in Int /\ y \in Int
    OBVIOUS
  <2>2. bits <= x /\ b \in 0 .. y
    BY <1>1
  <2> HIDE DEF x, y
  <2>3. bits + b <= x + y
    BY <2>1, <2>2
  <2> QED
    BY <2>3 DEF x, y
<1>4. patches + 1 <= runs + r /\ runs + r <= points + n
  BY <1>1
<1> QED
  BY <1>2, <1>3, <1>4 DEF Within

LEMMA SampledSample ==
  ASSUME NEW s, Sample(s), NEW vals \in Seq(Val), Len(vals) \in 1 .. MaxLen
  PROVE  /\ Sample(Sampled(s, vals)) /\ Sampled(s, vals).choice \in EncChoice
         /\ Sampled(s, vals).dim = s.dim
         /\ s.points < MinSample => Sampled(s, vals).patches >= 1
         /\ s.patches >= 1 => Sampled(s, vals).patches >= 1
<1>1. CASE ~ (s.points < MinSample)
  <2>1. Sampled(s, vals) = s
    BY <1>1 DEF Sampled
  <2> QED
    BY <1>1, <2>1, Zenon DEF Sample
<1>2. CASE s.points < MinSample
  <2> DEFINE t == Updated(s, vals)
  <2>1. Sampled(s, vals) = t
    BY <1>2 DEF Sampled
  <2>2. Counters(s) /\ Len(vals) >= 1 /\ Len(vals) \in Nat /\ Len(vals) <= MaxLen /\ MaxLen \in Nat
    BY ColumnAssumption DEF Sample
  <2>3. Counters(t) /\ Adds(s, vals, t) /\ t.choice \in EncChoice
    BY <2>2, UpdatedAdds, Zenon
  <2>4. RunCount(vals) \in 1 .. Len(vals)
    BY <2>2, RunCountBounded
  <2>5. s.dim \in Dims /\ CommonBits(s.dim.size, vals) \in 0 .. 8 * s.dim.size
    BY <2>2, CommonBitsBounded DEF Counters
  <2> HIDE DEF t
  <2> DEFINE n == Len(vals)
             r == RunCount(vals)
             b == CommonBits(s.dim.size, vals)
             d == s.dim.size
  <2>6. d \in Nat
    BY <2>5, DimsAssumption
  <2>7. /\ t.dim = s.dim /\ t.points = s.points + n /\ t.patches = s.patches + 1
        /\ t.runs = s.runs + r /\ t.bits = s.bits + b
    BY <2>3, Zenon DEF Adds
  <2>8. /\ s.points \in Nat /\ s.patches \in Nat /\ s.runs \in Nat /\ s.bits \in Nat
        /\ n \in Nat /\ r \in 1 .. n /\ b \in 0 .. 8 * d /\ n <= MaxLen /\ MaxLen \in Nat
        /\ MinSample \in Nat
        /\ Within(s.points, s.patches, s.runs, s.bits, d)
    BY <2>2, <2>4, <2>5, DimsAssumption DEF Sample, Counters
  <2> HIDE DEF n, r, b, d
  <2>9. Within(t.points, t.patches, t.runs, t.bits, d)
    <3>1. Within(s.points + n, s.patches + 1, s.runs + r, s.bits + b, d)
      BY <2>6, <2>8, WithinGrows, Zenon
    <3> QED
      BY <2>7, <3>1, Zenon
  <2>10. t.points < MinSample + MaxLen /\ t.patches >= 1
    BY <1>2, <2>7, <2>8
  <2>11. Sample(t)
    BY <2>3, <2>7, <2>9, <2>10, Zenon DEF Sample, d
  <2> QED
    BY <2>1, <2>3, <2>7, <2>10, <2>11, Zenon
<1> QED
  BY <1>1, <1>2

LEMMA MadeSample == ASSUME NEW dim \in Dims PROVE Sample(Made(dim)) /\ Made(dim).points < MinSample
<1>1. dim.size \in Nat /\ MinSample \in Nat \ {0} /\ MaxLen \in Nat
  BY DimsAssumption, ColumnAssumption
<1>2. 0 * 8 * dim.size = 0
  BY <1>1
<1> QED
  BY <1>1, <1>2, MadeCounters DEF Sample, Within

-----------------------------------------------------------------------------
(* pds, when there are shared statistics, is a sample with a choice.        *)
StatsInv ==
  pds # NULL => Sample(pds) /\ pds.choice \in EncChoice /\ pds.patches >= 1

SharedInv == ColumnInv /\ StatsInv

LEMMA InitShared == SharedInit => SharedInv
<1> SUFFICES ASSUME SharedInit PROVE SharedInv
  OBVIOUS
<1>1. PICK vals \in Vals, enc \in Enc : col = Column(enc, vals) /\ pts = vals
  BY Zenon DEF SharedInit, Init
<1>2. vals \in Seq(Val) /\ Len(vals) \in 1 .. MaxLen
  BY ValsAre, Zenon DEF Vals
<1>3. ColumnInv
  BY <1>1, <1>2, ColumnRepresents, Zenon DEF ColumnInv
<1> QED
  BY <1>3, Zenon DEF SharedInv, StatsInv, SharedInit

(* One compression with a sample of any kind.                               *)
LEMMA CompressKeeps ==
  ASSUME NEW s, Sample(s), NEW vals \in Seq(Val), Len(vals) \in 1 .. MaxLen, CompressWith(s, vals)
  PROVE  ColumnInv'
<1>1. Sampled(s, vals).choice \in Enc
  BY SampledSample, DimsAssumption DEF EncChoice
<1> QED
  BY <1>1, Recoded, Zenon DEF CompressWith

(* The statistics PC_Compress hands on are no sample, and are left alone.   *)
LEMMA OverriddenKept ==
  ASSUME NEW dim \in Dims, NEW enc \in Enc \cup {"auto"},
         NEW vals \in Seq(Val), Len(vals) \in 1 .. MaxLen
  PROVE  LET s == Overridden(Updated(Made(dim), vals), enc)
         IN /\ Sampled(s, vals) = s
            /\ s.choice \in EncChoice \cup Enc
            /\ enc \in Enc => s.choice = enc
<1> DEFINE u == Updated(Made(dim), vals)
           s == Overridden(u, enc)
           c == IF enc = "auto" THEN u.choice ELSE enc
           p == MinSample + 1
<1>1. Counters(u) /\ u.choice \in EncChoice
  <2>1. Counters(Made(dim)) /\ Len(vals) >= 1
    BY MadeCounters, ColumnAssumption
  <2> QED
    BY <2>1, UpdatedAdds, Zenon
<1>2. s = [u EXCEPT !.points = p, !.choice = c]
  BY DEF Overridden
<1>3. c \in EncChoice \cup Enc /\ (enc \in Enc => c = enc)
  BY <1>1, DimsAssumption
<1>4. p \in Nat /\ ~ (p < MinSample)
  BY DimsAssumption
<1> HIDE DEF u, s, c, p
<1>5. s.points = p /\ s.choice = c
  BY <1>1, <1>2 DEF Counters
<1>6. Sampled(s, vals) = s
  BY <1>4, <1>5 DEF Sampled
<1> QED
  BY <1>3, <1>5, <1>6 DEF s, u

LEMMA NextShared == SharedInv /\ [SharedNext]_statsVars => SharedInv'
<1> SUFFICES ASSUME SharedInv, [SharedNext]_statsVars PROVE SharedInv'
  OBVIOUS
<1>0. ColumnInv /\ StatsInv /\ Values(col) = pts /\ pts \in Seq(Val) /\ Len(pts) \in 1 .. MaxLen
  BY RepresentsDecodes, Zenon DEF SharedInv, ColumnInv
<1>1. CASE ColumnStep
  <2>1. ColumnInv'
    BY <1>0, <1>1, NextKeeps DEF ColumnStep
  <2> QED
    BY <1>0, <1>1, <2>1, Zenon DEF ColumnStep, SharedInv, StatsInv
<1>2. CASE Free
  BY <1>0, <1>2, Zenon DEF Free, SharedInv, StatsInv, ColumnInv
<1>3. ASSUME NEW dim \in Dims, CompressAlone(dim) PROVE SharedInv'
  <2>1. Sample(Made(dim))
    BY MadeSample
  <2>2. ColumnInv'
    BY <1>0, <1>3, <2>1, CompressKeeps, Zenon DEF CompressAlone
  <2> QED
    BY <1>0, <1>3, <2>2, Zenon DEF CompressAlone, SharedInv, StatsInv
<1>4. ASSUME NEW dim \in Dims, NEW vals \in SampleVals, CompressShared(dim, vals) PROVE SharedInv'
  <2> DEFINE s == IF pds = NULL THEN Made(dim) ELSE pds
  <2>1. vals \in Seq(Val) /\ Len(vals) \in 1 .. MaxLen
    <3>1. vals \in Seq(SampleVal) /\ Len(vals) \in 1 .. MaxLen /\ SampleVal \subseteq Val
      BY ValsAre, DimsAssumption, Zenon DEF SampleVals
    <3> QED
      BY <3>1, SeqMonotonic, Zenon
  <2>2. Sample(s) /\ (s.points < MinSample \/ s.patches >= 1)
    BY <1>0, MadeSample, Zenon DEF StatsInv
  <2>3. CompressWith(s, vals) /\ pds' = Sampled(s, vals)
    BY <1>4, Zenon DEF CompressShared
  <2> HIDE DEF s
  <2>4. ColumnInv'
    BY <2>1, <2>2, <2>3, CompressKeeps, Zenon
  <2>5. Sample(Sampled(s, vals)) /\ Sampled(s, vals).choice \in EncChoice /\ Sampled(s, vals).patches >= 1
    BY <2>1, <2>2, SampledSample, Zenon
  <2> QED
    BY <2>3, <2>4, <2>5, Zenon DEF SharedInv, StatsInv
<1>5. ASSUME NEW dim \in Dims, NEW enc \in Enc \cup {"auto"}, PcCompress(dim, enc) PROVE SharedInv'
  <2>1. col'.enc \in Enc /\ ColumnInv'
    <3> DEFINE s == Overridden(Updated(Made(dim), pts), enc)
    <3>1. Sampled(s, pts) = s /\ s.choice \in EncChoice \cup Enc
      BY <1>0, OverriddenKept, Zenon
    <3>2. s.choice \in Enc
      <4> HIDE DEF s
      <4> QED
        BY <3>1, DimsAssumption DEF EncChoice
    <3>3. pts' = pts /\ col' = Column(s.choice, pts)
      BY <1>0, <1>5, <3>1, Zenon DEF PcCompress, CompressWith
    <3> HIDE DEF s
    <3>4. ColumnInv'
      BY <1>0, <3>2, <3>3, Recoded, Zenon
    <3> QED
      BY <3>4 DEF ColumnInv
  <2> QED
    BY <1>0, <1>5, <2>1, Zenon DEF PcCompress, SharedInv, StatsInv
<1>6. CASE UNCHANGED statsVars
  BY <1>0, <1>6, Zenon DEF statsVars, SharedInv, StatsInv, ColumnInv
<1> QED
  BY <1>1, <1>2, <1>3, <1>4, <1>5, <1>6, Zenon DEF SharedNext

LEMMA SharedInvHolds == SharedSpec => []SharedInv
<1> QED
  BY InitShared, NextShared, PTL DEF SharedSpec

(* pc_bytes_run_length_encode and the filters of pc_bytes.c: every count    *)
(* byte holds 1 .. MaxRun, and there are no more runs than values.          *)
THEOREM TypeCorrect == SharedSpec => []TypeOK
<1>1. SharedInv => TypeOK
  BY ColumnInvTypeOK DEF SharedInv
<1> QED
  BY <1>1, SharedInvHolds, PTL

(* However a column was encoded and filtered, it decodes to the values it   *)
(* stands for, finds and compares each of them run by run, and has their    *)
(* minimum, maximum and sum.                                                *)
THEOREM ColumnsAnswer == SharedSpec => []ColumnAnswers
<1>1. SharedInv => ColumnAnswers
  BY ColumnInvAnswers DEF SharedInv
<1> QED
  BY <1>1, SharedInvHolds, PTL

(* The statistics that pc_dimstats_update leaves for the next patch are     *)
(* those of a bounded sample.                                               *)
THEOREM SamplesBounded == SharedSpec => []SampleBounded
<1>1. SharedInv => SampleBounded
  <2> SUFFICES ASSUME SharedInv, pds # NULL PROVE SampleBounded
    BY Zenon DEF SampleBounded
  <2>1. Sample(pds) /\ pds.choice \in EncChoice /\ pds.patches >= 1
    BY Zenon DEF SharedInv, StatsInv
  <2>2. /\ pds.patches \in Nat /\ pds.runs \in Nat
        /\ pds.patches <= pds.runs /\ pds.runs <= pds.points
        /\ pds.bits <= pds.patches * 8 * pds.dim.size
        /\ pds.points < MinSample + MaxLen
    BY <2>1, Zenon DEF Sample, Counters, Within
  <2>3. pds.patches \in 1 .. pds.runs
    BY <2>1, <2>2
  <2>4. pds.choice # "none"
    BY <2>1 DEF EncChoice
  <2> QED
    BY <2>2, <2>3, <2>4, Zenon DEF SampleBounded
<1> QED
  BY <1>1, SharedInvHolds, PTL

(* PC_Compress: the encoding the user names is the one the column gets.     *)
THEOREM OverridesStick == SharedSpec => OverrideSticks
<1>1. ASSUME SharedInv, NEW dim \in Dims, NEW enc \in Enc, PcCompress(dim, enc)
      PROVE  col'.enc = enc
  <2>1. Values(col) = pts /\ pts \in Seq(Val) /\ Len(pts) \in 1 .. MaxLen
    BY <1>1, RepresentsDecodes, Zenon DEF SharedInv, ColumnInv
  <2> DEFINE s == Overridden(Updated(Made(dim), pts), enc)
  <2>2. Sampled(s, pts) = s /\ s.choice = enc
    BY <2>1, OverriddenKept, Zenon
  <2>3. col' = Column(enc, pts)
    BY <1>1, <2>1, <2>2, Zenon DEF PcCompress, CompressWith
  <2> QED
    BY <2>1, <2>3, ColumnRepresents, Zenon
<1>2. SharedInv => [\A dim \in Dims, enc \in Enc : PcCompress(dim, enc) => col'.enc = enc]_statsVars
  BY <1>1
<1> QED
  BY <1>2, SharedInvHolds, PTL DEF OverrideSticks, SharedSpec

-----------------------------------------------------------------------------
(* Where a value differs from the one before it, among the first k.         *)
Changes(vals, k) == {i \in 2 .. k : vals[i] # vals[i - 1]}

LEMMA ChangesGrow ==
  ASSUME NEW vals, NEW k \in Nat \ {0}
  PROVE  /\ Cardinality(Changes(vals, k)) \in Nat
         /\ Cardinality(Changes(vals, 1)) = 0
         /\ k > 1 => Cardinality(Changes(vals, k)) = Cardinality(Changes(vals, k - 1))
                       + (IF vals[k] # vals[k - 1] THEN 1 ELSE 0)
<1>1. ASSUME NEW j \in Nat PROVE IsFiniteSet(Changes(vals, j)) /\ Cardinality(Changes(vals, j)) \in Nat
  <2>1. IsFiniteSet(2 .. j)
    BY FS_Interval
  <2>2. Changes(vals, j) \in SUBSET (2 .. j)
    BY DEF Changes
  <2> QED
    BY <2>1, <2>2, FS_Subset, FS_CardinalityType
<1>2. Changes(vals, 1) = {}
  BY DEF Changes
<1>3. Cardinality(Changes(vals, 1)) = 0
  BY <1>2, FS_EmptySet
<1>4. ASSUME k > 1
      PROVE  Cardinality(Changes(vals, k)) = Cardinality(Changes(vals, k - 1))
               + (IF vals[k] # vals[k - 1] THEN 1 ELSE 0)
  <2>1. k - 1 \in Nat /\ k \notin Changes(vals, k - 1)
    BY <1>4 DEF Changes
  <2>2. CASE vals[k] # vals[k - 1]
    <3>1. Changes(vals, k) = Changes(vals, k - 1) \cup {k}
      BY <1>4, <2>2 DEF Changes
    <3>2. IsFiniteSet(Changes(vals, k - 1))
      BY <1>1, <2>1
    <3> QED
      BY <2>1, <2>2, <3>1, <3>2, FS_AddElement
  <2>3. CASE vals[k] = vals[k - 1]
    <3>1. Changes(vals, k) = Changes(vals, k - 1)
      BY <1>4, <2>3 DEF Changes
    <3> QED
      BY <1>1, <2>1, <2>3, <3>1
  <2> QED
    BY <2>2, <2>3
<1> QED
  BY <1>1, <1>3, <1>4

(* What the encoder's open run is after k values, and how many runs there   *)
(* can be: a count byte that is full costs a run more than the statistics   *)
(* count, but only once in MaxRun values.                                   *)
RunsSpent(runs, vals, k) ==
  /\ runs # <<>> /\ Last(runs).v = vals[k]
  /\ MaxRun * Len(runs) + Last(runs).n <= k + MaxRun * (1 + Cardinality(Changes(vals, k)))

LEMMA SpentFirst ==
  ASSUME NEW S, NEW vals \in Seq(S), Len(vals) >= 1
  PROVE  RunsSpent(Extend(<<>>, vals[1]), vals, 1)
<1>1. Extend(<<>>, vals[1]) = <<Run(1, vals[1])>>
  BY DEF Extend
<1>2. Cardinality(Changes(vals, 1)) = 0
  BY ChangesGrow
<1>3. Last(<<Run(1, vals[1])>>) = Run(1, vals[1]) /\ Len(<<Run(1, vals[1])>>) = 1
  BY DEF Last
<1>4. Run(1, vals[1]).n = 1 /\ Run(1, vals[1]).v = vals[1]
  BY DEF Run
<1>5. MaxRun * 1 + 1 <= 1 + MaxRun * (1 + 0)
  BY MaxRunAssumption
<1> DEFINE first == Extend(<<>>, vals[1])
           c == Cardinality(Changes(vals, 1))
<1>6. first # <<>> /\ Last(first).v = vals[1] /\ Last(first).n = 1 /\ Len(first) = 1 /\ c = 0
  <2> DEFINE r == Run(1, vals[1])
  <2>1. first = <<r>> /\ Last(<<r>>) = r /\ Len(<<r>>) = 1 /\ r.n = 1 /\ r.v = vals[1] /\ c = 0
    BY <1>1, <1>2, <1>3, <1>4, Zenon
  <2>2. <<r>> # <<>>
    OBVIOUS
  <2> HIDE DEF r, first, c
  <2> QED
    BY <2>1, <2>2, Zenon
<1> HIDE DEF first, c
<1>7. MaxRun * Len(first) + Last(first).n <= 1 + MaxRun * (1 + c)
  BY <1>5, <1>6
<1> QED
  BY <1>6, <1>7 DEF RunsSpent, first, c

LEMMA SpentNext ==
  ASSUME NEW S, NEW vals \in Seq(S), NEW k \in 2 .. Len(vals), NEW runs \in Seq(RunSet(S)),
         RunsSpent(runs, vals, k - 1)
  PROVE  RunsSpent(Extend(runs, vals[k]), vals, k)
<1> DEFINE l == Len(runs)
           h == Last(runs).n
           c == Cardinality(Changes(vals, k - 1))
           d == Cardinality(Changes(vals, k))
           ext == Extend(runs, vals[k])
           mr == MaxRun
<1>1. /\ l \in Nat \ {0} /\ Last(runs) = runs[l] /\ h \in 1 .. mr
      /\ Last(runs).v = vals[k - 1] /\ mr * l + h <= k - 1 + mr * (1 + c)
  <2>1. runs # <<>> /\ Last(runs).v = vals[k - 1] /\ mr * l + h <= k - 1 + mr * (1 + c)
    BY DEF RunsSpent
  <2>2. l \in 1 .. l /\ Last(runs) = runs[l]
    BY <2>1, LastRun
  <2>3. runs[l].n \in 1 .. mr
    BY <2>2, RunFields
  <2>4. l \in Nat
    BY LenProperties, Zenon
  <2> QED
    BY <2>1, <2>2, <2>3, <2>4
<1>2. /\ k \in Nat \ {0} /\ k - 1 \in Nat \ {0} /\ mr \in Nat \ {0} /\ c \in Nat /\ d \in Nat
      /\ d = c + (IF vals[k] # vals[k - 1] THEN 1 ELSE 0)
  <2>1. k \in Nat \ {0} /\ k - 1 \in Nat \ {0} /\ k > 1 /\ mr \in Nat \ {0}
    BY MaxRunAssumption
  <2>2. c \in Nat /\ d \in Nat
    BY <2>1, ChangesGrow
  <2>3. d = c + (IF vals[k] # vals[k - 1] THEN 1 ELSE 0)
    BY <2>1, ChangesGrow
  <2> QED
    BY <2>1, <2>2, <2>3
<1>3. vals[k] \in S
  OBVIOUS
<1>4. CASE vals[k] = vals[k - 1] /\ h < mr
  <2>1. ext = [runs EXCEPT ![l] = Run(runs[l].n + 1, vals[k])]
    BY <1>1, <1>4 DEF Extend, RunsSpent
  <2>2. Len(ext) = l /\ ext # <<>> /\ Last(ext) = Run(h + 1, vals[k])
    BY <1>1, <2>1 DEF Last
  <2>3. Last(ext).n = h + 1 /\ Last(ext).v = vals[k]
    BY <2>2 DEF Run
  <2>4. mr * l + (h + 1) <= k + mr * (1 + d)
    <3>1. d = c
      BY <1>2, <1>4
    <3>2. mr * l \in Int /\ mr * (1 + c) \in Int
      BY <1>1, <1>2
    <3> HIDE DEF l, h, c, d, mr
    <3> QED
      BY <1>1, <1>2, <3>1, <3>2
  <2> QED
    BY <2>2, <2>3, <2>4 DEF RunsSpent
<1>5. CASE ~ (vals[k] = vals[k - 1] /\ h < mr)
  <2>1. ext = Append(runs, Run(1, vals[k]))
    BY <1>1, <1>5 DEF Extend
  <2>2. Len(ext) = l + 1 /\ ext # <<>> /\ Last(ext) = Run(1, vals[k])
    BY <1>1, <2>1 DEF Last
  <2>3. Last(ext).n = 1 /\ Last(ext).v = vals[k]
    BY <2>2 DEF Run
  <2>4. mr * (l + 1) + 1 <= k + mr * (1 + d)
    <3>1. /\ mr * (l + 1) = mr * l + mr /\ mr * (1 + c + 1) = mr * (1 + c) + mr
          /\ mr * l \in Int /\ mr * (1 + c) \in Int
      <4>1. l \in Nat /\ mr \in Nat /\ c \in Nat
        BY <1>1, <1>2
      <4> HIDE DEF l, c, mr
      <4> QED
        BY <4>1
    <3>2. (d = c /\ h = mr) \/ d = c + 1
      BY <1>1, <1>2, <1>5, SMTT(30)
    <3> HIDE DEF l, h, c, d, mr
    <3>3. CASE d = c /\ h = mr
      BY <1>1, <1>2, <3>1, <3>3, SMTT(30)
    <3>4. CASE d = c + 1
      <4>1. 1 + d = 1 + c + 1
        BY <1>2, <3>4
      <4> QED
        BY <1>1, <1>2, <3>1, <4>1
    <3> QED
      BY <3>2, <3>3, <3>4
  <2> QED
    BY <2>2, <2>3, <2>4 DEF RunsSpent
<1> QED
  BY <1>4, <1>5

LEMMA RunsWritten ==
  ASSUME NEW S, NEW vals \in Seq(S), Len(vals) >= 1
  PROVE  /\ Len(RunLengthEncode(vals)) \in Nat
         /\ MaxRun * Len(RunLengthEncode(vals)) <= Len(vals) + MaxRun * RunCount(vals)
<1> DEFINE m == Len(vals)
<1>1. PICK F : EncodeSteps(F, S, vals)
  BY EncodeFold, Zenon
<1>2. /\ m \in Nat \ {0} /\ F[0] = <<>> /\ F[m] = RunLengthEncode(vals)
      /\ \A k \in 1 .. m : F[k] = Extend(F[k - 1], vals[k])
      /\ \A k \in 0 .. m : F[k] \in Seq(RunSet(S))
  <2>1. m \in Nat \ {0}
    OBVIOUS
  <2>2. /\ F \in [0 .. m -> Seq(RunSet(S))] /\ F[0] = <<>> /\ F[m] = RunLengthEncode(vals)
        /\ \A k \in 1 .. m : F[k] = Extend(F[k - 1], vals[k])
    BY <1>1, Zenon DEF EncodeSteps
  <2>3. \A k \in 0 .. m : F[k] \in Seq(RunSet(S))
    BY <2>2, Zenon
  <2> QED
    BY <2>1, <2>2, <2>3, Zenon
<1> DEFINE K == {0} \cup {k \in 1 .. m : RunsSpent(F[k], vals, k)}
<1>3. ASSUME NEW k \in 1 .. m, k - 1 \in K PROVE k \in K
  <2>1. CASE k = 1
    <3>1. F[1] = Extend(<<>>, vals[1])
      BY <1>2, <2>1
    <3> QED
      BY <1>2, <2>1, <3>1, SpentFirst
  <2>2. CASE k # 1
    <3>1. k \in 2 .. m /\ k - 1 \in 1 .. m /\ k - 1 \in 0 .. m
      BY <1>2, <2>2
    <3>2. RunsSpent(F[k - 1], vals, k - 1)
      BY <1>3, <3>1
    <3>3. F[k - 1] \in Seq(RunSet(S)) /\ F[k] = Extend(F[k - 1], vals[k])
      BY <1>2, <3>1
    <3>4. RunsSpent(F[k], vals, k)
      BY <3>1, <3>2, <3>3, SpentNext
    <3> QED
      BY <3>4
  <2> QED
    BY <2>1, <2>2
<1>4. m \in K
  <2>1. 0 \in K
    OBVIOUS
  <2> HIDE DEF K
  <2>2. \A k \in 0 .. m : k \in K
    BY <1>2, <1>3, <2>1, UpTo
  <2> QED
    BY <1>2, <2>2
<1>5. RunsSpent(F[m], vals, m)
  BY <1>2, <1>4
<1> DEFINE l == Len(RunLengthEncode(vals))
           h == Last(RunLengthEncode(vals)).n
           r == RunCount(vals)
<1>6. RunLengthEncode(vals) # <<>> /\ MaxRun * l + h <= m + MaxRun * r
  BY <1>2, <1>5 DEF RunsSpent, RunCount, Changes
<1>7. RunLengthEncode(vals) \in Seq(RunSet(S))
  <2>1. m \in 0 .. m
    BY <1>2
  <2> QED
    BY <1>2, <2>1
<1>8. l \in Nat /\ h \in Nat
  BY <1>6, <1>7, LastRun, RunFields, LenProperties
<1>9. r \in Nat
  <2>1. Cardinality(Changes(vals, m)) \in Nat
    BY <1>2, ChangesGrow
  <2> QED
    BY <2>1 DEF RunCount, Changes
<1> HIDE DEF l, h, r, m
<1>10. MaxRun * l <= m + MaxRun * r
  <2>1. MaxRun * l \in Int /\ MaxRun * r \in Int
    BY <1>8, <1>9, MaxRunAssumption
  <2> QED
    BY <1>2, <1>6, <1>8, <2>1
<1> QED
  BY <1>8, <1>10 DEF l, r, m

(* The ratio of 4.0 leaves room for the runs a full count byte adds.        *)
LEMMA RunsPay ==
  ASSUME MaxRun >= 3, NEW n \in {1, 2, 4, 8}, NEW len \in Nat, NEW runs \in Nat, NEW written \in Nat,
         MaxRun * written <= len + MaxRun * runs, len * n > 4 * runs * (n + 1)
  PROVE  written * (n + 1) < n * len
<1> DEFINE mr == MaxRun
           a == mr * runs
           b == mr * written
           c == mr * len
           d == len * n - 4 * runs * (n + 1)
           e == written * (n + 1) - n * len
<1>1. mr \in Nat /\ mr >= 3 /\ n \in Nat
  BY MaxRunAssumption
<1>2. a \in Nat /\ b \in Nat /\ c \in Nat /\ b <= len + a
  BY <1>1
<1>3. d \in Nat /\ d >= 1 /\ e \in Int
  OBVIOUS
<1>4. 3 * len <= c
  <2>1. mr - 3 \in Nat
    BY <1>1
  <2>2. (mr - 3) * len \in Nat
    BY <2>1
  <2>3. (mr - 3) * len = c - 3 * len
    <3> HIDE DEF mr
    <3> QED
      BY <1>1
  <2> QED
    BY <1>2, <2>2, <2>3
<1>5. mr * d = c * n - 4 * a * (n + 1) /\ mr * e = b * (n + 1) - n * c
  <2> HIDE DEF mr
  <2>1. CASE n = 1
    BY <1>1, <2>1
  <2>2. CASE n = 2
    BY <1>1, <2>2
  <2>3. CASE n = 4
    BY <1>1, <2>3
  <2>4. CASE n = 8
    BY <1>1, <2>4
  <2> QED
    BY <2>1, <2>2, <2>3, <2>4
<1> HIDE DEF mr, a, b, c, d, e
<1>6. mr * d >= mr
  <2>1. d - 1 \in Nat
    BY <1>3
  <2>2. mr * (d - 1) \in Nat
    BY <1>1, <2>1
  <2>3. mr * (d - 1) = mr * d - mr /\ mr * d \in Int
    BY <1>1, <1>3
  <2> QED
    BY <1>1, <2>2, <2>3
<1>7. mr * e < 0
  <2>1. CASE n = 1
    BY <1>1, <1>2, <1>4, <1>5, <1>6, <2>1
  <2>2. CASE n = 2
    BY <1>1, <1>2, <1>4, <1>5, <1>6, <2>2
  <2>3. CASE n = 4
    BY <1>1, <1>2, <1>4, <1>5, <1>6, <2>3
  <2>4. CASE n = 8
    BY <1>1, <1>2, <1>4, <1>5, <1>6, <2>4
  <2> QED
    BY <2>1, <2>2, <2>3, <2>4
<1>8. e < 0
  <2>1. e \in Nat => mr * e \in Nat
    BY <1>1
  <2> QED
    BY <1>3, <1>7, <2>1
<1>9. written * (n + 1) \in Int /\ n * len \in Int
  BY <1>1
<1> QED
  BY <1>8, <1>9 DEF e

(* The ratio of 1.6 leaves room for the head words and the padding.         *)
LEMMA BitsPay ==
  ASSUME NEW n \in {1, 2, 4, 8}, NEW len \in Nat \ {0}, NEW u \in Nat,
         10 * 8 * (len * n) > 16 * (8 * 1 * 2 * n + len * u),
         NEW raw, raw = (u * len) \div 8 + 1 + 2 * n
  PROVE  raw \in Nat /\ raw + (IF n = 1 THEN 0 ELSE n) < n * len
<1> DEFINE y == len * u
           q == y \div 8
<1>1. y \in Nat /\ u * len = y
  OBVIOUS
<1>2. 80 * (len * n) > 256 * n + 16 * y
  <2> HIDE DEF y
  <2>1. CASE n = 1
    BY <1>1, <2>1 DEF y
  <2>2. CASE n = 2
    BY <1>1, <2>2 DEF y
  <2>3. CASE n = 4
    BY <1>1, <2>3 DEF y
  <2>4. CASE n = 8
    BY <1>1, <2>4 DEF y
  <2> QED
    BY <2>1, <2>2, <2>3, <2>4
<1> HIDE DEF y
<1>3. q \in Nat /\ 8 * q <= y
  BY <1>1
<1>4. raw = q + 1 + 2 * n
  BY <1>1
<1> HIDE DEF q
<1>5. raw \in Nat
  BY <1>3, <1>4
<1>6. raw + (IF n = 1 THEN 0 ELSE n) < n * len
  <2>1. CASE n = 1
    BY <1>1, <1>2, <1>3, <1>4, <2>1
  <2>2. CASE n = 2
    BY <1>1, <1>2, <1>3, <1>4, <2>2
  <2>3. CASE n = 4
    BY <1>1, <1>2, <1>3, <1>4, <2>3
  <2>4. CASE n = 8
    BY <1>1, <1>2, <1>3, <1>4, <2>4
  <2> QED
    BY <2>1, <2>2, <2>3, <2>4
<1> QED
  BY <1>5, <1>6

LEMMA RecommendedPays ==
  ASSUME MaxRun >= 3, NEW dim \in [size : {1, 2, 4, 8}, double : {FALSE}], Fits(dim.size),
         NEW vals \in Seq(Val), Len(vals) >= 1, Updated(Made(dim), vals).choice # "zlib"
  PROVE  EncodedSize(dim, Updated(Made(dim), vals).choice, vals) < dim.size * Len(vals)
<1> DEFINE n == dim.size
           len == Len(vals)
           runs == RunCount(vals)
           common == CommonBits(n, vals)
           enc == Updated(Made(dim), vals).choice
           counted == [Made(dim) EXCEPT !.points = @ + len, !.patches = @ + 1,
                                        !.runs = @ + runs, !.bits = @ + common]
           u == 8 * n - common
           raw == (u * len) \div 8 + 1 + 2 * n
           written == Len(RunLengthEncode(vals))
<1>1. /\ n \in {1, 2, 4, 8} /\ dim.double = FALSE /\ len \in Nat \ {0} /\ runs \in Nat
      /\ common \in 0 .. 8 * n /\ written \in Nat
      /\ MaxRun * written <= len + MaxRun * runs
  <2>1. n \in {1, 2, 4, 8} /\ dim.double = FALSE /\ len \in Nat \ {0}
    <3>1. dim.size \in {1, 2, 4, 8} /\ dim.double \in {FALSE}
      OBVIOUS
    <3>2. len \in Nat \ {0}
      OBVIOUS
    <3> QED
      BY <3>1, <3>2, Zenon
  <2>2. common \in 0 .. 8 * n
    BY <2>1, CommonBitsWithin
  <2>3. runs \in 1 .. len
    BY RunCountBounded
  <2>4. written \in Nat /\ MaxRun * written <= len + MaxRun * runs
    BY RunsWritten
  <2> QED
    BY <2>1, <2>2, <2>3, <2>4
<1>2. /\ enc = Recommended(counted)
      /\ counted.dim = dim /\ counted.points = len /\ counted.patches = 1
      /\ counted.runs = runs /\ counted.bits = common
  <2>1. Made(dim).dim = dim
    BY DEF Made
  <2>2. Updated(Made(dim), vals) = [counted EXCEPT !.choice = Recommended(counted)]
    BY <2>1 DEF Updated
  <2> HIDE DEF n, len, runs, common, enc
  <2>3. /\ counted.dim = dim /\ counted.points = len /\ counted.patches = 1
        /\ counted.runs = runs /\ counted.bits = common
    BY <1>1 DEF Made
  <2>4. "choice" \in DOMAIN counted
    BY DEF Made
  <2> HIDE DEF counted
  <2>5. [counted EXCEPT !.choice = Recommended(counted)].choice = Recommended(counted)
    BY <2>4
  <2>6. enc = Recommended(counted)
    BY <2>2, <2>5 DEF enc
  <2> QED
    BY <2>3, <2>6
<1>3. u \in Nat /\ 8 * n - common \div 1 = u
  BY <1>1
<1>4. Recommended(counted) =
        IF len * n > 4 * runs * (n + 1) THEN "rle"
        ELSE IF 10 * 8 * (len * n) > 16 * (8 * 1 * 2 * n + len * u) THEN "sigbits"
        ELSE "zlib"
  <2>1. dim.size = n
    OBVIOUS
  <2> HIDE DEF n, len, runs, common, u, counted
  <2> QED
    BY <1>1, <1>2, <1>3, <2>1 DEF Recommended
<1>5. CASE enc = "rle"
  <2>1. len * n > 4 * runs * (n + 1)
    BY <1>2, <1>4, <1>5
  <2> HIDE DEF n, len, runs, written
  <2>2. written * (n + 1) < n * len
    BY <1>1, <2>1, RunsPay
  <2>3. EncodedSize(dim, enc, vals) = written * (n + 1)
    BY <1>5 DEF EncodedSize, n, written
  <2> QED
    BY <2>2, <2>3 DEF n, len
<1>6. CASE enc = "sigbits"
  <2>1. 10 * 8 * (len * n) > 16 * (8 * 1 * 2 * n + len * u)
    BY <1>2, <1>4, <1>6
  <2>2. raw \in Nat /\ raw + (IF n = 1 THEN 0 ELSE n) < n * len
    <3> HIDE DEF n, len, u
    <3> QED
      BY <1>1, <1>3, <2>1, BitsPay
  <2>3. EncodedSize(dim, enc, vals) =
          IF n = 1 THEN raw ELSE IF n = 2 THEN raw + (raw % 2) ELSE raw + (n - (raw % n))
    <3>1. n = 1 \/ n = 2 \/ n > 2
      BY <1>1
    <3>2. ~ (1 > 2) /\ ~ (2 > 2)
      OBVIOUS
    <3> HIDE DEF enc
    <3> QED
      BY <1>1, <1>6, <3>1, <3>2 DEF EncodedSize
  <2> HIDE DEF raw, len, enc
  <2>4. EncodedSize(dim, enc, vals) < n * len
    <3>0. n * len \in Int
      BY <1>1
    <3>1. CASE n = 1
      BY <2>2, <2>3, <3>1
    <3>2. CASE n = 2
      <4>1. raw % 2 \in 0 .. 1
        BY <2>2
      <4> QED
        BY <2>2, <2>3, <3>0, <3>2, <4>1
    <3>3. CASE n # 1 /\ n # 2
      <4>1. raw % n \in 0 .. n - 1 /\ n \in Nat
        BY <1>1, <2>2, SMTT(30)
      <4> QED
        BY <2>2, <2>3, <3>0, <3>3, <4>1
    <3> QED
      BY <3>1, <3>2, <3>3
  <2> QED
    BY <2>4 DEF len, enc
<1> QED
  BY <1>2, <1>4, <1>5, <1>6

(* pc_dimstats_update recommends run lengths or significant bits by         *)
(* estimated sizes, which count neither the cut of the runs at MaxRun nor   *)
(* the padding: the column that the encoder writes is still smaller than    *)
(* the values it replaces, if a count byte counts to three (it counts to    *)
(* 255).                                                                    *)
THEOREM RecommendationsPay ==
  ASSUME MaxRun >= 3
  PROVE  SharedSpec => []RecommendationShrinks
<1>1. SharedInv => RecommendationShrinks
  <2> SUFFICES ASSUME SharedInv,
                      NEW dim \in [size : {1, 2, 4, 8}, double : {FALSE}],
                      Fits(dim.size), Updated(Made(dim), pts).choice # "zlib"
               PROVE  EncodedSize(dim, Updated(Made(dim), pts).choice, pts) < dim.size * Len(pts)
    BY Zenon DEF RecommendationShrinks
  <2>1. pts \in Seq(Val) /\ Len(pts) >= 1
    <3>1. pts \in Seq(Val) /\ Len(pts) \in 1 .. MaxLen
      BY Zenon DEF SharedInv, ColumnInv
    <3> QED
      BY <3>1, ColumnAssumption
  <2> QED
    BY <2>1, RecommendedPays
<1> QED
  BY <1>1, SharedInvHolds, PTL
=============================================================================
