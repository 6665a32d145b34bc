-------------------------- MODULE RunLengthProofs --------------------------
(***************************************************************************)
(* First, induction over natural numbers and what it says of folds and of  *)
(* recursive functions.  The induction theorems of the library take an     *)
(* operator, which no prover can instantiate; the lemmas here take a set   *)
(* instead, and get the induction from the well-founded order of the       *)
(* naturals.                                                               *)
(*                                                                         *)
(* Then what the operators of RunLength compute, for every sequence        *)
(* of values and every length of run: encoding loses nothing, and the      *)
(* positions, bitmaps, filters, extremes and sums found on the runs are    *)
(* those of the values they stand for.  The last lemmas say so of a column *)
(* under any encoding (Represents), which is all that proofs about patches *)
(* need.                                                                   *)
(***************************************************************************)
EXTENDS RunLength, SequenceTheorems, FiniteSetTheorems, WellFoundedInduction, TLAPS

(* A non-empty set of naturals has a least element.                         *)
LEMMA LeastNat ==
  ASSUME NEW T, T \subseteq Nat, T # {}
  PROVE  \E x \in T : \A y \in T : x <= y
<1> DEFINE R == {ss \in Nat \X Nat : ss[1] < ss[2]}
<1>1. IsWellFoundedOn(R, Nat)
  BY NatLessThanWellFounded DEF OpToRel
<1> HIDE DEF R
<1>2. PICK x \in T : \A y \in T : ~ (<<y, x>> \in R)
  BY <1>1, WFMin
<1>3. \A y \in T : ~ (y < x)
  BY <1>2 DEF R
<1> QED
  BY <1>3

(* Induction from 0 to m, over the set K of the numbers that are good.      *)
LEMMA UpTo ==
  ASSUME NEW m \in Nat, NEW K, 0 \in K, \A k \in 1 .. m : k - 1 \in K => k \in K
  PROVE  \A k \in 0 .. m : k \in K
<1>1. SUFFICES ASSUME NEW j \in 0 .. m, j \notin K PROVE FALSE
  OBVIOUS
<1> DEFINE T == {k \in 0 .. m : k \notin K}
<1>2. T \subseteq Nat /\ T # {}
  BY <1>1
<1> HIDE DEF T
<1>3. PICK k \in T : \A y \in T : k <= y
  BY <1>2, LeastNat
<1>4. k \in 1 .. m /\ k \notin K
  BY <1>3 DEF T
<1>5. k - 1 \notin T
  BY <1>3, <1>4
<1> QED
  BY <1>4, <1>5 DEF T

LEMMA MaxIs ==
  ASSUME NEW s \in SUBSET Int, NEW m \in s, \A x \in s : x <= m
  PROVE  Max(s) = m
<1>1. \E x \in s : \A y \in s : x >= y
  OBVIOUS
<1> DEFINE mx == Max(s)
<1>2. mx \in s /\ \A y \in s : mx >= y
  BY <1>1, Zenon DEF Max
<1>3. mx \in Int /\ m \in Int
  BY <1>2
<1> HIDE DEF mx
<1>4. mx = m
  BY <1>2, <1>3
<1> QED
  BY <1>4 DEF mx

LEMMA MinIs ==
  ASSUME NEW s \in SUBSET Int, NEW m \in s, \A x \in s : m <= x
  PROVE  Min(s) = m
<1>1. \E x \in s : \A y \in s : x <= y
  OBVIOUS
<1> DEFINE mn == Min(s)
<1>2. mn \in s /\ \A y \in s : mn <= y
  BY <1>1, Zenon DEF Min
<1>3. mn \in Int /\ m \in Int
  BY <1>2
<1> HIDE DEF mn
<1>4. mn = m
  BY <1>2, <1>3
<1> QED
  BY <1>4 DEF mn

LEMMA MaxIn ==
  ASSUME NEW m \in Nat, NEW s \in SUBSET (1 .. m), s # {}
  PROVE  Max(s) \in s
<1> DEFINE T == {m - x : x \in s}
<1>1. T \subseteq Nat /\ T # {}
  OBVIOUS
<1>2. PICK y \in T : \A z \in T : y <= z
  <2> HIDE DEF T
  <2> QED
    BY <1>1, LeastNat
<1>3. PICK x \in s : y = m - x
  BY <1>2
<1>4. s \in SUBSET Int /\ \A z \in s : z <= x
  BY <1>2, <1>3
<1>5. Max(s) = x
  BY <1>3, <1>4, MaxIs
<1> QED
  BY <1>3, <1>5

(* A left fold removes the greatest index first: from 1 .. k, k.            *)
LEMMA PeelLast ==
  ASSUME NEW k \in Nat \ {0}
  PROVE  /\ Max(1 .. k) = k
         /\ (1 .. k) \ {k} = 1 .. k - 1
         /\ 1 .. k # {}
<1>1. (1 .. k) \in SUBSET Int /\ k \in 1 .. k /\ \A x \in 1 .. k : x <= k
  OBVIOUS
<1>2. Max(1 .. k) = k
  BY <1>1, MaxIs, Zenon
<1>3. \A x : x \in (1 .. k) \ {k} <=> x \in 1 .. k - 1
  OBVIOUS
<1> QED
  BY <1>1, <1>2, <1>3, Zenon

(* it solves the recursion of a fold over 1 .. m; f a recursion on 0 .. m.  *)
SolvesFold(it, base, m, step) ==
  \A s \in SUBSET (1 .. m) :
    it[s] = IF s = {} THEN base ELSE step[<<Max(s), it[s \ {Max(s)}]>>]

SolvesRecursion(f, base, m, step) ==
  \A k \in 0 .. m : f[k] = IF k = 0 THEN base ELSE step[<<k, f[k - 1]>>]

(* The recursion equation of a fold has a solution: the CHOOSE that stands  *)
(* for the recursive function picks one.  V is a set the values stay in.    *)
LEMMA FoldExists ==
  ASSUME NEW V, NEW base \in V, NEW m \in Nat, NEW step \in [(1 .. m) \X V -> V]
  PROVE  \E it \in [SUBSET (1 .. m) -> V] : SolvesFold(it, base, m, step)
<1> DEFINE Good(k, it) == \A s \in SUBSET (1 .. k) :
              it[s] = IF s = {} THEN base ELSE step[<<Max(s), it[s \ {Max(s)}]>>]
           Has(k) == \E it \in [SUBSET (1 .. k) -> V] : Good(k, it)
           K == {k \in 0 .. m : Has(k)}
<1>1. 0 \in K
  <2> DEFINE it == [s \in SUBSET (1 .. 0) |-> base]
  <2>1. it \in [SUBSET (1 .. 0) -> V]
    OBVIOUS
  <2>2. Good(0, it)
    OBVIOUS
  <2>3. Has(0)
    BY <2>1, <2>2
  <2> HIDE DEF Has
  <2> QED
    BY <2>3
<1>2. ASSUME NEW n \in 1 .. m, n - 1 \in K PROVE n \in K
  <2> DEFINE k == n - 1
  <2>a. k \in Nat /\ n = k + 1
    OBVIOUS
  <2> SUFFICES Has(n)
    <3> HIDE DEF Has
    <3> QED
      OBVIOUS
  <2>1. PICK it \in [SUBSET (1 .. k) -> V] : Good(k, it)
    <3>1. Has(k)
      <4> HIDE DEF Has
      <4> QED
        BY <1>2
    <3> QED
      BY <3>1
  <2> HIDE DEF k
  <2> DEFINE new == [s \in SUBSET (1 .. n) |->
                       IF n \in s THEN step[<<n, it[s \ {n}]>>] ELSE it[s]]
  <2>2. ASSUME NEW s \in SUBSET (1 .. n)
        PROVE  /\ new[s] \in V
               /\ new[s] = IF s = {} THEN base ELSE step[<<Max(s), new[s \ {Max(s)}]>>]
    <3>1. CASE n \in s
      <4>1. Max(s) = n
        BY <3>1, MaxIs
      <4>2. s \ {n} \in SUBSET (1 .. k) /\ s \ {n} \in SUBSET (1 .. n) /\ n \notin s \ {n}
        BY <2>a
      <4>3. new[s \ {n}] = it[s \ {n}] /\ it[s \ {n}] \in V
        BY <4>2
      <4>4. new[s] = step[<<n, it[s \ {n}]>>]
        BY <3>1
      <4> HIDE DEF new
      <4> QED
        BY <3>1, <4>1, <4>3, <4>4
    <3>2. CASE n \notin s
      <4>1. s \in SUBSET (1 .. k)
        BY <2>a, <3>2
      <4>2. new[s] = it[s]
        BY <3>2
      <4>3. CASE s = {}
        BY <2>1, <4>1, <4>2, <4>3
      <4>4. CASE s # {}
        <5>1. it[s] = step[<<Max(s), it[s \ {Max(s)}]>>]
          BY <2>1, <4>1, <4>4
        <5>2. \A x : s \ {x} \in SUBSET (1 .. k) /\ s \ {x} \in SUBSET (1 .. n) /\ n \notin s \ {x}
          <6>1. n \notin 1 .. k /\ (1 .. k) \subseteq 1 .. n
            BY <2>a
          <6> QED
            BY <4>1, <6>1, Zenon
        <5>3. new[s \ {Max(s)}] = it[s \ {Max(s)}]
          BY <5>2
        <5>4. it[s] \in V
          BY <4>1
        <5> HIDE DEF new
        <5> QED
          BY <4>2, <4>4, <5>1, <5>3, <5>4
      <4> QED
        BY <4>3, <4>4
    <3> QED
      BY <3>1, <3>2
  <2>3. new \in [SUBSET (1 .. n) -> V] /\ Good(n, new)
    BY <2>2
  <2> QED
    BY <2>3
<1>3. Has(m)
  <2> HIDE DEF Has
  <2>1. \A k \in 0 .. m : k \in K
    <3> HIDE DEF K
    <3> QED
      BY <1>1, <1>2, UpTo
  <2> QED
    BY <2>1
<1> QED
  BY <1>3 DEF SolvesFold

(* The same for a function defined by recursion on 0 .. m.                  *)
LEMMA RecursionExists ==
  ASSUME NEW V, NEW base \in V, NEW m \in Nat, NEW step \in [(1 .. m) \X V -> V]
  PROVE  \E f \in [0 .. m -> V] : SolvesRecursion(f, base, m, step)
<1>1. PICK it \in [SUBSET (1 .. m) -> V] : SolvesFold(it, base, m, step)
  BY FoldExists, Zenon
<1> DEFINE f == [k \in 0 .. m |-> it[1 .. k]]
<1>2. ASSUME NEW k \in 0 .. m
      PROVE  f[k] \in V /\ f[k] = IF k = 0 THEN base ELSE step[<<k, f[k - 1]>>]
  <2>0. 1 .. k \in SUBSET (1 .. m) /\ it[1 .. k] \in V
    OBVIOUS
  <2>1. CASE k = 0
    <3>1. 1 .. k = {}
      BY <2>1
    <3> QED
      BY <1>1, <2>0, <2>1, <3>1 DEF SolvesFold
  <2>2. CASE k # 0
    <3>1. k \in Nat \ {0}
      BY <2>2
    <3>2. Max(1 .. k) = k /\ (1 .. k) \ {k} = 1 .. k - 1 /\ 1 .. k # {}
      BY <3>1, PeelLast
    <3>3. it[1 .. k] = step[<<k, it[1 .. k - 1]>>]
      <4>1. it[1 .. k] = step[<<Max(1 .. k), it[(1 .. k) \ {Max(1 .. k)}]>>]
        BY <1>1, <2>0, <3>2 DEF SolvesFold
      <4> QED
        BY <3>2, <4>1
    <3>4. f[k] = it[1 .. k] /\ f[k - 1] = it[1 .. k - 1]
      BY <2>2
    <3> HIDE DEF f
    <3> QED
      BY <2>0, <2>2, <3>3, <3>4
  <2> QED
    BY <2>1, <2>2
<1> QED
  BY <1>2 DEF SolvesRecursion

(* iter folds at least while its values stay in V.                          *)
FoldsWithin(iter, base, m, V, step) ==
  /\ iter[{}] = base
  /\ \A s \in SUBSET (1 .. m) :
       s # {} /\ iter[s \ {Max(s)}] \in V => iter[s] = step[<<Max(s), iter[s \ {Max(s)}]>>]

(* F holds the values the fold passes through.                              *)
UnrollsTo(F, iter, base, m, V, step) ==
  /\ F \in [0 .. m -> V]
  /\ F[0] = base
  /\ F[m] = iter[1 .. m]
  /\ \A k \in 1 .. m : F[k] = step[<<k, F[k - 1]>>]

(* The steps of a left fold, one for each element of the sequence.          *)
LEMMA FoldUnrolls ==
  ASSUME NEW V, NEW base \in V, NEW m \in Nat, NEW step \in [(1 .. m) \X V -> V],
         NEW iter, FoldsWithin(iter, base, m, V, step)
  PROVE  \E F : UnrollsTo(F, iter, base, m, V, step)
<1> DEFINE K == {k \in 0 .. m : iter[1 .. k] \in V}
           F == [k \in 0 .. m |-> iter[1 .. k]]
<1>1. ASSUME NEW k \in 1 .. m, iter[1 .. k - 1] \in V
      PROVE  iter[1 .. k] = step[<<k, iter[1 .. k - 1]>>]
  <2>1. k \in Nat \ {0} /\ 1 .. k \in SUBSET (1 .. m)
    OBVIOUS
  <2>2. Max(1 .. k) = k /\ (1 .. k) \ {k} = 1 .. k - 1 /\ 1 .. k # {}
    BY <2>1, PeelLast
  <2>3. iter[(1 .. k) \ {Max(1 .. k)}] \in V
    BY <1>1, <2>2, Zenon
  <2>4. iter[1 .. k] = step[<<Max(1 .. k), iter[(1 .. k) \ {Max(1 .. k)}]>>]
    BY <2>1, <2>2, <2>3 DEF FoldsWithin
  <2> QED
    BY <2>2, <2>4, Zenon
<1>2. 1 .. 0 = {} /\ iter[1 .. 0] = base
  BY DEF FoldsWithin
<1>3. \A k \in 0 .. m : iter[1 .. k] \in V
  <2>1. 0 \in K
    BY <1>2
  <2>2. ASSUME NEW k \in 1 .. m, k - 1 \in K PROVE k \in K
    <3>1. iter[1 .. k - 1] \in V
      BY <2>2
    <3>2. iter[1 .. k] = step[<<k, iter[1 .. k - 1]>>]
      BY <1>1, <3>1
    <3>3. <<k, iter[1 .. k - 1]>> \in (1 .. m) \X V
      BY <3>1
    <3>4. iter[1 .. k] \in V
      BY <3>2, <3>3
    <3> QED
      BY <3>4
  <2>3. \A k \in 0 .. m : k \in K
    <3> HIDE DEF K
    <3> QED
      BY <2>1, <2>2, UpTo
  <2> QED
    BY <2>3
<1>4. F \in [0 .. m -> V] /\ F[m] = iter[1 .. m]
  BY <1>3
<1>5. F[0] = base
  BY <1>2
<1>6. ASSUME NEW k \in 1 .. m PROVE F[k] = step[<<k, F[k - 1]>>]
  <2>1. iter[1 .. k - 1] \in V
    BY <1>3
  <2>2. F[k] = iter[1 .. k] /\ F[k - 1] = iter[1 .. k - 1]
    OBVIOUS
  <2> HIDE DEF F
  <2> QED
    BY <1>1, <2>1, <2>2
<1>7. UnrollsTo(F, iter, base, m, V, step)
  <2> HIDE DEF F
  <2> QED
    BY <1>4, <1>5, <1>6 DEF UnrollsTo
<1> QED
  BY <1>7

-----------------------------------------------------------------------------

(* Sequences of runs as the encoder and the filters leave them: no count is *)
(* 0, and none exceeds a count byte.                                        *)
RunSet(S) == [n : 1 .. MaxRun, v : S]

LEMMA RunFields ==
  ASSUME NEW S, NEW runs \in Seq(RunSet(S)), NEW k \in 1 .. Len(runs)
  PROVE  /\ runs[k] \in RunSet(S)
         /\ runs[k].n \in 1 .. MaxRun
         /\ runs[k].n \in Nat \ {0}
         /\ runs[k].v \in S
         /\ runs[k] = Run(runs[k].n, runs[k].v)
<1>1. runs[k] \in RunSet(S)
  BY ElementOfSeq, Zenon
<1> QED
  BY <1>1, MaxRunAssumption DEF RunSet, Run

LEMMA RunIn ==
  ASSUME NEW S, NEW n \in 1 .. MaxRun, NEW v \in S
  PROVE  Run(n, v) \in RunSet(S)
BY DEF Run, RunSet

(* The walk over the counts.                                                *)
LEMMA UptoSteps ==
  ASSUME NEW S, NEW runs \in Seq(RunSet(S))
  PROVE  /\ Upto(runs, 0) = 0
         /\ \A k \in 1 .. Len(runs) : Upto(runs, k) = Upto(runs, k - 1) + runs[k].n
         /\ \A k \in 0 .. Len(runs) : Upto(runs, k) \in Nat
<1> DEFINE m == Len(runs)
           step == [p \in (1 .. m) \X Nat |-> p[2] + runs[p[1]].n]
           Body(f) == [j \in 0 .. m |-> IF j = 0 THEN 0 ELSE f[j - 1] + runs[j].n]
           sum == CHOOSE f : f = Body(f)
<1>1. m \in Nat /\ \A k \in 1 .. m : runs[k].n \in Nat
  BY RunFields
<1>2. step \in [(1 .. m) \X Nat -> Nat] /\ 0 \in Nat
  <2> HIDE DEF m
  <2>1. ASSUME NEW p \in (1 .. m) \X Nat PROVE p[2] + runs[p[1]].n \in Nat
    BY <1>1
  <2> QED
    BY <2>1
<1>3. PICK f \in [0 .. m -> Nat] : SolvesRecursion(f, 0, m, step)
  <2> HIDE DEF m, step
  <2> QED
    BY <1>1, <1>2, RecursionExists, Zenon
<1>4. f = Body(f)
  <2>1. ASSUME NEW k \in 1 .. m PROVE f[k] = f[k - 1] + runs[k].n
    <3> HIDE DEF m
    <3>1. f[k - 1] \in Nat
      BY <1>1
    <3>2. f[k] = step[<<k, f[k - 1]>>]
      <4> HIDE DEF step
      <4> QED
        BY <1>1, <1>3 DEF SolvesRecursion
    <3> QED
      BY <3>1, <3>2
  <2>2. f[0] = 0
    BY <1>1, <1>3 DEF SolvesRecursion
  <2> HIDE DEF m
  <2> QED
    BY <2>1, <2>2, <1>1
<1>5. sum = Body(sum)
  <2> HIDE DEF Body
  <2> QED
    BY <1>4, Zenon
<1>6. \A k : Upto(runs, k) = sum[k]
  BY DEF Upto
<1> HIDE DEF sum
<1>7. sum[0] = 0 /\ \A k \in 1 .. m : sum[k] = sum[k - 1] + runs[k].n
  <2> HIDE DEF m
  <2> QED
    BY <1>1, <1>5
<1>8. \A k \in 0 .. m : sum[k] \in Nat
  <2> DEFINE K == {k \in 0 .. m : sum[k] \in Nat}
  <2>1. 0 \in K
    BY <1>1, <1>7
  <2>2. ASSUME NEW k \in 1 .. m, k - 1 \in K PROVE k \in K
    BY <1>1, <1>7, <2>2, SMTT(30)
  <2> HIDE DEF K
  <2>3. \A k \in 0 .. m : k \in K
    BY <1>1, <2>1, <2>2, UpTo
  <2> QED
    BY <2>3 DEF K
<1> QED
  BY <1>6, <1>7, <1>8, Zenon

LEMMA UptoMonotone ==
  ASSUME NEW S, NEW runs \in Seq(RunSet(S)), NEW j \in 0 .. Len(runs), NEW k \in 0 .. Len(runs)
  PROVE  /\ j <= k => Upto(runs, j) <= Upto(runs, k)
         /\ j < k => Upto(runs, j) < Upto(runs, k)
<1> DEFINE m == Len(runs)
           U(i) == Upto(runs, i)
           K == {i \in 0 .. m : j < i => U(j) < U(i)}
<1>1. /\ m \in Nat /\ j \in 0 .. m /\ k \in 0 .. m
      /\ \A i \in 1 .. m : U(i) = U(i - 1) + runs[i].n /\ runs[i].n \in Nat \ {0}
      /\ \A i \in 0 .. m : U(i) \in Nat
  BY UptoSteps, RunFields
<1> HIDE DEF U
<1>2. 0 \in K
  BY <1>1
<1>3. ASSUME NEW i \in 1 .. m, i - 1 \in K PROVE i \in K
  <2> HIDE DEF m
  <2>1. i - 1 \in 0 .. m /\ i \in 0 .. m /\ j \in 0 .. m
    BY <1>1
  <2>2. U(i) = U(i - 1) + runs[i].n /\ runs[i].n \in Nat \ {0}
    BY <1>1
  <2>3. U(i) \in Nat /\ U(i - 1) \in Nat /\ U(j) \in Nat
    BY <1>1, <2>1
  <2>4. j < i - 1 => U(j) < U(i - 1)
    BY <1>3
  <2>5. j < i => U(j) < U(i)
    BY <2>1, <2>2, <2>3, <2>4
  <2> QED
    BY <2>1, <2>5
<1>4. \A i \in 0 .. m : i \in K
  <2> HIDE DEF K
  <2> QED
    BY <1>1, <1>2, <1>3, UpTo
<1>5. j < k => U(j) < U(k)
  BY <1>4
<1> QED
  BY <1>1, <1>5 DEF U

(* Sequences that begin with the same runs have the same counts there.      *)
LEMMA UptoAgrees ==
  ASSUME NEW S, NEW a \in Seq(RunSet(S)), NEW b \in Seq(RunSet(S)),
         NEW m \in Nat, m <= Len(a), m <= Len(b),
         \A k \in 1 .. m : a[k].n = b[k].n
  PROVE  \A k \in 0 .. m : Upto(a, k) = Upto(b, k)
<1> DEFINE K == {k \in 0 .. m : Upto(a, k) = Upto(b, k)}
<1>1. 0 \in K
  BY UptoSteps
<1>2. ASSUME NEW k \in 1 .. m, k - 1 \in K PROVE k \in K
  <2>1. k \in 1 .. Len(a) /\ k \in 1 .. Len(b)
    OBVIOUS
  <2>2. Upto(a, k) = Upto(a, k - 1) + a[k].n /\ Upto(b, k) = Upto(b, k - 1) + b[k].n
    BY <2>1, UptoSteps
  <2> QED
    BY <1>2, <2>2
<1>3. \A k \in 0 .. m : k \in K
  <2> HIDE DEF K
  <2> QED
    BY <1>1, <1>2, UpTo
<1> QED
  BY <1>3

(* The run that holds a position is the only one.                           *)
LEMMA RunOfIs ==
  ASSUME NEW S, NEW runs \in Seq(RunSet(S)), NEW n \in Nat, NEW k \in 1 .. Len(runs),
         Upto(runs, k - 1) <= n, n < Upto(runs, k)
  PROVE  RunOf(runs, n) = k
<1> DEFINE Holds(j) == Upto(runs, j - 1) <= n /\ n < Upto(runs, j)
           r == RunOf(runs, n)
<1>1. DOMAIN runs = 1 .. Len(runs) /\ Len(runs) \in Nat
  OBVIOUS
<1>2. r \in 1 .. Len(runs) /\ Holds(r)
  <2>1. \E j \in DOMAIN runs : Holds(j)
    BY <1>1
  <2>2. r \in DOMAIN runs /\ Holds(r)
    BY <2>1, Zenon DEF RunOf
  <2> QED
    BY <1>1, <2>2
<1> HIDE DEF r
<1>3. /\ r - 1 \in 0 .. Len(runs) /\ k - 1 \in 0 .. Len(runs)
      /\ r \in 0 .. Len(runs) /\ k \in 0 .. Len(runs)
  BY <1>1, <1>2
<1>4. /\ Upto(runs, r) \in Nat /\ Upto(runs, k) \in Nat
      /\ Upto(runs, r - 1) \in Nat /\ Upto(runs, k - 1) \in Nat
  BY <1>3, UptoSteps
<1>5. ~ (r < k)
  <2>1. r <= k - 1 => Upto(runs, r) <= Upto(runs, k - 1)
    BY <1>3, UptoMonotone
  <2> QED
    BY <1>2, <1>3, <1>4, <2>1
<1>6. ~ (k < r)
  <2>1. k <= r - 1 => Upto(runs, k) <= Upto(runs, r - 1)
    BY <1>3, UptoMonotone
  <2> QED
    BY <1>2, <1>3, <1>4, <2>1
<1>7. r = k
  BY <1>3, <1>5, <1>6
<1> QED
  BY <1>7 DEF r

LEMMA RunOfIn ==
  ASSUME NEW S, NEW runs \in Seq(RunSet(S)), NEW n \in Nat, n < Total(runs)
  PROVE  /\ RunOf(runs, n) \in 1 .. Len(runs)
         /\ Upto(runs, RunOf(runs, n) - 1) <= n
         /\ n < Upto(runs, RunOf(runs, n))
<1> DEFINE m == Len(runs)
           T == {k \in 0 .. m : n < Upto(runs, k)}
<1>1. /\ m \in Nat
      /\ Upto(runs, 0) = 0
      /\ \A k \in 0 .. m : Upto(runs, k) \in Nat
      /\ n < Upto(runs, m)
  BY UptoSteps DEF Total
<1>2. T \subseteq Nat /\ T # {}
  <2> HIDE DEF m
  <2> QED
    BY <1>1
<1>3. PICK k \in T : \A y \in T : k <= y
  <2> HIDE DEF T
  <2> QED
    BY <1>2, LeastNat
<1>4. k \in 1 .. m /\ n < Upto(runs, k) /\ Upto(runs, k - 1) <= n
  <2> HIDE DEF m
  <2>1. k \in 1 .. m
    BY <1>1, <1>3
  <2>2. k - 1 \notin T
    BY <1>1, <1>3, <2>1
  <2> QED
    BY <1>1, <1>3, <2>1, <2>2
<1>5. RunOf(runs, n) = k
  BY <1>4, RunOfIs
<1> QED
  BY <1>4, <1>5

(* The values a sequence of runs stands for, found as pc_bytes_to_ptr does. *)
Expanded(runs) == [i \in 1 .. Total(runs) |-> runs[RunOf(runs, i - 1)].v]

LEMMA ExpandedIn ==
  ASSUME NEW S, NEW runs \in Seq(RunSet(S))
  PROVE  /\ Total(runs) \in Nat
         /\ Expanded(runs) \in Seq(S)
         /\ Len(Expanded(runs)) = Total(runs)
<1>1. Total(runs) \in Nat
  <2>1. Len(runs) \in 0 .. Len(runs)
    OBVIOUS
  <2> QED
    BY <2>1, UptoSteps DEF Total
<1>2. ASSUME NEW i \in 1 .. Total(runs) PROVE runs[RunOf(runs, i - 1)].v \in S
  <2>1. i - 1 \in Nat /\ i - 1 < Total(runs)
    BY <1>1
  <2>2. RunOf(runs, i - 1) \in 1 .. Len(runs)
    BY <2>1, RunOfIn
  <2> QED
    BY <2>2, RunFields
<1> QED
  BY <1>1, <1>2 DEF Expanded
(* The open run of a non-empty column.                                      *)
LEMMA LastRun ==
  ASSUME NEW S, NEW runs \in Seq(RunSet(S)), runs # <<>>
  PROVE  /\ Len(runs) \in 1 .. Len(runs)
         /\ Last(runs) = runs[Len(runs)]
<1> DEFINE R == RunSet(S)
<1> HIDE DEF R
<1>1. Len(runs) \in Nat /\ Len(runs) # 0
  BY EmptySeq, Zenon DEF R
<1> QED
  BY <1>1 DEF Last

LEMMA ExtendIn ==
  ASSUME NEW S, NEW runs \in Seq(RunSet(S)), NEW v \in S
  PROVE  Extend(runs, v) \in Seq(RunSet(S))
<1> DEFINE R == RunSet(S)
           k == Len(runs)
<1>1. CASE runs # <<>> /\ Last(runs).v = v /\ Last(runs).n < MaxRun
  <2>1. k \in 1 .. Len(runs) /\ runs[k].n \in 1 .. MaxRun /\ runs[k].n < MaxRun
    BY <1>1, LastRun, RunFields
  <2>2. Run(runs[k].n + 1, v) \in R
    BY <2>1, RunIn, MaxRunAssumption
  <2>3. Extend(runs, v) = [runs EXCEPT ![k] = Run(runs[k].n + 1, v)]
    BY <1>1 DEF Extend
  <2> HIDE DEF R
  <2>4. runs \in Seq(R)
    BY DEF R
  <2>5. [runs EXCEPT ![k] = Run(runs[k].n + 1, v)] \in Seq(R)
    BY <2>1, <2>2, <2>4
  <2> QED
    BY <2>3, <2>5 DEF R
<1>2. CASE ~ (runs # <<>> /\ Last(runs).v = v /\ Last(runs).n < MaxRun)
  <2>1. Extend(runs, v) = Append(runs, Run(1, v))
    BY <1>2 DEF Extend
  <2>2. Run(1, v) \in R
    BY RunIn, MaxRunAssumption
  <2> HIDE DEF R
  <2>3. Append(runs, Run(1, v)) \in Seq(R)
    BY <2>2, AppendProperties, Zenon DEF R
  <2> QED
    BY <2>1, <2>3 DEF R
<1> QED
  BY <1>1, <1>2

(* The encoder, value by value.                                              *)
EncodeSteps(F, S, vals) ==
  /\ F \in [0 .. Len(vals) -> Seq(RunSet(S))]
  /\ F[0] = <<>>
  /\ F[Len(vals)] = RunLengthEncode(vals)
  /\ \A k \in 1 .. Len(vals) : F[k] = Extend(F[k - 1], vals[k])

LEMMA EncodeFold ==
  ASSUME NEW S, NEW vals \in Seq(S)
  PROVE  \E F : EncodeSteps(F, S, vals)
<1> DEFINE m == Len(vals)
           V == Seq(RunSet(S))
           step == [p \in (1 .. m) \X V |-> Extend(p[2], vals[p[1]])]
           Body(it) == [s \in SUBSET (DOMAIN vals) |->
                          IF s = {} THEN <<>> ELSE Extend(it[s \ {Max(s)}], vals[Max(s)])]
           iter == CHOOSE it : it = Body(it)
<1>1. DOMAIN vals = 1 .. m /\ m \in Nat /\ <<>> \in V
  OBVIOUS
<1>2. \A v \in V, k \in 1 .. m : step[<<k, v>>] = Extend(v, vals[k])
  <2> HIDE DEF V, m
  <2> QED
    OBVIOUS
<1>3. step \in [(1 .. m) \X V -> V]
  <2>1. ASSUME NEW p \in (1 .. m) \X V PROVE Extend(p[2], vals[p[1]]) \in V
    <3>1. p[2] \in V /\ p[1] \in 1 .. m
      <4> HIDE DEF m, V
      <4> QED
        OBVIOUS
    <3> QED
      BY <3>1, ExtendIn, ElementOfSeq
  <2> HIDE DEF m, V
  <2> QED
    BY <2>1
<1> HIDE DEF m, V, step
<1>4. PICK it \in [SUBSET (1 .. m) -> V] : SolvesFold(it, <<>>, m, step)
  BY <1>1, <1>3, FoldExists, Zenon
<1>5. iter = Body(iter)
  <2>1. it[{}] = <<>>
    BY <1>4 DEF SolvesFold
  <2>2. ASSUME NEW s \in SUBSET (1 .. m), s # {}
        PROVE  it[s] = Extend(it[s \ {Max(s)}], vals[Max(s)])
    <3>1. Max(s) \in 1 .. m /\ it[s \ {Max(s)}] \in V
      BY <1>1, <2>2, MaxIn
    <3>2. it[s] = step[<<Max(s), it[s \ {Max(s)}]>>]
      BY <1>4, <2>2 DEF SolvesFold
    <3> QED
      BY <1>2, <3>1, <3>2
  <2>3. it = Body(it)
    BY <1>1, <2>1, <2>2
  <2> HIDE DEF Body
  <2> QED
    BY <2>3, Zenon
<1>6. RunLengthEncode(vals) = iter[1 .. m]
  BY <1>1, Zenon DEF RunLengthEncode, FoldLeft, MapThenFoldSet
<1> HIDE DEF iter
<1>7. FoldsWithin(iter, <<>>, m, V, step)
  <2>1. iter[{}] = <<>>
    BY <1>1, <1>5, Zenon
  <2>2. ASSUME NEW s \in SUBSET (1 .. m), s # {}, iter[s \ {Max(s)}] \in V
        PROVE  iter[s] = step[<<Max(s), iter[s \ {Max(s)}]>>]
    <3>1. iter[s] = Extend(iter[s \ {Max(s)}], vals[Max(s)])
      BY <1>1, <1>5, <2>2, Zenon
    <3>2. Max(s) \in 1 .. m
      BY <1>1, <2>2, MaxIn
    <3> QED
      BY <1>2, <2>2, <3>1, <3>2
  <2> QED
    BY <2>1, <2>2 DEF FoldsWithin
<1>8. PICK F : UnrollsTo(F, iter, <<>>, m, V, step)
  BY <1>1, <1>3, <1>7, FoldUnrolls, Zenon
<1>9. /\ F \in [0 .. m -> V]
      /\ F[0] = <<>>
      /\ F[m] = iter[1 .. m]
      /\ \A k \in 1 .. m : F[k] = step[<<k, F[k - 1]>>]
  BY <1>8, Zenon DEF UnrollsTo
<1>10. ASSUME NEW k \in 1 .. m PROVE F[k] = Extend(F[k - 1], vals[k])
  <2>1. F[k - 1] \in V
    BY <1>1, <1>9
  <2> QED
    BY <1>2, <1>9, <2>1
<1>11. EncodeSteps(F, S, vals)
  BY <1>6, <1>9, <1>10, Zenon DEF EncodeSteps, m, V
<1> QED
  BY <1>11

(* n times the same value.                                                  *)
Repeat(n, v) == [i \in 1 .. n |-> v]

LEMMA RepeatIn ==
  ASSUME NEW S, NEW v \in S, NEW n \in Nat
  PROVE  /\ Repeat(n, v) \in Seq(S)
         /\ Len(Repeat(n, v)) = n
         /\ \A i \in 1 .. n : Repeat(n, v)[i] = v
         /\ Repeat(n + 1, v) = Append(Repeat(n, v), v)
         /\ Repeat(0, v) = <<>>
BY DEF Repeat

(* The values of a run are added to those decoded so far.                   *)
Joined(vals, r) == vals \o Repeat(r.n, r.v)

LEMMA JoinedIn ==
  ASSUME NEW S, NEW vals \in Seq(S), NEW runs \in Seq(RunSet(S)), NEW k \in 1 .. Len(runs)
  PROVE  Joined(vals, runs[k]) \in Seq(S)
<1>1. runs[k].n \in Nat /\ runs[k].v \in S
  BY RunFields
<1>2. Repeat(runs[k].n, runs[k].v) \in Seq(S)
  BY <1>1, RepeatIn
<1> QED
  BY <1>2, ConcatProperties, Zenon DEF Joined

(* A marked point is kept.                                                  *)
Kept(seq, map, kept, i) == IF map[i] THEN Append(kept, seq[i]) ELSE kept

LEMMA KeptIn ==
  ASSUME NEW S, NEW seq \in Seq(S), NEW map, NEW kept \in Seq(S), NEW i \in 1 .. Len(seq)
  PROVE  Kept(seq, map, kept, i) \in Seq(S)
<1>1. seq[i] \in S
  BY ElementOfSeq, Zenon
<1>2. Append(kept, seq[i]) \in Seq(S)
  BY <1>1, AppendProperties, Zenon
<1> QED
  BY <1>2 DEF Kept

(* The decoder, run by run.                                                  *)
DecodeSteps(F, S, runs) ==
  /\ F \in [0 .. Len(runs) -> Seq(S)]
  /\ F[0] = <<>>
  /\ F[Len(runs)] = RunLengthDecode(runs)
  /\ \A k \in 1 .. Len(runs) : F[k] = Joined(F[k - 1], runs[k])

LEMMA DecodeFold ==
  ASSUME NEW S, NEW runs \in Seq(RunSet(S))
  PROVE  \E F : DecodeSteps(F, S, runs)
<1> DEFINE m == Len(runs)
           V == Seq(S)
           step == [p \in (1 .. m) \X V |-> Joined(p[2], runs[p[1]])]
           Body(it) == [s \in SUBSET (DOMAIN runs) |->
                          IF s = {} THEN <<>> ELSE Joined(it[s \ {Max(s)}], runs[Max(s)])]
           iter == CHOOSE it : it = Body(it)
<1>1. DOMAIN runs = 1 .. m /\ m \in Nat /\ <<>> \in V
  OBVIOUS
<1>2. \A v \in V, k \in 1 .. m : step[<<k, v>>] = Joined(v, runs[k])
  <2> HIDE DEF V, m
  <2> QED
    OBVIOUS
<1>3. step \in [(1 .. m) \X V -> V]
  <2>1. ASSUME NEW p \in (1 .. m) \X V PROVE Joined(p[2], runs[p[1]]) \in V
    <3>1. p[2] \in V /\ p[1] \in 1 .. m
      <4> HIDE DEF m, V
      <4> QED
        OBVIOUS
    <3> QED
      BY <3>1, JoinedIn
  <2> HIDE DEF m, V
  <2> QED
    BY <2>1
<1> HIDE DEF m, V, step
<1>4. PICK it \in [SUBSET (1 .. m) -> V] : SolvesFold(it, <<>>, m, step)
  BY <1>1, <1>3, FoldExists, Zenon
<1>5. iter = Body(iter)
  <2>1. it[{}] = <<>>
    BY <1>4 DEF SolvesFold
  <2>2. ASSUME NEW s \in SUBSET (1 .. m), s # {}
        PROVE  it[s] = Joined(it[s \ {Max(s)}], runs[Max(s)])
    <3>1. Max(s) \in 1 .. m /\ it[s \ {Max(s)}] \in V
      BY <1>1, <2>2, MaxIn
    <3>2. it[s] = step[<<Max(s), it[s \ {Max(s)}]>>]
      BY <1>4, <2>2 DEF SolvesFold
    <3> QED
      BY <1>2, <3>1, <3>2
  <2>3. it = Body(it)
    BY <1>1, <2>1, <2>2
  <2> HIDE DEF Body
  <2> QED
    BY <2>3, Zenon
<1>6. RunLengthDecode(runs) = iter[1 .. m]
  BY <1>1, Zenon DEF RunLengthDecode, Joined, Repeat, FoldLeft, MapThenFoldSet
<1> HIDE DEF iter
<1>7. FoldsWithin(iter, <<>>, m, V, step)
  <2>1. iter[{}] = <<>>
    BY <1>1, <1>5, Zenon
  <2>2. ASSUME NEW s \in SUBSET (1 .. m), s # {}, iter[s \ {Max(s)}] \in V
        PROVE  iter[s] = step[<<Max(s), iter[s \ {Max(s)}]>>]
    <3>1. iter[s] = Joined(iter[s \ {Max(s)}], runs[Max(s)])
      BY <1>1, <1>5, <2>2, Zenon
    <3>2. Max(s) \in 1 .. m
      BY <1>1, <2>2, MaxIn
    <3> QED
      BY <1>2, <2>2, <3>1, <3>2
  <2> QED
    BY <2>1, <2>2 DEF FoldsWithin
<1>8. PICK F : UnrollsTo(F, iter, <<>>, m, V, step)
  BY <1>1, <1>3, <1>7, FoldUnrolls, Zenon
<1>9. /\ F \in [0 .. m -> V]
      /\ F[0] = <<>>
      /\ F[m] = iter[1 .. m]
      /\ \A k \in 1 .. m : F[k] = step[<<k, F[k - 1]>>]
  BY <1>8, Zenon DEF UnrollsTo
<1>10. ASSUME NEW k \in 1 .. m PROVE F[k] = Joined(F[k - 1], runs[k])
  <2>1. F[k - 1] \in V
    BY <1>1, <1>9
  <2> QED
    BY <1>2, <1>9, <2>1
<1>11. DecodeSteps(F, S, runs)
  BY <1>6, <1>9, <1>10, Zenon DEF DecodeSteps, m, V
<1> QED
  BY <1>11

(* The marked points, point by point.                                        *)
MarkedSteps(F, S, seq, map) ==
  /\ F \in [0 .. Len(seq) -> Seq(S)]
  /\ F[0] = <<>>
  /\ F[Len(seq)] = Marked(seq, map)
  /\ \A k \in 1 .. Len(seq) : F[k] = Kept(seq, map, F[k - 1], k)

LEMMA MarkedFold ==
  ASSUME NEW S, NEW seq \in Seq(S), NEW map
  PROVE  \E F : MarkedSteps(F, S, seq, map)
<1> DEFINE m == Len(seq)
           V == Seq(S)
           ids == [i \in DOMAIN seq |-> i]
           step == [p \in (1 .. m) \X V |-> Kept(seq, map, p[2], p[1])]
           Body(it) == [s \in SUBSET (DOMAIN ids) |->
                          IF s = {} THEN <<>> ELSE Kept(seq, map, it[s \ {Max(s)}], ids[Max(s)])]
           iter == CHOOSE it : it = Body(it)
<1>1. DOMAIN seq = 1 .. m /\ m \in Nat /\ <<>> \in V
  OBVIOUS
<1>0. DOMAIN ids = 1 .. m /\ \A k \in 1 .. m : ids[k] = k
  BY <1>1
<1>2. \A v \in V, k \in 1 .. m : step[<<k, v>>] = Kept(seq, map, v, k)
  <2> HIDE DEF V, m
  <2> QED
    OBVIOUS
<1>3. step \in [(1 .. m) \X V -> V]
  <2>1. ASSUME NEW p \in (1 .. m) \X V PROVE Kept(seq, map, p[2], p[1]) \in V
    <3>1. p[2] \in V /\ p[1] \in 1 .. m
      <4> HIDE DEF m, V
      <4> QED
        OBVIOUS
    <3> QED
      BY <3>1, KeptIn
  <2> HIDE DEF m, V
  <2> QED
    BY <2>1
<1> HIDE DEF m, V, step, ids
<1>4. PICK it \in [SUBSET (1 .. m) -> V] : SolvesFold(it, <<>>, m, step)
  BY <1>1, <1>3, FoldExists, Zenon
<1>5. iter = Body(iter)
  <2>1. it[{}] = <<>>
    BY <1>4 DEF SolvesFold
  <2>2. ASSUME NEW s \in SUBSET (1 .. m), s # {}
        PROVE  it[s] = Kept(seq, map, it[s \ {Max(s)}], ids[Max(s)])
    <3>1. Max(s) \in 1 .. m /\ it[s \ {Max(s)}] \in V
      BY <1>1, <2>2, MaxIn
    <3>2. it[s] = step[<<Max(s), it[s \ {Max(s)}]>>]
      BY <1>4, <2>2 DEF SolvesFold
    <3> QED
      BY <1>2, <1>0, <3>1, <3>2
  <2>3. it = Body(it)
    BY <1>1, <1>0, <2>1, <2>2
  <2> HIDE DEF Body
  <2> QED
    BY <2>3, Zenon
<1>6. Marked(seq, map) = iter[1 .. m]
  BY <1>1, <1>0, Zenon DEF Marked, Kept, FoldLeftDomain, FoldLeft, MapThenFoldSet, ids
<1> HIDE DEF iter
<1>7. FoldsWithin(iter, <<>>, m, V, step)
  <2>1. iter[{}] = <<>>
    BY <1>1, <1>5, Zenon
  <2>2. ASSUME NEW s \in SUBSET (1 .. m), s # {}, iter[s \ {Max(s)}] \in V
        PROVE  iter[s] = step[<<Max(s), iter[s \ {Max(s)}]>>]
    <3>1. iter[s] = Kept(seq, map, iter[s \ {Max(s)}], ids[Max(s)])
      BY <1>1, <1>0, <1>5, <2>2, Zenon
    <3>2. Max(s) \in 1 .. m
      BY <1>1, <2>2, MaxIn
    <3> QED
      BY <1>2, <1>0, <2>2, <3>1, <3>2
  <2> QED
    BY <2>1, <2>2 DEF FoldsWithin
<1>8. PICK F : UnrollsTo(F, iter, <<>>, m, V, step)
  BY <1>1, <1>3, <1>7, FoldUnrolls, Zenon
<1>9. /\ F \in [0 .. m -> V]
      /\ F[0] = <<>>
      /\ F[m] = iter[1 .. m]
      /\ \A k \in 1 .. m : F[k] = step[<<k, F[k - 1]>>]
  BY <1>8, Zenon DEF UnrollsTo
<1>10. ASSUME NEW k \in 1 .. m PROVE F[k] = Kept(seq, map, F[k - 1], k)
  <2>1. F[k - 1] \in V
    BY <1>1, <1>9
  <2> QED
    BY <1>2, <1>9, <2>1
<1>11. MarkedSteps(F, S, seq, map)
  BY <1>6, <1>9, <1>10, Zenon DEF MarkedSteps, m, V
<1> QED
  BY <1>11


(* One more run adds its values at the end.                                 *)
AddsAtEnd(S, a, n, v) ==
  LET b == Append(a, Run(n, v))
  IN /\ b \in Seq(RunSet(S))
     /\ Total(b) = Total(a) + n
     /\ \A k \in 0 .. Len(a) : Upto(b, k) = Upto(a, k)
     /\ Expanded(b) = Expanded(a) \o Repeat(n, v)

LEMMA ExpandedAppend ==
  ASSUME NEW S, NEW a \in Seq(RunSet(S)), NEW n \in 1 .. MaxRun, NEW v \in S
  PROVE  AddsAtEnd(S, a, n, v)
<1> DEFINE R == RunSet(S)
           b == Append(a, Run(n, v))
           new == Repeat(n, v)
           old == Expanded(a)
           l == Len(a)
           x == Run(n, v)
<1>1. Run(n, v) \in R /\ n \in Nat
  BY RunIn, MaxRunAssumption
<1>2. /\ b \in Seq(R) /\ Len(b) = l + 1 /\ l \in Nat
      /\ \A k \in 1 .. l : b[k] = a[k]
      /\ b[l + 1] = Run(n, v)
  <2>1. x \in R /\ a \in Seq(R) /\ b = Append(a, x)
    BY <1>1
  <2> HIDE DEF R, x
  <2> QED
    BY <2>1, AppendProperties DEF x
<1> HIDE DEF b
<1>3. \A k \in 0 .. l : Upto(b, k) = Upto(a, k)
  <2>1. l <= Len(a) /\ l <= Len(b) /\ \A k \in 1 .. l : a[k].n = b[k].n
    BY <1>2
  <2> HIDE DEF l
  <2> QED
    BY <1>2, <2>1, UptoAgrees
<1>4. Total(b) = Total(a) + n /\ Total(a) \in Nat
  <2>1. b[l + 1].n = n /\ l + 1 \in 1 .. Len(b)
    BY <1>2 DEF Run
  <2>2. Upto(b, l + 1) = Upto(b, l) + n
    <3>1. Upto(b, l + 1) = Upto(b, (l + 1) - 1) + b[l + 1].n
      BY <1>2, <2>1, UptoSteps
    <3> QED
      BY <1>2, <2>1, <3>1
  <2> QED
    BY <1>2, <1>3, <2>2, ExpandedIn DEF Total
<1>5. /\ old \in Seq(S) /\ Len(old) = Total(a)
      /\ Expanded(b) \in Seq(S) /\ Len(Expanded(b)) = Total(b)
  BY <1>2, ExpandedIn
<1> HIDE DEF old
<1>6. new \in Seq(S) /\ Len(new) = n /\ \A i \in 1 .. n : new[i] = v
  BY <1>1, RepeatIn
<1> HIDE DEF new
<1>7. /\ old \o new \in Seq(S)
      /\ Len(old \o new) = Total(a) + n
      /\ \A i \in 1 .. Total(a) + n : (old \o new)[i] =
            IF i <= Total(a) THEN old[i] ELSE new[i - Total(a)]
  <2>1. /\ old \o new \in Seq(S)
        /\ Len(old \o new) = Len(old) + Len(new)
        /\ \A i \in 1 .. Len(old) + Len(new) : (old \o new)[i] =
              IF i <= Len(old) THEN old[i] ELSE new[i - Len(old)]
    BY <1>5, <1>6, ConcatProperties, Zenon
  <2> QED
    BY <1>5, <1>6, <2>1, Zenon
<1>8. ASSUME NEW i \in 1 .. Total(b) PROVE Expanded(b)[i] = (old \o new)[i]
  <2>0. i - 1 \in Nat /\ i \in 1 .. Total(a) + n
    BY <1>4
  <2>1. Expanded(b)[i] = b[RunOf(b, i - 1)].v
    BY DEF Expanded
  <2>2. CASE i <= Total(a)
    <3>1. i - 1 < Total(a) /\ i \in 1 .. Total(a)
      BY <1>4, <2>0, <2>2
    <3> DEFINE r == RunOf(a, i - 1)
    <3>2. r \in 1 .. l /\ Upto(a, r - 1) <= i - 1 /\ i - 1 < Upto(a, r)
      BY <2>0, <3>1, RunOfIn
    <3>3. Upto(b, r - 1) <= i - 1 /\ i - 1 < Upto(b, r) /\ r \in 1 .. Len(b)
      <4> HIDE DEF r, l
      <4>1. r - 1 \in 0 .. l /\ r \in 0 .. l
        BY <1>2, <3>2
      <4> QED
        BY <1>2, <1>3, <3>2, <4>1
    <3>4. RunOf(b, i - 1) = r
      <4> HIDE DEF r
      <4> QED
        BY <1>2, <2>0, <3>3, RunOfIs
    <3>5. old[i] = a[r].v
      BY <3>1 DEF old, Expanded
    <3> HIDE DEF r
    <3> QED
      BY <1>2, <1>7, <2>0, <2>1, <2>2, <3>2, <3>4, <3>5
  <2>3. CASE ~ (i <= Total(a))
    <3>1. Upto(b, (l + 1) - 1) <= i - 1 /\ i - 1 < Upto(b, l + 1)
      <4>1. Upto(b, l) = Total(a)
        BY <1>2, <1>3 DEF Total
      <4>2. Upto(b, l + 1) = Total(b) /\ (l + 1) - 1 = l
        BY <1>2 DEF Total
      <4> QED
        BY <1>4, <2>0, <2>3, <4>1, <4>2
    <3>2. RunOf(b, i - 1) = l + 1
      <4>1. l + 1 \in 1 .. Len(b)
        BY <1>2
      <4> QED
        BY <1>2, <2>0, <3>1, <4>1, RunOfIs, Zenon
    <3>3. Expanded(b)[i] = v
      BY <1>2, <2>1, <3>2 DEF Run
    <3>4. i - Total(a) \in 1 .. n
      BY <1>4, <2>0, <2>3
    <3> QED
      BY <1>6, <1>7, <2>0, <2>3, <3>3, <3>4
  <2> QED
    BY <2>2, <2>3
<1>9. Expanded(b) = old \o new
  BY <1>4, <1>5, <1>7, <1>8, SeqEqual
<1> QED
  BY <1>2, <1>3, <1>4, <1>9 DEF old, new, b, AddsAtEnd

LEMMA ExpandedEmpty == Expanded(<<>>) = <<>> /\ Total(<<>>) = 0
<1>1. <<>> \in Seq(RunSet({})) /\ Len(<<>>) = 0
  OBVIOUS
<1>2. Total(<<>>) = 0
  BY <1>1, UptoSteps DEF Total
<1> QED
  BY <1>2 DEF Expanded

LEMMA ConcatAppend ==
  ASSUME NEW S, NEW s \in Seq(S), NEW t \in Seq(S), NEW v \in S
  PROVE  s \o Append(t, v) = Append(s \o t, v)
<1>1. Append(t, v) = t \o <<v>> /\ <<v>> \in Seq(S)
  BY AppendIsConcat
<1>2. s \o t \in Seq(S)
  BY ConcatProperties
<1>3. Append(s \o t, v) = (s \o t) \o <<v>>
  BY <1>2, AppendIsConcat
<1> QED
  BY <1>1, <1>3, ConcatAssociative

(* What the encoder does to the values.                                     *)
LEMMA ExpandedExtend ==
  ASSUME NEW S, NEW runs \in Seq(RunSet(S)), NEW v \in S
  PROVE  Expanded(Extend(runs, v)) = Append(Expanded(runs), v)
<1> DEFINE R == RunSet(S)
<1>2. CASE runs # <<>> /\ Last(runs).v = v /\ Last(runs).n < MaxRun
  <2>1. PICK front \in Seq(R), last \in R : runs = Append(front, last)
    <3> HIDE DEF R
    <3> QED
      BY <1>2, SequenceEmptyOrAppend, Zenon DEF R
  <2> DEFINE k == Len(front) + 1
             n == last.n
  <2>2. /\ Len(runs) = k /\ runs[k] = last /\ k \in 1 .. k /\ Len(front) \in Nat
        /\ \A j \in 1 .. Len(front) : runs[j] = front[j]
    <3> HIDE DEF R
    <3>1. Len(front) \in Nat
      OBVIOUS
    <3> QED
      BY <2>1, <3>1, AppendProperties
  <2>3. n \in 1 .. MaxRun /\ n < MaxRun /\ last.v = v /\ last = Run(n, v) /\ n \in Nat
    <3>1. last = Last(runs)
      BY <1>2, <2>2, LastRun
    <3> HIDE DEF R
    <3>2. last = Run(last.n, last.v) /\ last.n \in 1 .. MaxRun
      BY <2>2, RunFields DEF R
    <3> QED
      BY <1>2, <3>1, <3>2, MaxRunAssumption
  <2> HIDE DEF n
  <2>4. Run(n + 1, v) \in R /\ n + 1 \in 1 .. MaxRun
    BY <2>3, RunIn, MaxRunAssumption
  <2>5. Extend(runs, v) = [runs EXCEPT ![k] = Run(n + 1, v)]
    BY <1>2, <2>2, <2>3 DEF Extend, n
  <2>6. [runs EXCEPT ![k] = Run(n + 1, v)] = Append(front, Run(n + 1, v))
    <3> HIDE DEF R
    <3> DEFINE x == Run(n + 1, v)
    <3>1. x \in R
      BY <2>4
    <3> HIDE DEF x
    <3>2. /\ Append(front, x) \in Seq(R) /\ Len(Append(front, x)) = k
          /\ (\A j \in 1 .. Len(front) : Append(front, x)[j] = front[j])
          /\ Append(front, x)[k] = x
      BY <3>1, AppendProperties
    <3>3. runs \in Seq(R)
      BY DEF R
    <3>4. /\ [runs EXCEPT ![k] = x] \in Seq(R) /\ Len([runs EXCEPT ![k] = x]) = k
          /\ \A j \in 1 .. k : [runs EXCEPT ![k] = x][j] = IF j = k THEN x ELSE runs[j]
      BY <2>2, <3>1, <3>3, ExceptSeq
    <3>5. \A j \in 1 .. k : [runs EXCEPT ![k] = x][j] = Append(front, x)[j]
      BY <2>2, <3>2, <3>4
    <3>6. [runs EXCEPT ![k] = x] = Append(front, x)
      BY <3>2, <3>4, <3>5, SeqEqual, Zenon
    <3> QED
      BY <3>6 DEF x
  <2>7. /\ Expanded(runs) = Expanded(front) \o Repeat(n, v)
        /\ Expanded(Extend(runs, v)) = Expanded(front) \o Repeat(n + 1, v)
    <3> HIDE DEF R
    <3>1. front \in Seq(RunSet(S))
      BY DEF R
    <3>2. AddsAtEnd(S, front, n, v) /\ AddsAtEnd(S, front, n + 1, v)
      BY <2>3, <2>4, <3>1, ExpandedAppend, Zenon
    <3> QED
      BY <2>1, <2>3, <2>5, <2>6, <3>2, Zenon DEF AddsAtEnd
  <2>8. Expanded(front) \in Seq(S)
    <3> HIDE DEF R
    <3> QED
      BY ExpandedIn DEF R
  <2>9. Repeat(n, v) \in Seq(S) /\ Repeat(n + 1, v) = Append(Repeat(n, v), v)
    BY <2>3, RepeatIn
  <2>10. Expanded(front) \o Append(Repeat(n, v), v) = Append(Expanded(front) \o Repeat(n, v), v)
    BY <2>8, <2>9, ConcatAppend
  <2> QED
    BY <2>7, <2>9, <2>10
<1>3. CASE ~ (runs # <<>> /\ Last(runs).v = v /\ Last(runs).n < MaxRun)
  <2>1. Extend(runs, v) = Append(runs, Run(1, v)) /\ 1 \in 1 .. MaxRun
    BY <1>3, MaxRunAssumption DEF Extend
  <2>2. Expanded(Extend(runs, v)) = Expanded(runs) \o Repeat(1, v)
    <3>1. AddsAtEnd(S, runs, 1, v)
      BY <2>1, ExpandedAppend, Zenon
    <3> QED
      BY <2>1, <3>1, Zenon DEF AddsAtEnd
  <2>3. Repeat(1, v) = <<v>>
    BY DEF Repeat
  <2>4. Expanded(runs) \in Seq(S)
    BY ExpandedIn
  <2> QED
    BY <2>2, <2>3, <2>4, AppendIsConcat
<1> QED
  BY <1>2, <1>3

(* The first k elements, one after the other.                               *)
LEMMA Beginnings ==
  ASSUME NEW S, NEW seq \in Seq(S)
  PROVE  /\ SubSeq(seq, 1, 0) = <<>>
         /\ SubSeq(seq, 1, Len(seq)) = seq
         /\ \A k \in 0 .. Len(seq) : SubSeq(seq, 1, k) \in Seq(S) /\ Len(SubSeq(seq, 1, k)) = k
         /\ \A k \in 1 .. Len(seq) : SubSeq(seq, 1, k) = Append(SubSeq(seq, 1, k - 1), seq[k])
<1>1. SubSeq(seq, 1, Len(seq)) = seq
  BY SubSeqFull, Zenon
<1>2. \A k \in 0 .. Len(seq) : SubSeq(seq, 1, k) \in Seq(S) /\ Len(SubSeq(seq, 1, k)) = k
  OBVIOUS
<1>3. ASSUME NEW k \in 1 .. Len(seq)
      PROVE  SubSeq(seq, 1, k) = Append(SubSeq(seq, 1, k - 1), seq[k])
  <2>1. SubSeq(seq, 1, k) = SubSeq(seq, 1, k - 1) \o <<seq[k]>>
    <3>1. 1 \in 1 .. Len(seq) /\ k \in 1 .. Len(seq)
      OBVIOUS
    <3> QED
      BY <3>1, SubSeqRecursiveSecond, Zenon
  <2>2. k - 1 \in 0 .. Len(seq) /\ seq[k] \in S
    OBVIOUS
  <2> QED
    BY <1>2, <2>1, <2>2, AppendIsConcat
<1> QED
  BY <1>1, <1>2, <1>3

(* Decoding the runs is looking up every position.                          *)
LEMMA DecodeIs ==
  ASSUME NEW S, NEW runs \in Seq(RunSet(S))
  PROVE  RunLengthDecode(runs) = Expanded(runs)
<1> DEFINE R == RunSet(S)
           m == Len(runs)
           P(k) == SubSeq(runs, 1, k)
<1>1. PICK F : DecodeSteps(F, S, runs)
  BY DecodeFold
<1> DEFINE K == {k \in 0 .. m : F[k] = Expanded(P(k))}
<1>2. m \in Nat /\ runs \in Seq(R)
  OBVIOUS
<1>3. /\ P(0) = <<>> /\ P(m) = runs
      /\ \A k \in 0 .. m : P(k) \in Seq(R)
      /\ \A k \in 1 .. m : P(k) = Append(P(k - 1), runs[k])
  <2> HIDE DEF R
  <2> QED
    BY <1>2, Beginnings
<1> HIDE DEF P
<1>4. 0 \in K
  BY <1>1, <1>2, <1>3, ExpandedEmpty DEF DecodeSteps
<1>5. ASSUME NEW k \in 1 .. m, k - 1 \in K PROVE k \in K
  <2>1. F[k - 1] = Expanded(P(k - 1)) /\ k - 1 \in 0 .. m
    BY <1>5
  <2>2. runs[k].n \in 1 .. MaxRun /\ runs[k].v \in S /\ runs[k] = Run(runs[k].n, runs[k].v)
    BY RunFields
  <2>3. AddsAtEnd(S, P(k - 1), runs[k].n, runs[k].v)
    <3>1. P(k - 1) \in Seq(RunSet(S))
      BY <1>3, <2>1
    <3> QED
      BY <2>2, <3>1, ExpandedAppend, Zenon
  <2>4. P(k) = Append(P(k - 1), Run(runs[k].n, runs[k].v))
    BY <1>3, <2>2
  <2>5. Expanded(P(k)) = Expanded(P(k - 1)) \o Repeat(runs[k].n, runs[k].v)
    BY <2>3, <2>4, Zenon DEF AddsAtEnd
  <2>6. F[k] = F[k - 1] \o Repeat(runs[k].n, runs[k].v)
    BY <1>1, Zenon DEF DecodeSteps, Joined
  <2>7. F[k] = Expanded(P(k))
    BY <2>1, <2>5, <2>6, Zenon
  <2> QED
    BY <2>7
<1>6. \A k \in 0 .. m : k \in K
  <2> HIDE DEF K, m
  <2> QED
    BY <1>2, <1>4, <1>5, UpTo
<1> QED
  BY <1>1, <1>2, <1>3, <1>6 DEF DecodeSteps

(* Encoding loses nothing.                                                  *)
LEMMA EncodeIs ==
  ASSUME NEW S, NEW vals \in Seq(S)
  PROVE  /\ RunLengthEncode(vals) \in Seq(RunSet(S))
         /\ Expanded(RunLengthEncode(vals)) = vals
<1> DEFINE m == Len(vals)
           P(k) == SubSeq(vals, 1, k)
<1>1. PICK F : EncodeSteps(F, S, vals)
  BY EncodeFold
<1> DEFINE K == {k \in 0 .. m : Expanded(F[k]) = P(k)}
<1>2. m \in Nat
  OBVIOUS
<1>3. /\ P(0) = <<>> /\ P(m) = vals
      /\ \A k \in 1 .. m : P(k) = Append(P(k - 1), vals[k])
  BY Beginnings
<1> HIDE DEF P
<1>4. 0 \in K
  BY <1>1, <1>2, <1>3, ExpandedEmpty DEF EncodeSteps
<1>5. ASSUME NEW k \in 1 .. m, k - 1 \in K PROVE k \in K
  <2>1. Expanded(F[k - 1]) = P(k - 1) /\ k - 1 \in 0 .. m
    BY <1>5
  <2>2. F[k - 1] \in Seq(RunSet(S)) /\ vals[k] \in S
    BY <1>1, <2>1 DEF EncodeSteps
  <2>3. Expanded(Extend(F[k - 1], vals[k])) = Append(Expanded(F[k - 1]), vals[k])
    BY <2>2, ExpandedExtend
  <2>4. Expanded(F[k]) = P(k)
    BY <1>1, <1>3, <2>1, <2>3 DEF EncodeSteps
  <2> QED
    BY <2>4
<1>6. \A k \in 0 .. m : k \in K
  <2> HIDE DEF K, m
  <2> QED
    BY <1>2, <1>4, <1>5, UpTo
<1>7. F[m] \in Seq(RunSet(S))
  BY <1>1, <1>2 DEF EncodeSteps
<1> QED
  BY <1>1, <1>2, <1>3, <1>6, <1>7 DEF EncodeSteps

(* The marks on the j points from u on.                                     *)
Marks(map, u, j) == Cardinality({i \in u + 1 .. u + j : map[i]})

LEMMA MarksStep ==
  ASSUME NEW u \in Nat, NEW w \in Nat, NEW map
  PROVE  /\ Marks(map, u, 0) = 0
         /\ \A j \in 0 .. w : Marks(map, u, j) \in 0 .. j
         /\ \A j \in 1 .. w : Marks(map, u, j) =
               IF map[u + j] THEN Marks(map, u, j - 1) + 1 ELSE Marks(map, u, j - 1)
<1> DEFINE M(j) == {i \in u + 1 .. u + j : map[i]}
<1>1. ASSUME NEW j \in Nat
      PROVE  IsFiniteSet(M(j)) /\ Cardinality(M(j)) \in 0 .. j
  <2>1. IsFiniteSet(u + 1 .. u + j) /\ Cardinality(u + 1 .. u + j) = j
    BY FS_Interval
  <2>2. M(j) \in SUBSET (u + 1 .. u + j)
    OBVIOUS
  <2> HIDE DEF M
  <2> QED
    BY <2>1, <2>2, FS_Subset, FS_CardinalityType
<1>2. Marks(map, u, 0) = 0
  <2>1. Cardinality(M(0)) \in 0 .. 0
    BY <1>1
  <2> QED
    BY <2>1 DEF Marks
<1>3. \A j \in 0 .. w : Marks(map, u, j) \in 0 .. j
  <2>1. \A j \in Nat : Cardinality(M(j)) \in 0 .. j
    <3> HIDE DEF M
    <3> QED
      BY <1>1
  <2> QED
    BY <2>1 DEF Marks
<1>4. ASSUME NEW j \in 1 .. w
      PROVE  Marks(map, u, j) =
               IF map[u + j] THEN Marks(map, u, j - 1) + 1 ELSE Marks(map, u, j - 1)
  <2>1. Marks(map, u, j) = Cardinality(M(j)) /\ Marks(map, u, j - 1) = Cardinality(M(j - 1))
    BY DEF Marks
  <2>2. CASE map[u + j]
    <3>1. M(j) = M(j - 1) \cup {u + j} /\ u + j \notin M(j - 1)
      BY <2>2
    <3>2. IsFiniteSet(M(j - 1))
      <4> HIDE DEF M
      <4> QED
        BY <1>1
    <3> HIDE DEF M
    <3>3. Cardinality(M(j)) = Cardinality(M(j - 1)) + 1
      BY <3>1, <3>2, FS_AddElement
    <3> QED
      BY <2>1, <2>2, <3>3
  <2>3. CASE ~ map[u + j]
    <3>1. \A i : i \in M(j) <=> i \in M(j - 1)
      BY <2>3
    <3> HIDE DEF M
    <3>2. M(j) = M(j - 1)
      BY <3>1
    <3> QED
      BY <2>1, <2>3, <3>2
  <2> QED
    BY <2>2, <2>3
<1> QED
  BY <1>2, <1>3, <1>4

LEMMA KeptOfIs ==
  ASSUME NEW S, NEW runs \in Seq(RunSet(S)), NEW map, NEW k \in 1 .. Len(runs)
  PROVE  /\ KeptOf(runs, map, k) = Marks(map, Upto(runs, k - 1), runs[k].n)
         /\ KeptOf(runs, map, k) \in 0 .. runs[k].n
<1>1. /\ Upto(runs, k - 1) \in Nat /\ runs[k].n \in Nat
      /\ Upto(runs, k) = Upto(runs, k - 1) + runs[k].n
  BY UptoSteps, RunFields
<1>2. KeptOf(runs, map, k) = Marks(map, Upto(runs, k - 1), runs[k].n)
  BY <1>1, Zenon DEF KeptOf, Marks
<1>3. \A j \in 0 .. runs[k].n : Marks(map, Upto(runs, k - 1), j) \in 0 .. j
  BY <1>1, MarksStep, Zenon
<1>4. runs[k].n \in 0 .. runs[k].n
  BY <1>1
<1> QED
  BY <1>2, <1>3, <1>4, Zenon

(* A run loses the points that are not marked.                              *)
Shrunk(runs, map, kept, k) ==
  LET n == KeptOf(runs, map, k)
  IN IF n > 0 THEN Append(kept, Run(n, runs[k].v)) ELSE kept

LEMMA ShrunkIn ==
  ASSUME NEW S, NEW runs \in Seq(RunSet(S)), NEW map, NEW kept \in Seq(RunSet(S)),
         NEW k \in 1 .. Len(runs)
  PROVE  Shrunk(runs, map, kept, k) \in Seq(RunSet(S))
<1> DEFINE R == RunSet(S)
           n == KeptOf(runs, map, k)
           x == Run(n, runs[k].v)
<1>1. n \in 0 .. runs[k].n /\ runs[k].n \in 1 .. MaxRun /\ runs[k].v \in S
  BY KeptOfIs, RunFields
<1>2. n > 0 => x \in R
  <2>1. n > 0 => n \in 1 .. MaxRun
    <3> HIDE DEF n
    <3> QED
      BY <1>1, MaxRunAssumption
  <2> QED
    BY <1>1, <2>1, RunIn
<1>3. Shrunk(runs, map, kept, k) = IF n > 0 THEN Append(kept, x) ELSE kept
  BY DEF Shrunk
<1> HIDE DEF R, n, x
<1>4. kept \in Seq(R)
  BY DEF R
<1>5. n > 0 => Append(kept, x) \in Seq(R)
  BY <1>2, <1>4, AppendProperties
<1> QED
  BY <1>3, <1>4, <1>5 DEF R

(* The filter, run by run.                                                   *)
FilterSteps(F, S, runs, map) ==
  /\ F \in [0 .. Len(runs) -> Seq(RunSet(S))]
  /\ F[0] = <<>>
  /\ F[Len(runs)] = RunLengthFilter(runs, map)
  /\ \A k \in 1 .. Len(runs) : F[k] = Shrunk(runs, map, F[k - 1], k)

LEMMA FilterFold ==
  ASSUME NEW S, NEW runs \in Seq(RunSet(S)), NEW map
  PROVE  \E F : FilterSteps(F, S, runs, map)
<1> DEFINE m == Len(runs)
           V == Seq(RunSet(S))
           ids == [i \in DOMAIN runs |-> i]
           step == [p \in (1 .. m) \X V |-> Shrunk(runs, map, p[2], p[1])]
           Body(it) == [s \in SUBSET (DOMAIN ids) |->
                          IF s = {} THEN <<>> ELSE Shrunk(runs, map, it[s \ {Max(s)}], ids[Max(s)])]
           iter == CHOOSE it : it = Body(it)
<1>1. DOMAIN runs = 1 .. m /\ m \in Nat /\ <<>> \in V
  OBVIOUS
<1>0. DOMAIN ids = 1 .. m /\ \A k \in 1 .. m : ids[k] = k
  BY <1>1
<1>2. \A v \in V, k \in 1 .. m : step[<<k, v>>] = Shrunk(runs, map, v, k)
  <2> HIDE DEF V, m
  <2> QED
    OBVIOUS
<1>3. step \in [(1 .. m) \X V -> V]
  <2>1. ASSUME NEW p \in (1 .. m) \X V PROVE Shrunk(runs, map, p[2], p[1]) \in V
    <3>1. p[2] \in V /\ p[1] \in 1 .. m
      <4> HIDE DEF m, V
      <4> QED
        OBVIOUS
    <3> QED
      BY <3>1, ShrunkIn
  <2> HIDE DEF m, V
  <2> QED
    BY <2>1
<1> HIDE DEF m, V, step, ids
<1>4. PICK it \in [SUBSET (1 .. m) -> V] : SolvesFold(it, <<>>, m, step)
  BY <1>1, <1>3, FoldExists, Zenon
<1>5. iter = Body(iter)
  <2>1. it[{}] = <<>>
    BY <1>4 DEF SolvesFold
  <2>2. ASSUME NEW s \in SUBSET (1 .. m), s # {}
        PROVE  it[s] = Shrunk(runs, map, it[s \ {Max(s)}], ids[Max(s)])
    <3>1. Max(s) \in 1 .. m /\ it[s \ {Max(s)}] \in V
      BY <1>1, <2>2, MaxIn
    <3>2. it[s] = step[<<Max(s), it[s \ {Max(s)}]>>]
      BY <1>4, <2>2 DEF SolvesFold
    <3> QED
      BY <1>2, <1>0, <3>1, <3>2
  <2>3. it = Body(it)
    BY <1>1, <1>0, <2>1, <2>2
  <2> HIDE DEF Body
  <2> QED
    BY <2>3, Zenon
<1>6. RunLengthFilter(runs, map) = iter[1 .. m]
  BY <1>1, <1>0, Zenon DEF RunLengthFilter, Shrunk, FoldLeftDomain, FoldLeft, MapThenFoldSet, ids
<1> HIDE DEF iter
<1>7. FoldsWithin(iter, <<>>, m, V, step)
  <2>1. iter[{}] = <<>>
    BY <1>1, <1>5, Zenon
  <2>2. ASSUME NEW s \in SUBSET (1 .. m), s # {}, iter[s \ {Max(s)}] \in V
        PROVE  iter[s] = step[<<Max(s), iter[s \ {Max(s)}]>>]
    <3>1. iter[s] = Shrunk(runs, map, iter[s \ {Max(s)}], ids[Max(s)])
      BY <1>1, <1>0, <1>5, <2>2, Zenon
    <3>2. Max(s) \in 1 .. m
      BY <1>1, <2>2, MaxIn
    <3> QED
      BY <1>2, <1>0, <2>2, <3>1, <3>2
  <2> QED
    BY <2>1, <2>2 DEF FoldsWithin
<1>8. PICK F : UnrollsTo(F, iter, <<>>, m, V, step)
  BY <1>1, <1>3, <1>7, FoldUnrolls, Zenon
<1>9. /\ F \in [0 .. m -> V]
      /\ F[0] = <<>>
      /\ F[m] = iter[1 .. m]
      /\ \A k \in 1 .. m : F[k] = step[<<k, F[k - 1]>>]
  BY <1>8, Zenon DEF UnrollsTo
<1>10. ASSUME NEW k \in 1 .. m PROVE F[k] = Shrunk(runs, map, F[k - 1], k)
  <2>1. F[k - 1] \in V
    BY <1>1, <1>9
  <2> QED
    BY <1>2, <1>9, <2>1
<1>11. FilterSteps(F, S, runs, map)
  BY <1>6, <1>9, <1>10, Zenon DEF FilterSteps, m, V
<1> QED
  BY <1>11

KeepsMarked(G, map, u, w, v) ==
  \A j \in 1 .. w : G[u + j] = IF map[u + j] THEN Append(G[u + j - 1], v) ELSE G[u + j - 1]

OnePerMark(G, map, u, w, v) == G[u + w] = G[u] \o Repeat(Marks(map, u, w), v)

(* What a filter that goes point by point does to a stretch of equal values *)
(* is to leave one value for each mark.                                     *)
LEMMA MarkedStretch ==
  ASSUME NEW S, NEW v \in S, NEW u \in Nat, NEW w \in Nat, NEW map, NEW G, G[u] \in Seq(S),
         KeepsMarked(G, map, u, w, v)
  PROVE  OnePerMark(G, map, u, w, v)
<1> DEFINE C(j) == Marks(map, u, j)
           K == {j \in 0 .. w : G[u + j] = G[u] \o Repeat(C(j), v)}
<1>1. /\ C(0) = 0
      /\ \A j \in 0 .. w : C(j) \in Nat
      /\ \A j \in 1 .. w : C(j) = IF map[u + j] THEN C(j - 1) + 1 ELSE C(j - 1)
  <2>1. \A j \in 0 .. w : C(j) \in 0 .. j
    BY MarksStep, Zenon
  <2>2. C(0) = 0 /\ \A j \in 1 .. w : C(j) = IF map[u + j] THEN C(j - 1) + 1 ELSE C(j - 1)
    BY MarksStep, Zenon
  <2> HIDE DEF C
  <2> QED
    BY <2>1, <2>2
<1> HIDE DEF C
<1>2. 0 \in K
  <2>1. Repeat(C(0), v) = <<>> /\ u + 0 = u
    BY <1>1, RepeatIn
  <2> QED
    BY <2>1, ConcatEmptySeq
<1>3. ASSUME NEW j \in 1 .. w, j - 1 \in K PROVE j \in K
  <2>1. j - 1 \in 0 .. w /\ u + (j - 1) = u + j - 1
    OBVIOUS
  <2>2. G[u + j - 1] = G[u] \o Repeat(C(j - 1), v) /\ C(j - 1) \in Nat
    BY <1>1, <1>3, <2>1
  <2>3. CASE map[u + j]
    <3>1. C(j) = C(j - 1) + 1 /\ G[u + j] = Append(G[u + j - 1], v)
      BY <1>1, <2>3 DEF KeepsMarked
    <3>2. Repeat(C(j - 1), v) \in Seq(S) /\ Repeat(C(j), v) = Append(Repeat(C(j - 1), v), v)
      BY <2>2, <3>1, RepeatIn
    <3>3. G[u] \o Append(Repeat(C(j - 1), v), v) = Append(G[u] \o Repeat(C(j - 1), v), v)
      <4> DEFINE g == G[u]
                 r == Repeat(C(j - 1), v)
      <4>1. g \in Seq(S) /\ r \in Seq(S)
        BY <3>2
      <4> HIDE DEF g, r
      <4>2. g \o Append(r, v) = Append(g \o r, v)
        BY <4>1, ConcatAppend
      <4> QED
        BY <4>2 DEF g, r
    <3>4. G[u + j] = G[u] \o Repeat(C(j), v)
      BY <2>2, <3>1, <3>2, <3>3, Zenon
    <3> QED
      BY <3>4
  <2>4. CASE ~ map[u + j]
    <3>1. C(j) = C(j - 1) /\ G[u + j] = G[u + j - 1]
      BY <1>1, <2>4 DEF KeepsMarked
    <3>2. G[u + j] = G[u] \o Repeat(C(j), v)
      BY <2>2, <3>1, Zenon
    <3> QED
      BY <3>2
  <2> QED
    BY <2>3, <2>4
<1>4. \A j \in 0 .. w : j \in K
  <2> HIDE DEF K
  <2> QED
    BY <1>2, <1>3, UpTo
<1> QED
  BY <1>4 DEF C, OnePerMark

(* Filtering the runs is filtering the values they stand for.               *)
LEMMA FilterIs ==
  ASSUME NEW S, NEW runs \in Seq(RunSet(S)), NEW map
  PROVE  /\ RunLengthFilter(runs, map) \in Seq(RunSet(S))
         /\ Expanded(RunLengthFilter(runs, map)) = Marked(Expanded(runs), map)
<1> DEFINE m == Len(runs)
           vals == Expanded(runs)
           U(k) == Upto(runs, k)
<1>1. PICK F : FilterSteps(F, S, runs, map)
  BY FilterFold
<1>2. vals \in Seq(S) /\ Len(vals) = U(m) /\ m \in Nat
  BY ExpandedIn DEF Total
<1>3. PICK G : MarkedSteps(G, S, vals, map)
  <2> HIDE DEF vals
  <2> QED
    BY <1>2, MarkedFold
<1> DEFINE K == {k \in 0 .. m : Expanded(F[k]) = G[U(k)]}
<1>4. 0 \in K
  <2>1. U(0) = 0
    BY UptoSteps
  <2> QED
    BY <1>1, <1>2, <1>3, <2>1, ExpandedEmpty DEF FilterSteps, MarkedSteps
<1>5. ASSUME NEW k \in 1 .. m, k - 1 \in K PROVE k \in K
  <2> DEFINE u == U(k - 1)
             w == runs[k].n
             v == runs[k].v
             n == KeptOf(runs, map, k)
  <2>1. /\ u \in Nat /\ w \in Nat \ {0} /\ w \in 1 .. MaxRun /\ v \in S /\ U(k) = u + w
        /\ u + w <= Len(vals) /\ Len(vals) \in Nat
    <3>1. k \in 0 .. m /\ m \in 0 .. m /\ k <= m
      BY <1>2
    <3>2. U(k) <= U(m)
      BY <3>1, UptoMonotone
    <3>3. U(m) \in Nat
      BY <3>1, UptoSteps
    <3> QED
      BY <1>2, <3>2, <3>3, UptoSteps, RunFields
  <2>2. n = Marks(map, u, w) /\ n \in 0 .. w
    BY KeptOfIs
  <2>3. ASSUME NEW j \in 1 .. w
        PROVE  /\ u + j \in 1 .. Len(vals)
               /\ vals[u + j] = v
    <3>1. u + j \in 1 .. Len(vals) /\ u + j - 1 \in Nat
      <4> HIDE DEF u, w, vals
      <4> QED
        BY <2>1
    <3>2. U(k - 1) <= u + j - 1 /\ u + j - 1 < U(k)
      <4> HIDE DEF w
      <4>1. u <= u + j - 1 /\ u + j - 1 < u + w
        <5> HIDE DEF u
        <5> QED
          BY <2>1
      <4> QED
        BY <2>1, <4>1
    <3>3. RunOf(runs, u + j - 1) = k
      <4> HIDE DEF u
      <4> QED
        BY <3>1, <3>2, RunOfIs
    <3>4. u + j \in 1 .. Total(runs)
      BY <1>2, <3>1 DEF Total
    <3>5. \A i \in 1 .. Total(runs) : vals[i] = runs[RunOf(runs, i - 1)].v
      BY DEF Expanded
    <3> HIDE DEF vals, u, v
    <3> QED
      BY <2>1, <3>1, <3>3, <3>4, <3>5 DEF v
  <2> HIDE DEF vals, u, w, v, n
  <2>4. G[u] \in Seq(S) /\ G[u] = Expanded(F[k - 1])
    <3>1. u \in 0 .. Len(vals)
      BY <2>1
    <3> QED
      BY <1>3, <1>5, <3>1 DEF u, MarkedSteps
  <2>5. ASSUME NEW j \in 1 .. w
        PROVE  G[u + j] = IF map[u + j] THEN Append(G[u + j - 1], v) ELSE G[u + j - 1]
    <3>1. G[u + j] = Kept(vals, map, G[u + j - 1], u + j)
      BY <1>3, <2>1, <2>3 DEF MarkedSteps
    <3> QED
      BY <2>3, <3>1 DEF Kept
  <2>6. G[u + w] = G[u] \o Repeat(n, v)
    <3>1. KeepsMarked(G, map, u, w, v)
      BY <2>5 DEF KeepsMarked
    <3>2. w \in Nat
      BY <2>1
    <3>3. OnePerMark(G, map, u, w, v)
      BY <2>1, <2>4, <3>1, <3>2, MarkedStretch, Zenon
    <3> QED
      BY <2>2, <3>3 DEF OnePerMark
  <2>7. F[k] = Shrunk(runs, map, F[k - 1], k) /\ F[k - 1] \in Seq(RunSet(S))
    BY <1>1, <1>2 DEF FilterSteps
  <2>8. CASE n > 0
    <3>1. n \in 1 .. MaxRun
      BY <2>1, <2>2, <2>8, MaxRunAssumption
    <3>2. F[k] = Append(F[k - 1], Run(n, v))
      BY <2>7, <2>8 DEF Shrunk, n, v
    <3>3. AddsAtEnd(S, F[k - 1], n, v)
      BY <2>1, <2>7, <3>1, ExpandedAppend, Zenon
    <3>4. Expanded(F[k]) = G[U(k)]
      BY <2>1, <2>4, <2>6, <3>2, <3>3, Zenon DEF AddsAtEnd
    <3> QED
      BY <3>4
  <2>9. CASE ~ (n > 0)
    <3>1. n = 0
      BY <2>1, <2>2, <2>9
    <3>2. F[k] = F[k - 1]
      BY <2>7, <2>9 DEF Shrunk, n
    <3>3. G[u + w] = G[u]
      BY <2>1, <2>4, <2>6, <3>1, RepeatIn, ConcatEmptySeq, ZenonT(30)
    <3>4. Expanded(F[k]) = G[U(k)]
      BY <2>1, <2>4, <3>2, <3>3, Zenon
    <3> QED
      BY <3>4
  <2> QED
    BY <2>8, <2>9
<1>6. \A k \in 0 .. m : k \in K
  <2> HIDE DEF K, m
  <2> QED
    BY <1>2, <1>4, <1>5, UpTo
<1>7. F[m] \in Seq(RunSet(S)) /\ m \in 0 .. m
  BY <1>1, <1>2 DEF FilterSteps
<1> QED
  BY <1>1, <1>2, <1>3, <1>6, <1>7 DEF FilterSteps, MarkedSteps

SeqSum(seq) == FoldLeft(+, 0, seq)

Plus(seq, sum, i) == sum + seq[i]

LEMMA PlusIn ==
  ASSUME NEW S \in SUBSET Int, NEW seq \in Seq(S), NEW sum \in Int, NEW i \in 1 .. Len(seq)
  PROVE  Plus(seq, sum, i) \in Int
<1>1. seq[i] \in S
  BY ElementOfSeq, Zenon
<1>2. seq[i] \in Int
  BY <1>1
<1> QED
  BY <1>2 DEF Plus

RunSum(runs) == FoldLeft(LAMBDA sum, r : sum + r.n * r.v, 0, runs)

PlusRun(runs, sum, k) == sum + runs[k].n * runs[k].v

LEMMA PlusRunIn ==
  ASSUME NEW S \in SUBSET Int, NEW runs \in Seq(RunSet(S)), NEW sum \in Int, NEW k \in 1 .. Len(runs)
  PROVE  PlusRun(runs, sum, k) \in Int
<1> DEFINE n == runs[k].n
           v == runs[k].v
<1>1. n \in Nat /\ v \in S
  BY RunFields
<1>2. PlusRun(runs, sum, k) = sum + n * v
  BY DEF PlusRun
<1> HIDE DEF n, v
<1>3. n \in Int /\ v \in Int
  BY <1>1
<1>4. n * v \in Int
  BY <1>3
<1> QED
  BY <1>2, <1>4

(* The sum of a sequence, element by element.                                *)
SumSteps(F, S, seq) ==
  /\ F \in [0 .. Len(seq) -> Int]
  /\ F[0] = 0
  /\ F[Len(seq)] = SeqSum(seq)
  /\ \A k \in 1 .. Len(seq) : F[k] = Plus(seq, F[k - 1], k)

LEMMA SumFold ==
  ASSUME NEW S \in SUBSET Int, NEW seq \in Seq(S)
  PROVE  \E F : SumSteps(F, S, seq)
<1> DEFINE m == Len(seq)
           V == Int
           step == [p \in (1 .. m) \X V |-> Plus(seq, p[2], p[1])]
           Body(it) == [s \in SUBSET (DOMAIN seq) |->
                          IF s = {} THEN 0 ELSE Plus(seq, it[s \ {Max(s)}], Max(s))]
           iter == CHOOSE it : it = Body(it)
<1>1. DOMAIN seq = 1 .. m /\ m \in Nat /\ 0 \in V
  OBVIOUS
<1>2. \A v \in V, k \in 1 .. m : step[<<k, v>>] = Plus(seq, v, k)
  <2> HIDE DEF V, m
  <2> QED
    OBVIOUS
<1>3. step \in [(1 .. m) \X V -> V]
  <2>1. ASSUME NEW p \in (1 .. m) \X V PROVE Plus(seq, p[2], p[1]) \in V
    <3>1. p[2] \in V /\ p[1] \in 1 .. m
      <4> HIDE DEF m, V
      <4> QED
        OBVIOUS
    <3> QED
      BY <3>1, PlusIn
  <2> HIDE DEF m, V
  <2> QED
    BY <2>1
<1> HIDE DEF m, V, step
<1>4. PICK it \in [SUBSET (1 .. m) -> V] : SolvesFold(it, 0, m, step)
  BY <1>1, <1>3, FoldExists, Zenon
<1>5. iter = Body(iter)
  <2>1. it[{}] = 0
    BY <1>4 DEF SolvesFold
  <2>2. ASSUME NEW s \in SUBSET (1 .. m), s # {}
        PROVE  it[s] = Plus(seq, it[s \ {Max(s)}], Max(s))
    <3>1. Max(s) \in 1 .. m /\ it[s \ {Max(s)}] \in V
      BY <1>1, <2>2, MaxIn
    <3>2. it[s] = step[<<Max(s), it[s \ {Max(s)}]>>]
      BY <1>4, <2>2 DEF SolvesFold
    <3> QED
      BY <1>2, <3>1, <3>2
  <2>3. it = Body(it)
    BY <1>1, <2>1, <2>2
  <2> HIDE DEF Body
  <2> QED
    BY <2>3, Zenon
<1>6. SeqSum(seq) = iter[1 .. m]
  BY <1>1, Zenon DEF SeqSum, Plus, FoldLeft, MapThenFoldSet
<1> HIDE DEF iter
<1>7. FoldsWithin(iter, 0, m, V, step)
  <2>1. iter[{}] = 0
    BY <1>1, <1>5, Zenon
  <2>2. ASSUME NEW s \in SUBSET (1 .. m), s # {}, iter[s \ {Max(s)}] \in V
        PROVE  iter[s] = step[<<Max(s), iter[s \ {Max(s)}]>>]
    <3>1. iter[s] = Plus(seq, iter[s \ {Max(s)}], Max(s))
      BY <1>1, <1>5, <2>2, Zenon
    <3>2. Max(s) \in 1 .. m
      BY <1>1, <2>2, MaxIn
    <3> QED
      BY <1>2, <2>2, <3>1, <3>2
  <2> QED
    BY <2>1, <2>2 DEF FoldsWithin
<1>8. PICK F : UnrollsTo(F, iter, 0, m, V, step)
  BY <1>1, <1>3, <1>7, FoldUnrolls, Zenon
<1>9. /\ F \in [0 .. m -> V]
      /\ F[0] = 0
      /\ F[m] = iter[1 .. m]
      /\ \A k \in 1 .. m : F[k] = step[<<k, F[k - 1]>>]
  BY <1>8, Zenon DEF UnrollsTo
<1>10. ASSUME NEW k \in 1 .. m PROVE F[k] = Plus(seq, F[k - 1], k)
  <2>1. F[k - 1] \in V
    BY <1>1, <1>9
  <2> QED
    BY <1>2, <1>9, <2>1
<1>11. SumSteps(F, S, seq)
  BY <1>6, <1>9, <1>10, Zenon DEF SumSteps, m, V
<1> QED
  BY <1>11

(* The sum of a column, run by run.                                          *)
RunSumSteps(F, S, runs) ==
  /\ F \in [0 .. Len(runs) -> Int]
  /\ F[0] = 0
  /\ F[Len(runs)] = RunSum(runs)
  /\ \A k \in 1 .. Len(runs) : F[k] = PlusRun(runs, F[k - 1], k)

LEMMA RunSumFold ==
  ASSUME NEW S \in SUBSET Int, NEW runs \in Seq(RunSet(S))
  PROVE  \E F : RunSumSteps(F, S, runs)
<1> DEFINE m == Len(runs)
           V == Int
           step == [p \in (1 .. m) \X V |-> PlusRun(runs, p[2], p[1])]
           Body(it) == [s \in SUBSET (DOMAIN runs) |->
                          IF s = {} THEN 0 ELSE PlusRun(runs, it[s \ {Max(s)}], Max(s))]
           iter == CHOOSE it : it = Body(it)
<1>1. DOMAIN runs = 1 .. m /\ m \in Nat /\ 0 \in V
  OBVIOUS
<1>2. \A v \in V, k \in 1 .. m : step[<<k, v>>] = PlusRun(runs, v, k)
  <2> HIDE DEF V, m
  <2> QED
    OBVIOUS
<1>3. step \in [(1 .. m) \X V -> V]
  <2>1. ASSUME NEW p \in (1 .. m) \X V PROVE PlusRun(runs, p[2], p[1]) \in V
    <3>1. p[2] \in V /\ p[1] \in 1 .. m
      <4> HIDE DEF m, V
      <4> QED
        OBVIOUS
    <3> QED
      BY <3>1, PlusRunIn
  <2> HIDE DEF m, V
  <2> QED
    BY <2>1
<1> HIDE DEF m, V, step
<1>4. PICK it \in [SUBSET (1 .. m) -> V] : SolvesFold(it, 0, m, step)
  BY <1>1, <1>3, FoldExists, Zenon
<1>5. iter = Body(iter)
  <2>1. it[{}] = 0
    BY <1>4 DEF SolvesFold
  <2>2. ASSUME NEW s \in SUBSET (1 .. m), s # {}
        PROVE  it[s] = PlusRun(runs, it[s \ {Max(s)}], Max(s))
    <3>1. Max(s) \in 1 .. m /\ it[s \ {Max(s)}] \in V
      BY <1>1, <2>2, MaxIn
    <3>2. it[s] = step[<<Max(s), it[s \ {Max(s)}]>>]
      BY <1>4, <2>2 DEF SolvesFold
    <3> QED
      BY <1>2, <3>1, <3>2
  <2>3. it = Body(it)
    BY <1>1, <2>1, <2>2
  <2> HIDE DEF Body
  <2> QED
    BY <2>3, Zenon
<1>6. RunSum(runs) = iter[1 .. m]
  BY <1>1, Zenon DEF RunSum, PlusRun, FoldLeft, MapThenFoldSet
<1> HIDE DEF iter
<1>7. FoldsWithin(iter, 0, m, V, step)
  <2>1. iter[{}] = 0
    BY <1>1, <1>5, Zenon
  <2>2. ASSUME NEW s \in SUBSET (1 .. m), s # {}, iter[s \ {Max(s)}] \in V
        PROVE  iter[s] = step[<<Max(s), iter[s \ {Max(s)}]>>]
    <3>1. iter[s] = PlusRun(runs, iter[s \ {Max(s)}], Max(s))
      BY <1>1, <1>5, <2>2, Zenon
    <3>2. Max(s) \in 1 .. m
      BY <1>1, <2>2, MaxIn
    <3> QED
      BY <1>2, <2>2, <3>1, <3>2
  <2> QED
    BY <2>1, <2>2 DEF FoldsWithin
<1>8. PICK F : UnrollsTo(F, iter, 0, m, V, step)
  BY <1>1, <1>3, <1>7, FoldUnrolls, Zenon
<1>9. /\ F \in [0 .. m -> V]
      /\ F[0] = 0
      /\ F[m] = iter[1 .. m]
      /\ \A k \in 1 .. m : F[k] = step[<<k, F[k - 1]>>]
  BY <1>8, Zenon DEF UnrollsTo
<1>10. ASSUME NEW k \in 1 .. m PROVE F[k] = PlusRun(runs, F[k - 1], k)
  <2>1. F[k - 1] \in V
    BY <1>1, <1>9
  <2> QED
    BY <1>2, <1>9, <2>1
<1>11. RunSumSteps(F, S, runs)
  BY <1>6, <1>9, <1>10, Zenon DEF RunSumSteps, m, V
<1> QED
  BY <1>11

(* A run counts as many times as it has points.                             *)
AddsEach(G, u, w, v) == \A j \in 1 .. w : G[u + j] = G[u + j - 1] + v

LEMMA SumStretch ==
  ASSUME NEW v \in Int, NEW u \in Nat, NEW w \in Nat, NEW G, G[u] \in Int,
         AddsEach(G, u, w, v)
  PROVE  G[u + w] = G[u] + w * v
<1> DEFINE K == {j \in 0 .. w : G[u + j] = G[u] + j * v}
<1>1. 0 \in K
  <2>1. u + 0 = u /\ 0 * v = 0
    OBVIOUS
  <2> QED
    BY <2>1
<1>2. ASSUME NEW j \in 1 .. w, j - 1 \in K PROVE j \in K
  <2>1. G[u + (j - 1)] = G[u] + (j - 1) * v
    BY <1>2
  <2>2. G[u + j] = G[u + j - 1] + v /\ u + j - 1 = u + (j - 1)
    BY DEF AddsEach
  <2>3. (j - 1) * v \in Int /\ j * v \in Int /\ (j - 1) * v + v = j * v
    OBVIOUS
  <2>4. G[u + j] = G[u] + j * v
    <3> DEFINE a == (j - 1) * v
               b == j * v
    <3>1. a \in Int /\ b \in Int /\ a + v = b
      BY <2>3
    <3>2. G[u + j] = (G[u] + a) + v
      BY <2>1, <2>2
    <3> HIDE DEF a, b
    <3>3. G[u + j] = G[u] + b
      BY <3>1, <3>2
    <3> QED
      BY <3>3 DEF b
  <2> QED
    BY <2>4
<1>3. \A j \in 0 .. w : j \in K
  <2> HIDE DEF K
  <2> QED
    BY <1>1, <1>2, UpTo
<1> QED
  BY <1>3

(* Where run k lies among the values.                                       *)
LEMMA RunPlace ==
  ASSUME NEW S, NEW runs \in Seq(RunSet(S)), NEW k \in 1 .. Len(runs)
  PROVE  /\ Upto(runs, k - 1) \in Nat
         /\ Upto(runs, k) = Upto(runs, k - 1) + runs[k].n
         /\ Upto(runs, k) <= Len(Expanded(runs))
         /\ \A j \in 1 .. runs[k].n :
              /\ Upto(runs, k - 1) + j \in 1 .. Len(Expanded(runs))
              /\ Expanded(runs)[Upto(runs, k - 1) + j] = runs[k].v
<1> DEFINE u == Upto(runs, k - 1)
           w == runs[k].n
           v == runs[k].v
           vals == Expanded(runs)
<1>1. /\ u \in Nat /\ w \in Nat \ {0} /\ v \in S /\ Upto(runs, k) = u + w
      /\ u + w <= Len(vals) /\ Len(vals) \in Nat
  <2>1. k \in 0 .. Len(runs) /\ Len(runs) \in 0 .. Len(runs) /\ k <= Len(runs)
    OBVIOUS
  <2>2. Upto(runs, k) <= Upto(runs, Len(runs))
    BY <2>1, UptoMonotone
  <2>3. Len(vals) = Upto(runs, Len(runs)) /\ Len(vals) \in Nat
    BY ExpandedIn DEF Total
  <2>4. u \in Nat /\ w \in Nat \ {0} /\ v \in S /\ Upto(runs, k) = u + w
    BY UptoSteps, RunFields
  <2> HIDE DEF vals, u, w, v
  <2> QED
    BY <2>2, <2>3, <2>4
<1>2. \A i \in 1 .. Len(vals) : vals[i] = runs[RunOf(runs, i - 1)].v
  <2>1. Len(vals) = Total(runs)
    BY ExpandedIn
  <2>2. \A i \in 1 .. Total(runs) : vals[i] = runs[RunOf(runs, i - 1)].v
    BY DEF Expanded
  <2> QED
    BY <2>1, <2>2, Zenon
<1> HIDE DEF vals, w
<1>3. ASSUME NEW j \in 1 .. w
      PROVE  u + j \in 1 .. Len(vals) /\ vals[u + j] = v
  <2>1. u + j \in 1 .. Len(vals) /\ u + j - 1 \in Nat /\ u <= u + j - 1 /\ u + j - 1 < u + w
    <3> HIDE DEF u
    <3> QED
      BY <1>1
  <2>2. Upto(runs, k - 1) <= u + j - 1 /\ u + j - 1 < Upto(runs, k)
    BY <1>1, <2>1
  <2> HIDE DEF u
  <2>3. RunOf(runs, u + j - 1) = k
    BY <2>1, <2>2, RunOfIs
  <2> HIDE DEF v
  <2> QED
    BY <1>1, <1>2, <2>1, <2>3 DEF v
<1> QED
  BY <1>1, <1>3 DEF vals, w

(* Summing the runs is summing the points.                                  *)
LEMMA SumIs ==
  ASSUME NEW S \in SUBSET Int, NEW runs \in Seq(RunSet(S))
  PROVE  RunSum(runs) = SeqSum(Expanded(runs))
<1> DEFINE m == Len(runs)
           vals == Expanded(runs)
           U(k) == Upto(runs, k)
<1>1. PICK F : RunSumSteps(F, S, runs)
  BY RunSumFold
<1>2. vals \in Seq(S) /\ Len(vals) = U(m) /\ m \in Nat
  BY ExpandedIn DEF Total
<1>3. PICK G : SumSteps(G, S, vals)
  <2> HIDE DEF vals
  <2> QED
    BY <1>2, SumFold
<1> DEFINE K == {k \in 0 .. m : F[k] = G[U(k)]}
<1>4. 0 \in K
  <2>1. U(0) = 0
    BY UptoSteps
  <2> QED
    <3>1. F[0] = 0 /\ G[0] = 0
      BY <1>1, <1>3, Zenon DEF RunSumSteps, SumSteps
    <3> QED
      BY <1>2, <2>1, <3>1
<1>5. ASSUME NEW k \in 1 .. m, k - 1 \in K PROVE k \in K
  <2> DEFINE u == U(k - 1)
             w == runs[k].n
             v == runs[k].v
  <2>1. /\ u \in Nat /\ w \in Nat /\ v \in Int /\ U(k) = u + w
        /\ u + w <= Len(vals) /\ Len(vals) \in Nat
    <3>1. w \in Nat /\ v \in S
      BY RunFields
    <3>2. v \in Int
      <4> HIDE DEF v
      <4> QED
        BY <3>1
    <3>3. u \in Nat /\ U(k) = u + w /\ U(k) <= Len(vals)
      BY RunPlace
    <3>4. Len(vals) \in Nat
      <4> HIDE DEF vals
      <4> QED
        BY <1>2
    <3> HIDE DEF u, v, w, vals
    <3> QED
      BY <3>1, <3>2, <3>3, <3>4
  <2>2. \A j \in 1 .. w : u + j \in 1 .. Len(vals) /\ vals[u + j] = v
    BY RunPlace
  <2> HIDE DEF vals, u, w, v
  <2>3. G[u] \in Int /\ G[u] = F[k - 1]
    <3>1. u \in 0 .. Len(vals)
      BY <2>1
    <3> QED
      BY <1>3, <1>5, <3>1 DEF u, SumSteps
  <2>4. AddsEach(G, u, w, v)
    <3>1. ASSUME NEW j \in 1 .. w PROVE G[u + j] = G[u + j - 1] + v
      <4>1. u + j \in 1 .. Len(vals) /\ vals[u + j] = v
        BY <2>2
      <4>2. G[u + j] = G[u + j - 1] + vals[u + j]
        <5>1. G[u + j] = Plus(vals, G[(u + j) - 1], u + j)
          BY <1>3, <4>1, Zenon DEF SumSteps
        <5>2. (u + j) - 1 = u + j - 1
          BY <2>1
        <5> QED
          BY <5>1, <5>2, Zenon DEF Plus
      <4> QED
        BY <4>1, <4>2
    <3> QED
      BY <3>1 DEF AddsEach
  <2>5. G[u + w] = G[u] + w * v
    BY <2>1, <2>3, <2>4, SumStretch
  <2>6. F[k] = F[k - 1] + w * v
    <3>1. F[k] = PlusRun(runs, F[k - 1], k)
      BY <1>1, Zenon DEF RunSumSteps
    <3> QED
      BY <3>1 DEF PlusRun, w, v
  <2>7. F[k] = G[U(k)]
    BY <2>1, <2>3, <2>5, <2>6
  <2> QED
    BY <2>7
<1>6. \A k \in 0 .. m : k \in K
  <2> HIDE DEF K, m
  <2> QED
    BY <1>2, <1>4, <1>5, UpTo
<1>7. F[m] = G[U(m)]
  BY <1>2, <1>6
<1>8. F[m] = RunSum(runs) /\ G[Len(vals)] = SeqSum(vals)
  BY <1>1, <1>3, Zenon DEF RunSumSteps, SumSteps
<1> QED
  BY <1>2, <1>7, <1>8

(* The runs hold the values of the points, no more and no less.             *)
LEMMA RunValues ==
  ASSUME NEW S, NEW runs \in Seq(RunSet(S))
  PROVE  {runs[k].v : k \in DOMAIN runs} = ToSet(Expanded(runs))
<1> DEFINE vals == Expanded(runs)
<1>1. /\ DOMAIN runs = 1 .. Len(runs) /\ DOMAIN vals = 1 .. Len(vals)
      /\ Len(vals) = Total(runs) /\ Total(runs) \in Nat
  BY ExpandedIn
<1>2. \A i \in 1 .. Total(runs) : vals[i] = runs[RunOf(runs, i - 1)].v
  BY DEF Expanded
<1> HIDE DEF vals
<1>3. ASSUME NEW k \in 1 .. Len(runs) PROVE \E i \in 1 .. Len(vals) : vals[i] = runs[k].v
  <2>1. 1 \in 1 .. runs[k].n
    BY RunFields
  <2> QED
    BY <2>1, RunPlace DEF vals
<1>4. ASSUME NEW i \in 1 .. Len(vals) PROVE \E k \in 1 .. Len(runs) : runs[k].v = vals[i]
  <2>1. i - 1 \in Nat /\ i - 1 < Total(runs)
    BY <1>1
  <2>2. RunOf(runs, i - 1) \in 1 .. Len(runs)
    BY <2>1, RunOfIn
  <2> QED
    BY <1>1, <1>2, <2>2
<1>5. ToSet(vals) = {vals[i] : i \in 1 .. Len(vals)}
  BY <1>1, Zenon DEF ToSet
<1>6. {runs[k].v : k \in 1 .. Len(runs)} = {vals[i] : i \in 1 .. Len(vals)}
  <2> DEFINE A == {runs[k].v : k \in 1 .. Len(runs)}
             B == {vals[i] : i \in 1 .. Len(vals)}
  <2>1. ASSUME NEW k \in 1 .. Len(runs) PROVE runs[k].v \in B
    BY <1>3
  <2>2. ASSUME NEW i \in 1 .. Len(vals) PROVE vals[i] \in A
    BY <1>4
  <2>3. A \subseteq B
    <3> HIDE DEF B
    <3> QED
      BY <2>1
  <2>4. B \subseteq A
    <3> HIDE DEF A
    <3> QED
      BY <2>2
  <2> QED
    BY <2>3, <2>4
<1> QED
  BY <1>1, <1>5, <1>6 DEF vals

(* Every run holds a value, so there are no more runs than values.          *)
LEMMA RunsFit ==
  ASSUME NEW S, NEW runs \in Seq(RunSet(S))
  PROVE  Len(runs) <= Total(runs)
<1> DEFINE m == Len(runs)
           K == {k \in 0 .. m : k <= Upto(runs, k)}
<1>1. m \in Nat /\ m \in 0 .. m
  OBVIOUS
<1>2. 0 \in K
  BY <1>1, UptoSteps
<1>3. ASSUME NEW k \in 1 .. m, k - 1 \in K PROVE k \in K
  <2>1. Upto(runs, k) = Upto(runs, k - 1) + runs[k].n /\ runs[k].n \in Nat \ {0}
    BY UptoSteps, RunFields
  <2>2. k - 1 \in 0 .. m /\ k \in 0 .. m
    BY <1>1
  <2>3. Upto(runs, k - 1) \in Nat /\ k - 1 <= Upto(runs, k - 1)
    BY <1>3, <2>2, UptoSteps
  <2>4. k <= Upto(runs, k)
    <3> HIDE DEF m
    <3> QED
      BY <1>1, <2>1, <2>2, <2>3
  <2> QED
    BY <2>2, <2>4
<1>4. \A k \in 0 .. m : k \in K
  <2> HIDE DEF K, m
  <2> QED
    BY <1>1, <1>2, <1>3, UpTo
<1> QED
  BY <1>1, <1>4 DEF Total

(* A filter returns no more points than it was given, and one at least if   *)
(* it marks one.                                                            *)
LEMMA MarkedLen ==
  ASSUME NEW S, NEW seq \in Seq(S), NEW map
  PROVE  /\ Marked(seq, map) \in Seq(S)
         /\ Len(Marked(seq, map)) <= Len(seq)
         /\ (\E i \in 1 .. Len(seq) : map[i]) => Len(Marked(seq, map)) >= 1
<1> DEFINE m == Len(seq)
<1>1. PICK G : MarkedSteps(G, S, seq, map)
  BY MarkedFold
<1>2. /\ m \in Nat /\ m \in 0 .. m
      /\ \A k \in 0 .. m : G[k] \in Seq(S)
      /\ \A k \in 1 .. m : seq[k] \in S
      /\ \A k \in 1 .. m : G[k] = IF map[k] THEN Append(G[k - 1], seq[k]) ELSE G[k - 1]
  <2>1. G \in [0 .. m -> Seq(S)] /\ \A k \in 1 .. m : G[k] = Kept(seq, map, G[k - 1], k)
    BY <1>1, Zenon DEF MarkedSteps
  <2>2. \A k \in 1 .. m : G[k] = IF map[k] THEN Append(G[k - 1], seq[k]) ELSE G[k - 1]
    BY <2>1, Zenon DEF Kept
  <2> QED
    BY <2>1, <2>2
<1> DEFINE Some(k) == \E i \in 1 .. k : map[i]
           K == {k \in 0 .. m : Len(G[k]) <= k /\ (Some(k) => Len(G[k]) >= 1)}
<1>3. 0 \in K
  <2>1. G[0] = <<>> /\ 1 .. 0 = {}
    BY <1>1 DEF MarkedSteps
  <2>2. 0 \in 0 .. m /\ ~ Some(0) /\ Len(G[0]) <= 0
    BY <1>2, <2>1
  <2> HIDE DEF Some
  <2> QED
    BY <2>2
<1>4. ASSUME NEW k \in 1 .. m, k - 1 \in K PROVE k \in K
  <2>1. k - 1 \in 0 .. m /\ k \in 0 .. m /\ Len(G[k - 1]) <= k - 1
    BY <1>2, <1>4
  <2>2. G[k - 1] \in Seq(S) /\ Len(G[k - 1]) \in Nat /\ (Some(k - 1) => Len(G[k - 1]) >= 1)
    <3> HIDE DEF Some
    <3> QED
      BY <1>2, <1>4, <2>1
  <2>3. CASE map[k]
    <3>1. Len(G[k]) = Len(G[k - 1]) + 1
      <4> DEFINE g == G[k - 1]
                 x == seq[k]
      <4>1. G[k] = Append(g, x) /\ g \in Seq(S) /\ x \in S
        BY <1>2, <2>2, <2>3
      <4> HIDE DEF g, x
      <4>2. Len(Append(g, x)) = Len(g) + 1
        BY <4>1
      <4> QED
        BY <4>1, <4>2 DEF g
    <3>2. Len(G[k]) <= k /\ Len(G[k]) >= 1
      BY <2>1, <2>2, <3>1
    <3> QED
      BY <2>1, <3>2
  <2>4. CASE ~ map[k]
    <3>1. G[k] = G[k - 1]
      BY <1>2, <2>4
    <3>2. Some(k) => Some(k - 1)
      BY <2>1, <2>4
    <3>3. Len(G[k]) <= k /\ (Some(k) => Len(G[k]) >= 1)
      <4> HIDE DEF Some
      <4> QED
        BY <2>1, <2>2, <3>1, <3>2
    <3> HIDE DEF Some
    <3> QED
      BY <2>1, <3>3
  <2> QED
    BY <2>3, <2>4
<1>5. \A k \in 0 .. m : k \in K
  <2> HIDE DEF K, m
  <2> QED
    BY <1>2, <1>3, <1>4, UpTo
<1>6. Len(G[m]) <= m /\ (Some(m) => Len(G[m]) >= 1) /\ G[m] \in Seq(S)
  <2> HIDE DEF Some
  <2> QED
    BY <1>2, <1>5
<1>7. G[m] = Marked(seq, map)
  BY <1>1, Zenon DEF MarkedSteps
<1> QED
  BY <1>6, <1>7

-----------------------------------------------------------------------------
(* A column stands for a sequence of values.                                *)
Represents(c, vals, S) ==
  /\ c = [enc |-> c.enc, body |-> c.body]
  /\ IF c.enc = "rle" THEN c.body \in Seq(RunSet(S)) /\ Expanded(c.body) = vals
                        ELSE c.body = vals

LEMMA ColumnRepresents ==
  ASSUME NEW S, NEW vals \in Seq(S), NEW enc
  PROVE  Represents(Column(enc, vals), vals, S) /\ Column(enc, vals).enc = enc
<1> DEFINE runs == RunLengthEncode(vals)
           new == Column(enc, vals)
<1>1. runs \in Seq(RunSet(S)) /\ Expanded(runs) = vals
  BY EncodeIs
<1>2. new = [enc |-> enc, body |-> IF enc = "rle" THEN runs ELSE vals]
  BY Zenon DEF Column
<1> HIDE DEF runs, new
<1>3. new.enc = enc /\ new.body = (IF enc = "rle" THEN runs ELSE vals) /\ new = [enc |-> new.enc, body |-> new.body]
  BY <1>2
<1>4. Represents(new, vals, S) /\ new.enc = enc
  BY <1>1, <1>3, Zenon DEF Represents
<1> QED
  BY <1>4 DEF new

LEMMA FilterRepresents ==
  ASSUME NEW S, NEW vals \in Seq(S), NEW c, Represents(c, vals, S), NEW map
  PROVE  Represents(ColumnFilter(c, map), Marked(vals, map), S) /\ ColumnFilter(c, map).enc = c.enc
<1> DEFINE b == c.body
           e == c.enc
           f == RunLengthFilter(b, map)
           new == ColumnFilter(c, map)
<1>1. c = [enc |-> e, body |-> b]
  BY Zenon DEF Represents
<1>2. new = [c EXCEPT !.body = IF e = "rle" THEN f ELSE Marked(b, map)]
  BY Zenon DEF ColumnFilter
<1>3. e = "rle" => b \in Seq(RunSet(S)) /\ Expanded(b) = vals
  BY Zenon DEF Represents
<1>4. e # "rle" => b = vals
  BY Zenon DEF Represents
<1>5. e = "rle" => f \in Seq(RunSet(S)) /\ Expanded(f) = Marked(vals, map)
  <2> HIDE DEF b, e
  <2> QED
    BY <1>3, FilterIs
<1> HIDE DEF b, e, f, new
<1>6. new.enc = e /\ new.body = (IF e = "rle" THEN f ELSE Marked(b, map)) /\ new = [enc |-> new.enc, body |-> new.body]
  BY <1>1, <1>2
<1>7. Represents(new, Marked(vals, map), S) /\ new.enc = e
  BY <1>4, <1>5, <1>6, Zenon DEF Represents
<1> QED
  BY <1>7 DEF new, e

(* Decoded, looked into, compared or summed up, a column answers like the   *)
(* values it stands for.                                                    *)
LEMMA RepresentsDecodes ==
  ASSUME NEW S, NEW vals \in Seq(S), NEW c, Represents(c, vals, S)
  PROVE  Values(c) = vals
<1>1. CASE c.enc = "rle"
  <2>1. c.body \in Seq(RunSet(S)) /\ Expanded(c.body) = vals
    BY <1>1, Zenon DEF Represents
  <2>2. RunLengthDecode(c.body) = vals
    BY <2>1, DecodeIs
  <2> QED
    BY <1>1, <2>2 DEF Values
<1>2. CASE c.enc # "rle"
  BY <1>2, Zenon DEF Represents, Values
<1> QED
  BY <1>1, <1>2

FindsEach(c, vals) == \A n \in DOMAIN vals : ValueAt(c, n - 1) = vals[n]

MarksLike(c, vals) ==
  \A accepted : Bitmap(c, accepted) = [i \in DOMAIN vals |-> vals[i] \in accepted]

LEMMA RepresentsPositions ==
  ASSUME NEW S, NEW vals \in Seq(S), NEW c, Represents(c, vals, S)
  PROVE  FindsEach(c, vals) /\ MarksLike(c, vals)
<1> DEFINE b == c.body
<1>0. DOMAIN vals = 1 .. Len(vals) /\ Len(vals) \in Nat
  OBVIOUS
<1>1. CASE c.enc = "rle"
  <2>1. b \in Seq(RunSet(S)) /\ Expanded(b) = vals
    BY <1>1, Zenon DEF Represents
  <2> HIDE DEF b
  <2>2. Len(vals) = Total(b)
    BY <2>1, ExpandedIn
  <2>3. \A i \in 1 .. Total(b) : vals[i] = b[RunOf(b, i - 1)].v
    BY <2>1 DEF Expanded
  <2>4. \A n \in DOMAIN vals : ValueAt(c, n - 1) = b[RunOf(b, n - 1)].v
    BY <1>1, Zenon DEF ValueAt, b
  <2>5. \A accepted :
          Bitmap(c, accepted) = [i \in 1 .. Total(b) |-> b[RunOf(b, i - 1)].v \in accepted]
    BY <1>1, Zenon DEF Bitmap, b
  <2>6. ASSUME NEW accepted
        PROVE  [i \in 1 .. Total(b) |-> b[RunOf(b, i - 1)].v \in accepted]
                 = [i \in 1 .. Total(b) |-> vals[i] \in accepted]
    BY <2>3, Zenon
  <2> QED
    BY <1>0, <2>2, <2>3, <2>4, <2>5, <2>6, ZenonT(30) DEF FindsEach, MarksLike
<1>2. CASE c.enc # "rle"
  <2>1. b = vals
    BY <1>2, Zenon DEF Represents
  <2>2. \A n \in 1 .. Len(vals) : (n - 1) + 1 = n
    BY <1>0
  <2>3. \A n \in DOMAIN vals : ValueAt(c, n - 1) = b[(n - 1) + 1]
    BY <1>2, Zenon DEF ValueAt
  <2>4. \A accepted : Bitmap(c, accepted) = [i \in DOMAIN b |-> b[i] \in accepted]
    BY <1>2, Zenon DEF Bitmap
  <2>5. \A n \in DOMAIN vals : ValueAt(c, n - 1) = vals[n]
    <3>1. ASSUME NEW n \in 1 .. Len(vals) PROVE ValueAt(c, n - 1) = vals[n]
      <4>1. ValueAt(c, n - 1) = b[(n - 1) + 1]
        BY <1>0, <2>3, <3>1
      <4> QED
        BY <2>1, <2>2, <4>1
    <3> QED
      BY <1>0, <3>1
  <2> QED
    BY <2>1, <2>4, <2>5, Zenon DEF FindsEach, MarksLike
<1> QED
  BY <1>1, <1>2

LEMMA RepresentsSums ==
  ASSUME NEW S \in SUBSET Int, NEW vals \in Seq(S), NEW c, Represents(c, vals, S)
  PROVE  /\ ColumnMin(c) = Min(ToSet(vals))
         /\ ColumnMax(c) = Max(ToSet(vals))
         /\ ColumnSum(c) = FoldLeft(+, 0, vals)
<1> DEFINE b == c.body
           old == {b[k].v : k \in DOMAIN b}
<1>1. CASE c.enc = "rle"
  <2>1. b \in Seq(RunSet(S)) /\ Expanded(b) = vals
    BY <1>1, Zenon DEF Represents
  <2>2. old = ToSet(vals)
    <3> HIDE DEF b
    <3> QED
      BY <2>1, RunValues
  <2>3. RunSum(b) = SeqSum(vals)
    <3> HIDE DEF b
    <3> QED
      BY <2>1, SumIs
  <2>4. ColumnMin(c) = Min(old) /\ ColumnMax(c) = Max(old)
    BY <1>1, Zenon DEF ColumnMin, ColumnMax
  <2>5. ColumnSum(c) = RunSum(b)
    BY <1>1, Zenon DEF ColumnSum, RunSum
  <2> QED
    BY <2>2, <2>3, <2>4, <2>5, Zenon DEF SeqSum
<1>2. CASE c.enc # "rle"
  <2>1. b = vals
    BY <1>2, Zenon DEF Represents
  <2> QED
    BY <1>2, <2>1, Zenon DEF ColumnMin, ColumnMax, ColumnSum
<1> QED
  BY <1>1, <1>2

-----------------------------------------------------------------------------
(* A filter keeps as many elements as it marks.                             *)
LEMMA MarkedCount ==
  ASSUME NEW S, NEW seq \in Seq(S), NEW map
  PROVE  Len(Marked(seq, map)) = Cardinality({i \in 1 .. Len(seq) : map[i]})
<1> DEFINE m == Len(seq)
<1>1. PICK G : MarkedSteps(G, S, seq, map)
  BY MarkedFold
<1>2. /\ m \in Nat /\ 0 \in Nat /\ m \in 0 .. m
      /\ G \in [0 .. m -> Seq(S)] /\ G[0] = <<>> /\ G[m] = Marked(seq, map)
      /\ \A k \in 1 .. m : G[k] = Kept(seq, map, G[k - 1], k)
  BY <1>1 DEF MarkedSteps
<1>a. /\ Marks(map, 0, 0) = 0
      /\ \A j \in 0 .. m : Marks(map, 0, j) \in 0 .. j
      /\ \A j \in 1 .. m : Marks(map, 0, j) =
            IF map[0 + j] THEN Marks(map, 0, j - 1) + 1 ELSE Marks(map, 0, j - 1)
  <2>1. m \in Nat /\ 0 \in Nat
    BY <1>2
  <2> QED
    BY <2>1, MarksStep
<1> DEFINE K == {k \in 0 .. m : Len(G[k]) = Marks(map, 0, k)}
<1>3. 0 \in K
  BY <1>2, <1>a
<1>4. ASSUME NEW k \in 1 .. m, k - 1 \in K PROVE k \in K
  <2> HIDE DEF m
  <2>1. k - 1 \in 0 .. m /\ k \in 0 .. m /\ 0 + k = k
    BY <1>2
  <2>2. Len(G[k - 1]) = Marks(map, 0, k - 1) /\ G[k - 1] \in Seq(S)
    BY <1>2, <1>4, <2>1
  <2>3. G[k] = IF map[k] THEN Append(G[k - 1], seq[k]) ELSE G[k - 1]
    BY <1>2, Zenon DEF Kept
  <2>4. Marks(map, 0, k) = IF map[k] THEN Marks(map, 0, k - 1) + 1 ELSE Marks(map, 0, k - 1)
    BY <1>a, <2>1
  <2>5. Len(G[k]) = Marks(map, 0, k)
    <3> DEFINE g == G[k - 1]
    <3>1. g \in Seq(S) /\ seq[k] \in S
      <4>1. seq[k] \in S
        BY ElementOfSeq, Zenon DEF m
      <4> QED
        BY <2>2, <4>1
    <3> HIDE DEF g
    <3>2. Len(Append(g, seq[k])) = Len(g) + 1
      BY <3>1
    <3> QED
      BY <2>2, <2>3, <2>4, <3>2 DEF g
  <2> QED
    BY <2>1, <2>5
<1>5. \A k \in 0 .. m : k \in K
  <2> HIDE DEF K, m
  <2> QED
    BY <1>2, <1>3, <1>4, UpTo
<1>6. Len(Marked(seq, map)) = Marks(map, 0, m)
  BY <1>2, <1>5
<1>7. Marks(map, 0, m) = Cardinality({i \in 1 .. m : map[i]})
  <2>1. 0 + 1 = 1 /\ 0 + m = m
    BY <1>2
  <2> QED
    BY <2>1 DEF Marks
<1> QED
  BY <1>6, <1>7

(* Whatever is read off the elements can be filtered after or before.       *)
LEMMA MarkedMaps ==
  ASSUME NEW S, NEW T, NEW seq \in Seq(S), NEW map, NEW g \in [S -> T],
         NEW other \in Seq(T), Len(other) = Len(seq),
         \A i \in 1 .. Len(seq) : other[i] = g[seq[i]]
  PROVE  /\ Len(Marked(other, map)) = Len(Marked(seq, map))
         /\ \A i \in 1 .. Len(Marked(seq, map)) : Marked(other, map)[i] = g[Marked(seq, map)[i]]
<1> DEFINE m == Len(seq)
           Same(a, b) == Len(a) = Len(b) /\ \A i \in 1 .. Len(b) : a[i] = g[b[i]]
<1>1. PICK G : MarkedSteps(G, S, seq, map)
  BY MarkedFold
<1>2. PICK H : MarkedSteps(H, T, other, map)
  BY MarkedFold
<1>3. /\ m \in Nat /\ 0 \in 0 .. m /\ m \in 0 .. m
      /\ G \in [0 .. m -> Seq(S)] /\ G[0] = <<>> /\ G[m] = Marked(seq, map)
      /\ \A k \in 1 .. m : G[k] = Kept(seq, map, G[k - 1], k)
  BY <1>1 DEF MarkedSteps
<1>4. /\ H \in [0 .. m -> Seq(T)] /\ H[0] = <<>> /\ H[m] = Marked(other, map)
      /\ \A k \in 1 .. m : H[k] = Kept(other, map, H[k - 1], k)
  BY <1>2 DEF MarkedSteps
<1> DEFINE K == {k \in 0 .. m : Same(H[k], G[k])}
<1>5. 0 \in K
  BY <1>3, <1>4
<1>6. ASSUME NEW k \in 1 .. m, k - 1 \in K PROVE k \in K
  <2>0. seq[k] \in S /\ other[k] \in T /\ other[k] = g[seq[k]]
    BY <1>3
  <2> DEFINE a == H[k - 1]
             b == G[k - 1]
             x == other[k]
             y == seq[k]
  <2>1. k - 1 \in 0 .. m /\ k \in 0 .. m
    <3> HIDE DEF m
    <3> QED
      BY <1>3
  <2>2. a \in Seq(T) /\ b \in Seq(S) /\ Same(a, b)
    <3> HIDE DEF m, Same
    <3> QED
      BY <1>3, <1>4, <1>6, <2>1
  <2>3. G[k] = (IF map[k] THEN Append(b, y) ELSE b) /\ H[k] = (IF map[k] THEN Append(a, x) ELSE a)
    BY <1>3, <1>4, Zenon DEF Kept
  <2> HIDE DEF a, b, x, y
  <2>4. Same(Append(a, x), Append(b, y))
    <3>1. x \in T /\ y \in S /\ x = g[y]
      BY <2>0 DEF x, y
    <3> QED
      BY <2>2, <3>1
  <2>5. Same(H[k], G[k])
    <3> HIDE DEF Same
    <3> QED
      BY <2>2, <2>3, <2>4
  <2> HIDE DEF m, Same
  <2> QED
    BY <2>1, <2>5
<1>7. \A k \in 0 .. m : k \in K
  <2> HIDE DEF K, m
  <2> QED
    BY <1>3, <1>5, <1>6, UpTo
<1>8. Same(Marked(other, map), Marked(seq, map))
  <2> HIDE DEF Same
  <2> QED
    BY <1>3, <1>4, <1>7
<1> QED
  BY <1>8
=============================================================================
