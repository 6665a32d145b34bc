-------------------------- MODULE SchemaDocProofs --------------------------
(***************************************************************************)
(* Proofs about schema documents, for every number of dimensions and every *)
(* content of the elements.                                                *)
(*                                                                         *)
(* That no schema has a hole when its coordinates are looked for: the      *)
(* elements are as many as the positions, and the two tests before an      *)
(* element is stored make "the position an element states" an injection    *)
(* from the elements into the positions; between finite sets of one size   *)
(* it is then a surjection.                                                *)
(*                                                                         *)
(* The rest rests on DocInv: every schema is Sound (typed, each dimension  *)
(* where it says, the name table holding the named dimensions and nothing  *)
(* else, offsets and size those of the layout), coordinates are dimensions *)
(* of the schema, and a clone repeats the schema in memory behind it.      *)
(* The proof first says what the name table answers (Insert adds one entry *)
(* and loses none, Search finds an entry with the name if there is one),   *)
(* then what the layout is (the sum of the sizes before a position), then  *)
(* takes the actions one by one.  Of RunLengthProofs it uses the lemmas on *)
(* induction and folds only.                                               *)
(***************************************************************************)
EXTENDS SchemaDoc, RunLengthProofs

(* Records of the shape of PCDIMENSION and PCSCHEMA.                        *)
IsDimension(d) ==
  d = [name |-> d.name, position |-> d.position,
       interpretation |-> d.interpretation, byteoffset |-> d.byteoffset]

IsSchema(sch) ==
  sch = [ndims |-> sch.ndims, dims |-> sch.dims, namehash |-> sch.namehash,
         size |-> sch.size, at |-> sch.at, compression |-> sch.compression]

(* While elements are read, each stored dimension is found at the position  *)
(* it states.                                                               *)
FoundWhereStated ==
  phase = "dimensions" =>
    /\ copy = NULL
    /\ IsSchema(s) /\ s.ndims \in Nat
    /\ DOMAIN s.dims = 0 .. s.ndims - 1
    /\ mem \in Seq(Range(mem))
    /\ \A d \in 1 .. Len(mem) :
         /\ IsDimension(mem[d])
         /\ mem[d].position \in 0 .. s.ndims - 1
         /\ s.dims[mem[d].position] = d

(* The pigeonhole: n elements at n positions leave none empty.              *)
LEMMA Pigeonhole ==
  ASSUME NEW n \in Nat, NEW f \in [1 .. n -> 0 .. n - 1],
         \A i, j \in 1 .. n : f[i] = f[j] => i = j
  PROVE  \A p \in 0 .. n - 1 : \E i \in 1 .. n : f[i] = p
<1>1. IsFiniteSet(0 .. n - 1) /\ Cardinality(0 .. n - 1) = n
  <2>1. 0 \in Int /\ n - 1 \in Int
    OBVIOUS
  <2>2. /\ IsFiniteSet(0 .. n - 1)
        /\ Cardinality(0 .. n - 1) = IF 0 > n - 1 THEN 0 ELSE n - 1 - 0 + 1
    BY <2>1, FS_Interval, Zenon
  <2> QED
    BY <2>2
<1>2. IsFiniteSet(1 .. n) /\ Cardinality(1 .. n) = n
  <2>1. 1 \in Int /\ n \in Int
    OBVIOUS
  <2>2. /\ IsFiniteSet(1 .. n)
        /\ Cardinality(1 .. n) = IF 1 > n THEN 0 ELSE n - 1 + 1
    BY <2>1, FS_Interval, Zenon
  <2> QED
    BY <2>2
<1>3. f \in Injection(1 .. n, 0 .. n - 1)
  BY DEF Injection, IsInjective
<1>4. f \in Surjection(1 .. n, 0 .. n - 1)
  BY <1>1, <1>2, <1>3, FS_Injection, Zenon
<1> QED
  BY <1>4 DEF Surjection

(* All the elements of a document have been stored.                         *)
LEMMA FoundFills == FoundWhereStated => NoHole
<1>1. SUFFICES ASSUME FoundWhereStated, phase = "dimensions", Len(mem) = s.ndims
               PROVE  Filled(s) = DOMAIN s.dims
  BY DEF NoHole
<1> DEFINE f == [d \in 1 .. s.ndims |-> mem[d].position]
<1>2. s.ndims \in Nat /\ f \in [1 .. s.ndims -> 0 .. s.ndims - 1]
  BY <1>1 DEF FoundWhereStated
<1>3. \A d, e \in 1 .. s.ndims : f[d] = f[e] => d = e
  BY <1>1 DEF FoundWhereStated
<1>4. \A p \in 0 .. s.ndims - 1 : \E d \in 1 .. s.ndims : f[d] = p
  <2> HIDE DEF f
  <2> QED
    BY <1>2, <1>3, Pigeonhole
<1>5. \A p \in 0 .. s.ndims - 1 : s.dims[p] \in 1 .. s.ndims
  <2>1. SUFFICES ASSUME NEW p \in 0 .. s.ndims - 1 PROVE s.dims[p] \in 1 .. s.ndims
    OBVIOUS
  <2>2. PICK d \in 1 .. s.ndims : mem[d].position = p
    BY <1>4
  <2> QED
    BY <1>1, <2>2 DEF FoundWhereStated
<1>6. \A p \in 0 .. s.ndims - 1 : s.dims[p] # NULL
  BY <1>2, <1>5, SchemaDocAssumption
<1> QED
  BY <1>1, <1>6 DEF Filled, FoundWhereStated

LEMMA InitFound == Init => FoundWhereStated
<1>1. SUFFICES ASSUME Init PROVE FoundWhereStated
  OBVIOUS
<1>2. PICK n \in 0 .. MaxDims : s = SchemaNew(n)
  BY <1>1 DEF Init
<1>3. IsSchema(s) /\ s.ndims \in Nat /\ DOMAIN s.dims = 0 .. s.ndims - 1
  BY <1>2, SchemaDocAssumption DEF SchemaNew, IsSchema
<1>4. mem = <<>> /\ mem \in Seq(Range(mem))
  BY <1>1 DEF Init
<1>5. copy = NULL
  BY <1>1 DEF Init
<1> QED
  BY <1>3, <1>4, <1>5 DEF FoundWhereStated

(* Working out offsets moves no dimension.                                  *)
LEMMA OffsetsKeepPositions ==
  ASSUME NEW m, NEW sch, NEW e \in DOMAIN m, IsDimension(m[e])
  PROVE  /\ IsDimension(WithOffsets(m, sch)[e])
         /\ WithOffsets(m, sch)[e].position = m[e].position
<1>1. ASSUME NEW d, IsDimension(d), NEW b
      PROVE  /\ IsDimension([d EXCEPT !.byteoffset = b])
             /\ [d EXCEPT !.byteoffset = b].position = d.position
  BY <1>1, SMT DEF IsDimension
<1>2. CASE \E p \in Filled(sch) : sch.dims[p] = e
  <2> DEFINE b == Before(m, sch, m[e].position) % Word
  <2>1. WithOffsets(m, sch)[e] = [m[e] EXCEPT !.byteoffset = b]
    BY <1>2, Zenon DEF WithOffsets
  <2> HIDE DEF b
  <2>2. /\ IsDimension([m[e] EXCEPT !.byteoffset = b])
        /\ [m[e] EXCEPT !.byteoffset = b].position = m[e].position
    BY <1>1
  <2> QED
    BY <2>1, <2>2, Zenon
<1>3. CASE ~ \E p \in Filled(sch) : sch.dims[p] = e
  <2>1. WithOffsets(m, sch)[e] = m[e]
    BY <1>3, Zenon DEF WithOffsets
  <2> QED
    BY <2>1, Zenon
<1> QED
  BY <1>2, <1>3, Zenon

(* A dimension stored where none was before.                                *)
LEMMA StoreKeeps ==
  ASSUME FoundWhereStated, NEW d \in Element, StoreDimension(d)
  PROVE  FoundWhereStated'
<1> DEFINE n   == Len(mem) + 1
           m   == Append(mem, d)
           set == Stored(m, s, n)
<1>1. /\ phase = "dimensions" /\ phase' = phase
      /\ d.position < s.ndims /\ s.dims[d.position] = NULL
      /\ mem' = WithOffsets(m, set)
      /\ s' = WithSize(m, set)
  BY DEF StoreDimension, Reading, SetDimension
<1>2. /\ IsDimension(d)
      /\ d.position \in Nat
  BY SchemaDocAssumption DEF Element, IsDimension
<1>3. Len(mem) \in Nat /\ DOMAIN mem = 1 .. Len(mem)
  BY <1>1 DEF FoundWhereStated
<1>4. /\ DOMAIN m = 1 .. n
      /\ m[n] = d
      /\ \A e \in 1 .. Len(mem) : m[e] = mem[e]
  BY <1>1 DEF FoundWhereStated
<1>5. \A e \in 1 .. n : IsDimension(m[e]) /\ m[e].position \in 0 .. s.ndims - 1
  BY <1>1, <1>2, <1>3, <1>4 DEF FoundWhereStated
<1>6. /\ IsSchema(s')
      /\ s'.ndims = s.ndims
      /\ s'.dims = [s.dims EXCEPT ![d.position] = n]
  BY <1>1, <1>4, Zenon DEF FoundWhereStated, IsSchema, Stored, WithSize
<1>7. /\ DOMAIN mem' = 1 .. n
      /\ \A e \in 1 .. n : IsDimension(mem'[e]) /\ mem'[e].position = m[e].position
  <2>1. DOMAIN mem' = 1 .. n
    BY <1>1, <1>4, Zenon DEF WithOffsets
  <2> HIDE DEF n, m, set
  <2> QED
    BY <1>1, <1>4, <1>5, <2>1, OffsetsKeepPositions, Zenon
<1>8. Len(mem') = n /\ mem' \in Seq(Range(mem'))
  <2>1. mem' = [e \in 1 .. n |-> mem'[e]]
    BY <1>1, <1>4, <1>7, Zenon DEF WithOffsets
  <2>2. n \in Nat
    BY <1>3
  <2> HIDE DEF n
  <2> QED
    BY <1>7, <2>1, <2>2 DEF Range
<1>9. \A e \in 1 .. n : s'.dims[m[e].position] = e
  <2>1. ASSUME NEW e \in 1 .. Len(mem) PROVE s'.dims[m[e].position] = e
    BY <1>1, <1>3, <1>4, <1>6, <2>1, SchemaDocAssumption DEF FoundWhereStated
  <2>2. s'.dims[m[n].position] = n
    BY <1>1, <1>2, <1>4, <1>6 DEF FoundWhereStated
  <2> QED
    BY <1>3, <2>1, <2>2
<1>10. copy' = NULL /\ s'.ndims \in Nat /\ DOMAIN s'.dims = 0 .. s'.ndims - 1
  BY <1>1, <1>6 DEF StoreDimension, FoundWhereStated
<1> HIDE DEF n, m, set
<1> QED
  BY <1>1, <1>5, <1>6, <1>7, <1>8, <1>9, <1>10 DEF FoundWhereStated

(* No other action stays in the phase in which elements are read.           *)
LEMMA StepFound == FoundWhereStated /\ [Next]_vars => FoundWhereStated'
<1>1. SUFFICES ASSUME FoundWhereStated, [Next]_vars PROVE FoundWhereStated'
  OBVIOUS
<1>2. CASE \E d \in Element : StoreDimension(d)
  BY <1>1, <1>2, StoreKeeps
<1>3. CASE \E d \in Element : RejectDimension(d)
  BY <1>3 DEF RejectDimension, FoundWhereStated
<1>4. CASE CompleteDimensions
  BY <1>4 DEF CompleteDimensions, FoundWhereStated
<1>5. CASE \E value \in Compression \cup {"other"} : ReadMetadata(value)
  BY <1>5 DEF ReadMetadata, FoundWhereStated
<1>6. CASE EndOfDocument
  BY <1>6 DEF EndOfDocument, FoundWhereStated
<1>7. CASE CleanUp
  BY <1>7 DEF CleanUp, FoundWhereStated
<1>8. CASE SchemaClone
  BY <1>8 DEF SchemaClone, FoundWhereStated
<1>9. CASE \E compression \in {"dimensional", "laz"} : Override(compression)
  BY <1>1, <1>9 DEF Override, FoundWhereStated, IsSchema, IsDimension
<1>10. CASE SchemaFree
  BY <1>1, <1>10 DEF SchemaFree, FoundWhereStated
<1>11. CASE UNCHANGED vars
  BY <1>1, <1>11 DEF vars, FoundWhereStated, IsSchema, IsDimension
<1> QED
  BY <1>1, <1>2, <1>3, <1>4, <1>5, <1>6, <1>7, <1>8, <1>9, <1>10, <1>11 DEF Next

(* pc_schema_check_xyzm meets a dimension at every position, whatever       *)
(* positions the elements of a document state and however many they are.    *)
THEOREM NeverAHole == Spec => []NoHole
<1>1. Init => FoundWhereStated
  BY InitFound
<1>2. FoundWhereStated /\ [Next]_vars => FoundWhereStated'
  BY StepFound
<1>3. FoundWhereStated => NoHole
  BY FoundFills
<1> QED
  BY <1>1, <1>2, <1>3, PTL DEF Spec

(* Chains of entries, each entry in the chain its key is hashed to.         *)
Entry == [k : Key, v : Nat]

Tidy(chains, length) ==
  /\ chains \in [0 .. length - 1 -> Seq(Entry)]
  /\ \A i \in 0 .. length - 1 : \A j \in 1 .. Len(chains[i]) :
       IndexFor(length, chains[i][j].k) = i

Holds(chains, length, e) ==
  \E i \in 0 .. length - 1 : \E j \in 1 .. Len(chains[i]) : chains[i][j] = e

LEMMA IndexIn ==
  ASSUME NEW length \in Nat \ {0}, NEW k \in Key
  PROVE  IndexFor(length, k) \in 0 .. length - 1
<1>1. Hash[k] \in Nat
  BY HashtableAssumption
<1> QED
  BY <1>1 DEF IndexFor

LEMMA HeadOf ==
  ASSUME NEW S, NEW e \in S, NEW chain \in Seq(S)
  PROVE  /\ <<e>> \o chain \in Seq(S)
         /\ Len(<<e>> \o chain) = Len(chain) + 1
         /\ (<<e>> \o chain)[1] = e
         /\ \A j \in 1 .. Len(chain) : (<<e>> \o chain)[j + 1] = chain[j]
         /\ \A j \in 1 .. Len(chain) + 1 : j = 1 \/ j - 1 \in 1 .. Len(chain)
  OBVIOUS

(* An entry at the head of its chain is one entry more.                     *)
LEMMA ChainedAdds ==
  ASSUME NEW length \in Nat \ {0}, NEW chains, Tidy(chains, length), NEW e \in Entry
  PROVE  /\ Tidy(Chained(chains, length, e), length)
         /\ \A x : Holds(Chained(chains, length, e), length, x)
                     <=> x = e \/ Holds(chains, length, x)
<1> DEFINE h   == IndexFor(length, e.k)
           I   == 0 .. length - 1
           new == Chained(chains, length, e)
           c   == <<e>> \o chains[h]
<1>1. h \in I
  BY IndexIn DEF Entry
<1>2. chains \in [I -> Seq(Entry)] /\ chains[h] \in Seq(Entry)
  BY <1>1 DEF Tidy
<1>3. new \in [I -> Seq(Entry)] /\ new[h] = c /\ \A i \in I : i # h => new[i] = chains[i]
  <2>1. c \in Seq(Entry)
    BY <1>2, HeadOf
  <2> HIDE DEF c, I, h
  <2>2. new = [chains EXCEPT ![h] = c]
    BY DEF Chained, c, h
  <2> HIDE DEF new
  <2> QED
    BY <1>1, <1>2, <2>1, <2>2
<1>4. /\ Len(c) = Len(chains[h]) + 1
      /\ c[1] = e
      /\ \A j \in 1 .. Len(chains[h]) : c[j + 1] = chains[h][j]
      /\ \A j \in 1 .. Len(chains[h]) + 1 : j = 1 \/ j - 1 \in 1 .. Len(chains[h])
  BY <1>2, HeadOf
<1>5. Len(chains[h]) \in Nat
  BY <1>2
<1> HIDE DEF c, new
<1>6. \A j \in 1 .. Len(c) : c[j] = e \/ \E l \in 1 .. Len(chains[h]) : c[j] = chains[h][l]
  <2>1. SUFFICES ASSUME NEW j \in 1 .. Len(c), j # 1
                 PROVE  \E l \in 1 .. Len(chains[h]) : c[j] = chains[h][l]
    BY <1>4
  <2>2. j - 1 \in 1 .. Len(chains[h]) /\ (j - 1) + 1 = j
    BY <1>4, <1>5, <2>1
  <2> QED
    BY <1>4, <2>2
<1>7. ASSUME NEW i \in I, NEW j \in 1 .. Len(new[i]) PROVE IndexFor(length, new[i][j].k) = i
  <2>1. CASE i # h
    BY <1>3, <2>1 DEF Tidy
  <2>2. CASE i = h
    <3>1. new[i][j] = e \/ \E l \in 1 .. Len(chains[h]) : new[i][j] = chains[h][l]
      BY <1>3, <1>6, <2>2
    <3> QED
      BY <1>1, <2>2, <3>1, Zenon DEF Tidy
  <2> QED
    BY <2>1, <2>2
<1>8. ASSUME NEW x, Holds(new, length, x) PROVE x = e \/ Holds(chains, length, x)
  <2>1. PICK i \in I : \E j \in 1 .. Len(new[i]) : new[i][j] = x
    BY <1>8 DEF Holds
  <2>2. CASE i # h
    BY <1>3, <2>1, <2>2, Zenon DEF Holds
  <2>3. CASE i = h
    BY <1>1, <1>3, <1>6, <2>1, <2>3, Zenon DEF Holds
  <2> QED
    BY <2>2, <2>3
<1>9. Holds(new, length, e)
  <2>1. 1 \in 1 .. Len(c)
    BY <1>4, <1>5
  <2> QED
    BY <1>1, <1>3, <1>4, <2>1, Zenon DEF Holds
<1>10. ASSUME NEW x, Holds(chains, length, x) PROVE Holds(new, length, x)
  <2>1. PICK i \in I : \E j \in 1 .. Len(chains[i]) : chains[i][j] = x
    BY <1>10 DEF Holds
  <2>2. CASE i # h
    BY <1>3, <2>1, <2>2, Zenon DEF Holds
  <2>3. CASE i = h
    <3>1. PICK j \in 1 .. Len(chains[h]) : chains[h][j] = x
      BY <2>1, <2>3
    <3>2. j + 1 \in 1 .. Len(c)
      BY <1>4, <1>5
    <3>3. new[h][j + 1] = x
      BY <1>3, <1>4, <3>1
    <3> QED
      BY <1>1, <1>3, <3>2, <3>3, Zenon DEF Holds
  <2> QED
    BY <2>2, <2>3
<1>11. Tidy(new, length)
  BY <1>3, <1>7, Zenon DEF Tidy
<1> QED
  BY <1>8, <1>9, <1>10, <1>11, Zenon DEF new

(* The elements of a sequence of sequences.                                 *)
InSeq(a, x) == \E j \in 1 .. Len(a) : a[j] = x

Among(ss, n, x) == \E i \in 1 .. n : InSeq(ss[i], x)

LEMMA ConcatHolds ==
  ASSUME NEW S, NEW a \in Seq(S), NEW b \in Seq(S)
  PROVE  /\ a \o b \in Seq(S)
         /\ \A x : InSeq(a \o b, x) <=> InSeq(a, x) \/ InSeq(b, x)
<1> DEFINE c == a \o b
<1>1. /\ c \in Seq(S) /\ Len(c) = Len(a) + Len(b) /\ Len(a) \in Nat /\ Len(b) \in Nat
      /\ \A j \in 1 .. Len(a) : c[j] = a[j]
      /\ \A j \in 1 .. Len(b) : c[Len(a) + j] = b[j]
  OBVIOUS
<1> HIDE DEF c
<1>2. \A j \in 1 .. Len(c) : j \in 1 .. Len(a) \/ j - Len(a) \in 1 .. Len(b)
  BY <1>1
<1>3. ASSUME NEW j \in 1 .. Len(c)
      PROVE  \/ \E l \in 1 .. Len(a) : a[l] = c[j]
             \/ \E l \in 1 .. Len(b) : b[l] = c[j]
  <2>1. CASE j \in 1 .. Len(a)
    BY <1>1, <2>1
  <2>2. CASE j - Len(a) \in 1 .. Len(b)
    <3>1. Len(a) + (j - Len(a)) = j
      BY <1>1
    <3>2. c[Len(a) + (j - Len(a))] = b[j - Len(a)]
      BY <1>1, <2>2, Zenon
    <3> QED
      BY <2>2, <3>1, <3>2, Zenon
  <2> QED
    BY <1>2, <2>1, <2>2
<1>4. \A j \in 1 .. Len(a) : j \in 1 .. Len(c)
  BY <1>1
<1>5. \A j \in 1 .. Len(b) : Len(a) + j \in 1 .. Len(c)
  BY <1>1
<1> QED
  BY <1>1, <1>3, <1>4, <1>5, Zenon DEF c, InSeq

(* Flattening keeps the elements.                                           *)
LEMMA FlattenHolds ==
  ASSUME NEW S, NEW n \in Nat \ {0}, NEW ss \in [1 .. n -> Seq(S)]
  PROVE  /\ FlattenSeq(ss) \in Seq(S)
         /\ \A x : InSeq(FlattenSeq(ss), x) <=> Among(ss, n, x)
<1> DEFINE V == Seq(S)
           step == [p \in (1 .. n) \X V |-> IF p[1] = 1 THEN ss[p[1]] ELSE p[2] \o ss[p[1]]]
           Body(f) == [i \in 1 .. n |-> IF i = 1 THEN ss[i] ELSE f[i - 1] \o ss[i]]
           flatten == CHOOSE f : f = Body(f)
<1>0. <<>> \in V /\ Len(ss) = n /\ n \in Nat /\ n # 0
  OBVIOUS
<1>1. step \in [(1 .. n) \X V -> V]
  OBVIOUS
<1>2. \A k \in 1 .. n, v \in V : step[<<k, v>>] = IF k = 1 THEN ss[k] ELSE v \o ss[k]
  <2> HIDE DEF V
  <2> QED
    OBVIOUS
<1> HIDE DEF V, step
<1>3. PICK f \in [0 .. n -> V] : SolvesRecursion(f, <<>>, n, step)
  BY <1>0, <1>1, RecursionExists, Zenon
<1> DEFINE g == [i \in 1 .. n |-> f[i]]
<1>4. g = Body(g)
  <2>1. SUFFICES ASSUME NEW i \in 1 .. n
                 PROVE  g[i] = IF i = 1 THEN ss[i] ELSE g[i - 1] \o ss[i]
    OBVIOUS
  <2>2. i \in 0 .. n /\ i # 0 /\ i - 1 \in 0 .. n
    OBVIOUS
  <2>3. f[i] = step[<<i, f[i - 1]>>] /\ f[i - 1] \in V
    BY <1>3, <2>2 DEF SolvesRecursion
  <2>4. f[i] = IF i = 1 THEN ss[i] ELSE f[i - 1] \o ss[i]
    BY <1>2, <2>3
  <2>5. i # 1 => i - 1 \in 1 .. n
    OBVIOUS
  <2> QED
    BY <2>4, <2>5
<1>5. flatten = Body(flatten)
  <2> HIDE DEF Body, g
  <2> QED
    BY <1>4, Zenon
<1>6. FlattenSeq(ss) = flatten[n]
  BY <1>0, Zenon DEF FlattenSeq
<1> HIDE DEF flatten
<1>7. \A i \in 1 .. n : flatten[i] = IF i = 1 THEN ss[i] ELSE flatten[i - 1] \o ss[i]
  BY <1>5
<1> DEFINE Right(k) == /\ flatten[k] \in V
                       /\ \A x : InSeq(flatten[k], x) <=> Among(ss, k, x)
           K == {k \in 0 .. n : k = 0 \/ Right(k)}
<1>8. 0 \in K
  BY <1>0
<1>9. ASSUME NEW k \in 1 .. n, k - 1 \in K PROVE k \in K
  <2>1. CASE k = 1
    <3>1. flatten[1] = ss[1]
      BY <1>7, <2>1
    <3>2. \A i : i \in 1 .. 1 <=> i = 1
      OBVIOUS
    <3>3. \A x : Among(ss, 1, x) <=> InSeq(ss[1], x)
      <4>1. ASSUME NEW x, Among(ss, 1, x) PROVE InSeq(ss[1], x)
        <5>1. PICK i \in 1 .. 1 : InSeq(ss[i], x)
          BY <4>1 DEF Among
        <5>2. i = 1
          BY <3>2
        <5> QED
          BY <5>1, <5>2
      <4>2. 1 \in 1 .. 1
        BY <3>2
      <4>3. ASSUME NEW x, InSeq(ss[1], x) PROVE Among(ss, 1, x)
        BY <4>2, <4>3, Zenon DEF Among
      <4> QED
        BY <4>1, <4>3, Zenon
    <3>4. ss[1] \in V
      BY <2>1 DEF V
    <3>5. Right(1)
      BY <3>1, <3>3, <3>4, Zenon
    <3> HIDE DEF Right
    <3> QED
      BY <2>1, <3>5
  <2>2. CASE k # 1
    <3> DEFINE a == flatten[k - 1]
    <3>1. flatten[k] = a \o ss[k]
      BY <1>7, <2>2
    <3>2. Right(k - 1)
      <4> HIDE DEF Right
      <4> QED
        BY <1>9, <2>2
    <3>3. a \in Seq(S) /\ ss[k] \in Seq(S)
      BY <3>2 DEF V
    <3>4. /\ a \o ss[k] \in Seq(S)
          /\ \A x : InSeq(a \o ss[k], x) <=> InSeq(a, x) \/ InSeq(ss[k], x)
      <4> HIDE DEF a
      <4> QED
        BY <3>3, ConcatHolds, Zenon
    <3>5. \A i : i \in 1 .. k <=> i \in 1 .. k - 1 \/ i = k
      OBVIOUS
    <3>6. \A x : Among(ss, k, x) <=> Among(ss, k - 1, x) \/ InSeq(ss[k], x)
      BY <3>5, Zenon DEF Among
    <3>7. Right(k)
      BY <3>1, <3>2, <3>4, <3>6, Zenon DEF V
    <3> HIDE DEF Right
    <3> QED
      BY <3>7
  <2> QED
    BY <2>1, <2>2
<1>10. n \in K
  <2>1. \A k \in 0 .. n : k \in K
    <3> HIDE DEF K
    <3> QED
      BY <1>0, <1>8, <1>9, UpTo
  <2>2. n \in 0 .. n
    BY <1>0
  <2> HIDE DEF K
  <2> QED
    BY <2>1, <2>2
<1>11. Right(n)
  <2> HIDE DEF Right
  <2> QED
    BY <1>0, <1>10
<1> QED
  BY <1>6, <1>11, Zenon DEF V

(* Chaining entries one by one.                                             *)
AllChained(length, es) ==
  FoldLeft(LAMBDA chains, e : Chained(chains, length, e), NoChains(length), es)

ChainSteps(F, length, es) ==
  /\ F \in [0 .. Len(es) -> [0 .. length - 1 -> Seq(Entry)]]
  /\ F[0] = NoChains(length)
  /\ F[Len(es)] = AllChained(length, es)
  /\ \A k \in 1 .. Len(es) : F[k] = Chained(F[k - 1], length, es[k])

LEMMA ChainedIn ==
  ASSUME NEW length \in Nat \ {0}, NEW chains \in [0 .. length - 1 -> Seq(Entry)], NEW e \in Entry
  PROVE  Chained(chains, length, e) \in [0 .. length - 1 -> Seq(Entry)]
<1> DEFINE h == IndexFor(length, e.k)
<1>1. h \in 0 .. length - 1
  BY IndexIn DEF Entry
<1>2. chains[h] \in Seq(Entry)
  BY <1>1
<1>3. <<e>> \o chains[h] \in Seq(Entry)
  BY <1>2, HeadOf
<1> HIDE DEF h
<1> QED
  BY <1>1, <1>3 DEF Chained, h

LEMMA ChainFold ==
  ASSUME NEW length \in Nat \ {0}, NEW es \in Seq(Entry)
  PROVE  \E F : ChainSteps(F, length, es)
<1> DEFINE m == Len(es)
           V == [0 .. length - 1 -> Seq(Entry)]
           base == NoChains(length)
           step == [p \in (1 .. m) \X V |-> Chained(p[2], length, es[p[1]])]
           Body(it) == [s_ \in SUBSET (DOMAIN es) |->
                          IF s_ = {} THEN base
                          ELSE Chained(it[s_ \ {Max(s_)}], length, es[Max(s_)])]
           iter == CHOOSE it : it = Body(it)
<1>1. DOMAIN es = 1 .. m /\ m \in Nat /\ base \in V
  BY DEF NoChains
<1>2. \A v \in V, k \in 1 .. m : step[<<k, v>>] = Chained(v, length, es[k])
  <2> HIDE DEF V, m
  <2> QED
    OBVIOUS
<1>3. step \in [(1 .. m) \X V -> V]
  <2>1. ASSUME NEW p \in (1 .. m) \X V PROVE Chained(p[2], length, es[p[1]]) \in V
    <3>1. p[2] \in V /\ p[1] \in 1 .. m
      <4> HIDE DEF m, V
      <4> QED
        OBVIOUS
    <3>2. es[p[1]] \in Entry
      BY <3>1, ElementOfSeq
    <3> QED
      BY <3>1, <3>2, ChainedIn
  <2> HIDE DEF m, V
  <2> QED
    BY <2>1
<1> HIDE DEF m, V, step, base
<1>4. PICK it \in [SUBSET (1 .. m) -> V] : SolvesFold(it, base, m, step)
  BY <1>1, <1>3, FoldExists, Zenon
<1>5. iter = Body(iter)
  <2>1. it[{}] = base
    BY <1>4 DEF SolvesFold
  <2>2. ASSUME NEW t \in SUBSET (1 .. m), t # {}
        PROVE  it[t] = Chained(it[t \ {Max(t)}], length, es[Max(t)])
    <3>1. Max(t) \in 1 .. m /\ it[t \ {Max(t)}] \in V
      BY <1>1, <2>2, MaxIn
    <3>2. it[t] = step[<<Max(t), it[t \ {Max(t)}]>>]
      BY <1>4, <2>2 DEF SolvesFold
    <3> QED
      BY <1>2, <3>1, <3>2
  <2>3. it = Body(it)
    BY <1>1, <2>1, <2>2
  <2> HIDE DEF Body
  <2> QED
    BY <2>3, Zenon
<1>6. AllChained(length, es) = iter[1 .. m]
  BY <1>1, Zenon DEF AllChained, FoldLeft, MapThenFoldSet, base
<1> HIDE DEF iter
<1>7. FoldsWithin(iter, base, m, V, step)
  <2>1. iter[{}] = base
    BY <1>1, <1>5, Zenon
  <2>2. ASSUME NEW t \in SUBSET (1 .. m), t # {}, iter[t \ {Max(t)}] \in V
        PROVE  iter[t] = step[<<Max(t), iter[t \ {Max(t)}]>>]
    <3>1. iter[t] = Chained(iter[t \ {Max(t)}], length, es[Max(t)])
      BY <1>1, <1>5, <2>2, Zenon
    <3>2. Max(t) \in 1 .. m
      BY <1>1, <2>2, MaxIn
    <3> QED
      BY <1>2, <2>2, <3>1, <3>2
  <2> QED
    BY <2>1, <2>2 DEF FoldsWithin
<1>8. PICK F : UnrollsTo(F, iter, base, m, V, step)
  BY <1>1, <1>3, <1>7, FoldUnrolls, Zenon
<1>9. /\ F \in [0 .. m -> V]
      /\ F[0] = base
      /\ F[m] = iter[1 .. m]
      /\ \A k \in 1 .. m : F[k] = step[<<k, F[k - 1]>>]
  BY <1>8, Zenon DEF UnrollsTo
<1>10. ASSUME NEW k \in 1 .. m PROVE F[k] = Chained(F[k - 1], length, es[k])
  <2>1. F[k - 1] \in V
    BY <1>1, <1>9
  <2> QED
    BY <1>2, <1>9, <2>1
<1>11. ChainSteps(F, length, es)
  BY <1>6, <1>9, <1>10, Zenon DEF ChainSteps, m, V, base
<1> QED
  BY <1>11

(* Chaining entries into empty chains gives chains of those entries.        *)
LEMMA ChainHolds ==
  ASSUME NEW length \in Nat \ {0}, NEW es \in Seq(Entry)
  PROVE  /\ Tidy(AllChained(length, es), length)
         /\ \A x : Holds(AllChained(length, es), length, x) <=> InSeq(es, x)
<1> DEFINE m == Len(es)
           chains == AllChained(length, es)
<1>1. PICK F : ChainSteps(F, length, es)
  BY ChainFold
<1>2. /\ F[0] = NoChains(length) /\ F[m] = chains /\ m \in Nat
      /\ \A k \in 1 .. m : F[k] = Chained(F[k - 1], length, es[k]) /\ es[k] \in Entry
  <2>1. \A k \in 1 .. m : es[k] \in Entry
    BY ElementOfSeq
  <2>2. m \in Nat
    OBVIOUS
  <2> QED
    BY <1>1, <2>1, <2>2, Zenon DEF ChainSteps
<1> HIDE DEF m, chains
<1> DEFINE Early(k, x) == \E j \in 1 .. k : es[j] = x
           Right(k) == /\ Tidy(F[k], length)
                       /\ \A x : Holds(F[k], length, x) <=> Early(k, x)
           K == {k \in 0 .. m : Right(k)}
<1>3. 0 \in K
  <2>1. \A i \in 0 .. length - 1 : NoChains(length)[i] = <<>>
    BY DEF NoChains
  <2>2. NoChains(length) \in [0 .. length - 1 -> Seq(Entry)]
    BY DEF NoChains
  <2>3. \A j : ~ (j \in 1 .. Len(<<>>))
    OBVIOUS
  <2>4. Tidy(NoChains(length), length)
    BY <2>1, <2>2, <2>3, Zenon DEF Tidy
  <2>5. \A x : ~ Holds(NoChains(length), length, x)
    BY <2>1, <2>3, Zenon DEF Holds
  <2>6. \A x : ~ Early(0, x)
    OBVIOUS
  <2>7. 0 \in 0 .. m
    BY <1>2
  <2> QED
    BY <1>2, <2>4, <2>5, <2>6, <2>7, Zenon
<1>4. ASSUME NEW k \in 1 .. m, k - 1 \in K PROVE k \in K
  <2>1. Right(k - 1)
    <3> HIDE DEF Right
    <3> QED
      BY <1>4
  <2>2. /\ Tidy(F[k], length)
        /\ \A x : Holds(F[k], length, x) <=> x = es[k] \/ Holds(F[k - 1], length, x)
    <3>1. F[k] = Chained(F[k - 1], length, es[k]) /\ es[k] \in Entry
      BY <1>2
    <3> DEFINE a == F[k - 1]
               e == es[k]
    <3>2. Tidy(a, length) /\ e \in Entry
      BY <1>2, <2>1
    <3>3. /\ Tidy(Chained(a, length, e), length)
          /\ \A x : Holds(Chained(a, length, e), length, x) <=> x = e \/ Holds(a, length, x)
      <4> HIDE DEF a, e
      <4> QED
        BY <3>2, ChainedAdds
    <3> QED
      BY <3>1, <3>3, Zenon
  <2>3. \A j : j \in 1 .. k <=> j = k \/ j \in 1 .. k - 1
    OBVIOUS
  <2>4. \A x : Early(k, x) <=> x = es[k] \/ Early(k - 1, x)
    BY <2>3, Zenon
  <2>5. Right(k)
    <3> HIDE DEF Early
    <3> QED
      BY <2>1, <2>2, <2>4, Zenon
  <2> HIDE DEF Right
  <2> QED
    BY <2>5
<1>5. \A k \in 0 .. m : k \in K
  <2> HIDE DEF K
  <2> QED
    BY <1>2, <1>3, <1>4, UpTo
<1>6. Right(m)
  <2>1. m \in 0 .. m
    BY <1>2
  <2> HIDE DEF Right
  <2> QED
    BY <1>5, <2>1
<1> QED
  BY <1>2, <1>6, Zenon DEF InSeq, m, chains

(* A table whose chains are tidy, and the entries it lists.                 *)
Table(h) ==
  /\ h = [chains |-> h.chains, prime |-> h.prime, count |-> h.count]
  /\ h.prime \in 1 .. Len(Primes)
  /\ Tidy(h.chains, Primes[h.prime])

Listed(h, x) == Holds(h.chains, Primes[h.prime], x)

LEMMA PrimeIs ==
  ASSUME NEW i \in 1 .. Len(Primes)
  PROVE  Primes[i] \in Nat \ {0}
  BY HashtableAssumption, ElementOfSeq

(* Growing loses no entry, and adds none.                                   *)
LEMMA ExpandKeeps ==
  ASSUME NEW h, Table(h)
  PROVE  /\ Table(Expand(h))
         /\ \A x : Listed(Expand(h), x) <=> Listed(h, x)
<1>1. CASE h.prime = Len(Primes)
  <2>1. Expand(h) = h
    BY <1>1 DEF Expand
  <2> QED
    BY <2>1, Zenon
<1>2. CASE h.prime # Len(Primes)
  <2> DEFINE length  == Primes[h.prime]
             newsize == Primes[h.prime + 1]
             ss      == [i \in 1 .. length |-> h.chains[i - 1]]
             es      == FlattenSeq(ss)
             chains  == AllChained(newsize, es)
  <2>1. /\ h.prime + 1 \in 1 .. Len(Primes)
        /\ length \in Nat \ {0} /\ newsize \in Nat \ {0}
    <3>1. h.prime \in 1 .. Len(Primes) /\ Len(Primes) \in Nat
      BY HashtableAssumption DEF Table
    <3>2. h.prime + 1 \in 1 .. Len(Primes)
      BY <1>2, <3>1
    <3> QED
      BY <3>1, <3>2, PrimeIs
  <2>2. Expand(h) = [h EXCEPT !.prime = @ + 1, !.chains = chains]
    BY <1>2, Zenon DEF Expand, AllChained
  <2>3. /\ Expand(h).prime = h.prime + 1
        /\ Expand(h).chains = chains
        /\ Expand(h) = [chains |-> chains, prime |-> h.prime + 1, count |-> h.count]
    <3> HIDE DEF chains
    <3> QED
      BY <2>2 DEF Table
  <2>4. h.chains \in [0 .. length - 1 -> Seq(Entry)]
    BY DEF Table, Tidy
  <2> HIDE DEF length, newsize
  <2>5. ss \in [1 .. length -> Seq(Entry)]
    BY <2>1, <2>4
  <2>6. \A x : Among(ss, length, x) <=> Holds(h.chains, length, x)
    <3>1. \A i \in 1 .. length : i - 1 \in 0 .. length - 1 /\ ss[i] = h.chains[i - 1]
      BY <2>1
    <3>2. \A i \in 0 .. length - 1 : i + 1 \in 1 .. length /\ ss[i + 1] = h.chains[i]
      BY <2>1
    <3> HIDE DEF ss
    <3>3. ASSUME NEW x, Among(ss, length, x) PROVE Holds(h.chains, length, x)
      <4>1. PICK i \in 1 .. length : InSeq(ss[i], x)
        BY <3>3 DEF Among
      <4>2. InSeq(h.chains[i - 1], x) /\ i - 1 \in 0 .. length - 1
        BY <3>1, <4>1
      <4> QED
        BY <4>2, Zenon DEF Holds, InSeq
    <3>4. ASSUME NEW x, Holds(h.chains, length, x) PROVE Among(ss, length, x)
      <4>1. PICK i \in 0 .. length - 1 : InSeq(h.chains[i], x)
        BY <3>4, Zenon DEF Holds, InSeq
      <4>2. InSeq(ss[i + 1], x) /\ i + 1 \in 1 .. length
        BY <3>2, <4>1
      <4> QED
        BY <4>2, Zenon DEF Among
    <3> QED
      BY <3>3, <3>4, Zenon
  <2> HIDE DEF ss
  <2>7. es \in Seq(Entry) /\ \A x : InSeq(es, x) <=> Among(ss, length, x)
    BY <2>1, <2>5, FlattenHolds, Zenon
  <2> HIDE DEF es
  <2>8. Tidy(chains, newsize) /\ \A x : Holds(chains, newsize, x) <=> InSeq(es, x)
    BY <2>1, <2>7, ChainHolds, Zenon DEF chains
  <2> HIDE DEF chains
  <2>9. Table(Expand(h))
    BY <2>1, <2>3, <2>8, Zenon DEF Table, newsize
  <2> QED
    BY <2>3, <2>6, <2>7, <2>8, <2>9, Zenon DEF Listed, newsize, length
<1> QED
  BY <1>1, <1>2

(* One entry more, whatever else the table holds.                           *)
LEMMA InsertAdds ==
  ASSUME NEW h, Table(h), NEW k \in Key, NEW v \in Nat
  PROVE  /\ Table(Insert(h, k, v))
         /\ \A x : Listed(Insert(h, k, v), x) <=> x = [k |-> k, v |-> v] \/ Listed(h, x)
<1> DEFINE roomy == IF h.count + 1 > LoadLimit(Primes[h.prime]) THEN Expand(h) ELSE h
           e     == [k |-> k, v |-> v]
           new   == Chained(roomy.chains, Primes[roomy.prime], e)
<1>1. Table(roomy) /\ \A x : Listed(roomy, x) <=> Listed(h, x)
  BY ExpandKeeps
<1>2. Insert(h, k, v) = [roomy EXCEPT !.count = @ + 1, !.chains = new]
  BY DEF Insert
<1>3. e \in Entry
  BY DEF Entry
<1> HIDE DEF roomy, e
<1>4. Primes[roomy.prime] \in Nat \ {0} /\ Tidy(roomy.chains, Primes[roomy.prime])
  BY <1>1, PrimeIs DEF Table
<1>5. /\ Tidy(new, Primes[roomy.prime])
      /\ \A x : Holds(new, Primes[roomy.prime], x) <=> x = e \/ Holds(roomy.chains, Primes[roomy.prime], x)
  BY <1>3, <1>4, ChainedAdds, Zenon
<1> HIDE DEF new
<1>6. /\ Insert(h, k, v).chains = new /\ Insert(h, k, v).prime = roomy.prime
      /\ Insert(h, k, v) = [chains |-> new, prime |-> roomy.prime, count |-> roomy.count + 1]
  BY <1>1, <1>2 DEF Table
<1>7. Table(Insert(h, k, v))
  <2>1. [chains |-> new, prime |-> roomy.prime, count |-> roomy.count + 1].count = roomy.count + 1
    OBVIOUS
  <2> QED
    BY <1>1, <1>5, <1>6, <2>1, Zenon DEF Table
<1> QED
  BY <1>1, <1>5, <1>6, <1>7, Zenon DEF Listed, e

(* A look-up finds an entry of the key, if there is one.                    *)
LEMMA SearchFinds ==
  ASSUME NEW h, Table(h), NEW k \in Key
  PROVE  \/ /\ Search(h, k) = NULL
            /\ \A v : ~ Listed(h, [k |-> k, v |-> v])
         \/ /\ Search(h, k) \in Nat
            /\ Listed(h, [k |-> k, v |-> Search(h, k)])
<1> DEFINE length == Primes[h.prime]
           i0     == IndexFor(length, k)
           chain  == h.chains[i0]
           T      == {j \in 1 .. Len(chain) : chain[j].k = k}
           j0     == IF T # {} THEN Min(T) ELSE 0
<1>1. length \in Nat \ {0} /\ Tidy(h.chains, length)
  BY PrimeIs DEF Table
<1>2. Search(h, k) = IF j0 = 0 THEN NULL ELSE chain[j0].v
  BY Zenon DEF Search, SelectInSeq
<1> HIDE DEF length
<1>3. i0 \in 0 .. length - 1
  BY <1>1, IndexIn
<1>4. chain \in Seq(Entry) /\ Len(chain) \in Nat
  BY <1>1, <1>3 DEF Tidy
<1>5. CASE T = {}
  <2>1. Search(h, k) = NULL
    BY <1>2, <1>5
  <2>2. ASSUME NEW v, Listed(h, [k |-> k, v |-> v]) PROVE FALSE
    <3>1. PICK i \in 0 .. length - 1 : \E j \in 1 .. Len(h.chains[i]) : h.chains[i][j] = [k |-> k, v |-> v]
      BY <2>2 DEF Listed, Holds, length
    <3>2. PICK j \in 1 .. Len(h.chains[i]) : h.chains[i][j] = [k |-> k, v |-> v]
      BY <3>1
    <3>3. h.chains[i][j].k = k
      BY <3>2
    <3>4. i = i0
      BY <1>1, <3>3 DEF Tidy
    <3> QED
      BY <1>5, <3>3, <3>4
  <2> QED
    BY <2>1, <2>2
<1>6. CASE T # {}
  <2>1. T \subseteq Nat
    BY <1>4
  <2>2. PICK t \in T : \A y \in T : t <= y
    <3> HIDE DEF T
    <3> QED
      BY <1>6, <2>1, LeastNat
  <2>3. T \in SUBSET Int
    BY <2>1
  <2>4. Min(T) = t
    <3> HIDE DEF T
    <3> QED
      BY <2>2, <2>3, MinIs, Zenon
  <2>5. t \in 1 .. Len(chain) /\ chain[t].k = k /\ t # 0
    OBVIOUS
  <2>6. j0 = t
    BY <1>6, <2>4
  <2>7. Search(h, k) = chain[t].v
    BY <1>2, <2>5, <2>6
  <2>8. chain[t] \in Entry
    BY <1>4, <2>5, ElementOfSeq
  <2>9. chain[t] = [k |-> k, v |-> chain[t].v] /\ chain[t].v \in Nat
    BY <2>5, <2>8 DEF Entry
  <2>10. Listed(h, [k |-> k, v |-> chain[t].v])
    BY <1>3, <2>5, <2>9, Zenon DEF Listed, Holds, length
  <2> QED
    BY <2>7, <2>9, <2>10
<1> QED
  BY <1>5, <1>6

-----------------------------------------------------------------------------
(* The layout: sizes summed up position by position.                        *)
Sizes(m, sch) ==
  /\ sch.ndims \in Nat
  /\ \A p \in 0 .. sch.ndims - 1 : SizeAt(m, sch, p) \in Nat

LEMMA BeforeSteps ==
  ASSUME NEW m, NEW sch, Sizes(m, sch)
  PROVE  /\ Before(m, sch, 0) = 0
         /\ \A q \in 1 .. sch.ndims :
              Before(m, sch, q) = Before(m, sch, q - 1) + SizeAt(m, sch, q - 1)
         /\ \A q \in 0 .. sch.ndims : Before(m, sch, q) \in Nat
<1> DEFINE n == sch.ndims
           size == [p \in 0 .. n - 1 |-> SizeAt(m, sch, p)]
           step == [x \in (1 .. n) \X Nat |-> x[2] + size[x[1] - 1]]
           Body(f) == [q \in 0 .. n |-> IF q = 0 THEN 0 ELSE f[q - 1] + SizeAt(m, sch, q - 1)]
           upto == CHOOSE f : f = Body(f)
<1>1. n \in Nat /\ size \in [0 .. n - 1 -> Nat]
  BY DEF Sizes
<1>2. \A q : Before(m, sch, q) = upto[q]
  BY Zenon DEF Before
<1>3. \A q \in 1 .. n : q - 1 \in 0 .. n - 1 /\ size[q - 1] = SizeAt(m, sch, q - 1) /\ size[q - 1] \in Nat
  BY <1>1
<1> HIDE DEF n, size
<1>4. step \in [(1 .. n) \X Nat -> Nat]
  <2>1. ASSUME NEW x \in (1 .. n) \X Nat PROVE x[2] + size[x[1] - 1] \in Nat
    <3>1. x[1] \in 1 .. n /\ x[2] \in Nat
      OBVIOUS
    <3>2. size[x[1] - 1] \in Nat
      BY <1>3, <3>1
    <3> QED
      BY <3>1, <3>2
  <2> QED
    BY <2>1
<1>5. \A k \in 1 .. n, v \in Nat : step[<<k, v>>] = v + size[k - 1]
  OBVIOUS
<1> HIDE DEF step
<1>6. PICK f \in [0 .. n -> Nat] : SolvesRecursion(f, 0, n, step)
  BY <1>1, <1>4, RecursionExists
<1>7. f = Body(f)
  <2>1. ASSUME NEW q \in 0 .. n
        PROVE  f[q] = IF q = 0 THEN 0 ELSE f[q - 1] + SizeAt(m, sch, q - 1)
    <3>1. f[q] = IF q = 0 THEN 0 ELSE step[<<q, f[q - 1]>>]
      BY <1>6, Zenon DEF SolvesRecursion
    <3>2. CASE q = 0
      BY <3>1, <3>2
    <3>3. CASE q # 0
      <4>1. q \in 1 .. n /\ q - 1 \in 0 .. n
        BY <1>1, <3>3
      <4>2. f[q - 1] \in Nat
        BY <4>1
      <4> QED
        BY <1>3, <1>5, <3>1, <3>3, <4>1, <4>2
    <3> QED
      BY <3>2, <3>3
  <2> QED
    BY <2>1
<1>8. upto = Body(upto)
  <2> HIDE DEF Body
  <2> QED
    BY <1>7, Zenon
<1> HIDE DEF upto
<1>9. \A q \in 0 .. n : upto[q] = IF q = 0 THEN 0 ELSE upto[q - 1] + SizeAt(m, sch, q - 1)
  BY <1>8
<1>10. upto[0] = 0
  BY <1>1, <1>9
<1>11. \A q \in 1 .. n : upto[q] = upto[q - 1] + SizeAt(m, sch, q - 1)
  BY <1>1, <1>9
<1> DEFINE K == {q \in 0 .. n : upto[q] \in Nat}
<1>12. \A q \in 0 .. n : q \in K
  <2>1. 0 \in K
    BY <1>1, <1>10
  <2>2. ASSUME NEW q \in 1 .. n, q - 1 \in K PROVE q \in K
    BY <1>3, <1>11, <2>2
  <2> HIDE DEF K
  <2> QED
    BY <1>1, <2>1, <2>2, UpTo
<1> QED
  BY <1>2, <1>10, <1>11, <1>12 DEF n

(* The layout depends on the sizes at the positions alone.                  *)
SameSizes(m, sch, m2, sch2) ==
  /\ sch2.ndims = sch.ndims
  /\ \A p \in 0 .. sch.ndims - 1 : SizeAt(m2, sch2, p) = SizeAt(m, sch, p)

SameLayout(m, sch, m2, sch2) ==
  \A q \in 0 .. sch.ndims : Before(m2, sch2, q) = Before(m, sch, q)

LEMMA BeforeSame ==
  ASSUME NEW m, NEW sch, NEW m2, NEW sch2, Sizes(m, sch), SameSizes(m, sch, m2, sch2)
  PROVE  SameLayout(m, sch, m2, sch2)
<1>1. Sizes(m2, sch2)
  BY DEF Sizes, SameSizes
<1> DEFINE K == {q \in 0 .. sch.ndims : Before(m2, sch2, q) = Before(m, sch, q)}
<1>2. 0 \in K
  BY <1>1, BeforeSteps DEF Sizes, SameSizes
<1>3. ASSUME NEW q \in 1 .. sch.ndims, q - 1 \in K PROVE q \in K
  <2>1. q - 1 \in 0 .. sch.ndims - 1 /\ q \in 0 .. sch.ndims
    BY DEF Sizes
  <2>2. Before(m, sch, q) = Before(m, sch, q - 1) + SizeAt(m, sch, q - 1)
    BY BeforeSteps
  <2>3. Before(m2, sch2, q) = Before(m2, sch2, q - 1) + SizeAt(m2, sch2, q - 1)
    BY <1>1, BeforeSteps DEF SameSizes
  <2> QED
    BY <1>3, <2>1, <2>2, <2>3 DEF SameSizes
<1>4. \A q \in 0 .. sch.ndims : q \in K
  <2> HIDE DEF K
  <2> QED
    BY <1>2, <1>3, UpTo DEF Sizes
<1> QED
  BY <1>4 DEF SameLayout

(* A later position starts behind an earlier one.                           *)
LEMMA BeforeGrows ==
  ASSUME NEW m, NEW sch, Sizes(m, sch), NEW p \in 0 .. sch.ndims - 1
  PROVE  \A q \in p + 1 .. sch.ndims :
           Before(m, sch, q) >= Before(m, sch, p) + SizeAt(m, sch, p)
<1> DEFINE n == sch.ndims
           low == Before(m, sch, p) + SizeAt(m, sch, p)
           K == {k \in 0 .. n : k > p => Before(m, sch, k) >= low}
<1>1. /\ n \in Nat /\ p \in Nat /\ low \in Nat
      /\ \A k \in 0 .. n : Before(m, sch, k) \in Nat
      /\ \A k \in 1 .. n : /\ Before(m, sch, k) = Before(m, sch, k - 1) + SizeAt(m, sch, k - 1)
                           /\ SizeAt(m, sch, k - 1) \in Nat
  <2>1. n \in Nat /\ p \in Nat /\ SizeAt(m, sch, p) \in Nat /\ p \in 0 .. n
    BY DEF Sizes
  <2>2. /\ \A k \in 0 .. n : Before(m, sch, k) \in Nat
        /\ \A k \in 1 .. n : Before(m, sch, k) = Before(m, sch, k - 1) + SizeAt(m, sch, k - 1)
    BY BeforeSteps
  <2>3. \A k \in 1 .. n : SizeAt(m, sch, k - 1) \in Nat
    <3>1. \A k \in 1 .. n : k - 1 \in 0 .. n - 1
      BY <2>1
    <3> QED
      BY <3>1 DEF Sizes
  <2> QED
    BY <2>1, <2>2, <2>3
<1>2. 0 \in K
  BY <1>1
<1>3. ASSUME NEW k \in 1 .. n, k - 1 \in K PROVE k \in K
  <2>1. CASE k - 1 > p
    <3>1. Before(m, sch, k - 1) >= low
      BY <1>3, <2>1
    <3>2. Before(m, sch, k) >= low
      <4>1. k - 1 \in 0 .. n
        BY <1>1
      <4>2. Before(m, sch, k - 1) \in Nat
        BY <1>1, <4>1
      <4> HIDE DEF low
      <4> QED
        BY <1>1, <3>1, <4>2
    <3> QED
      BY <1>1, <3>2
  <2>2. CASE k - 1 = p
    <3>1. Before(m, sch, k) = low
      BY <1>1, <2>2
    <3> HIDE DEF low
    <3> QED
      BY <1>1, <3>1
  <2>3. CASE k - 1 < p
    BY <1>1, <2>3
  <2> QED
    BY <1>1, <2>1, <2>2, <2>3
<1>4. \A k \in 0 .. n : k \in K
  <2> HIDE DEF K
  <2> QED
    BY <1>1, <1>2, <1>3, UpTo
<1>5. ASSUME NEW q \in p + 1 .. n PROVE Before(m, sch, q) >= low
  <2>1. q \in 0 .. n /\ q > p
    BY <1>1
  <2>2. q \in K
    BY <1>4, <2>1
  <2> HIDE DEF low
  <2> QED
    BY <2>1, <2>2
<1> QED
  BY <1>5

-----------------------------------------------------------------------------
(* A schema sch whose dimensions lie in m: typed, each dimension at the     *)
(* position it states, the named ones and no others in the table, and laid  *)
(* out.                                                                     *)
Dimension ==
  [name : Key \cup {NULL}, position : 0 .. MaxDims - 1,
   interpretation : Interpretation, byteoffset : 0 .. Word - 1]

Shaped(m, sch) ==
  /\ IsSchema(sch)
  /\ sch.ndims \in 0 .. MaxDims
  /\ sch.dims \in [0 .. sch.ndims - 1 -> (1 .. Len(m)) \cup {NULL}]
  /\ sch.at \in [Coordinate -> (1 .. Len(m)) \cup {NULL}]
  /\ sch.compression \in Compression

Placed(m, sch) == \A p \in Filled(sch) : m[sch.dims[p]].position = p

Named(m, sch, x) ==
  \E p \in Filled(sch) : /\ m[sch.dims[p]].name # NULL
                         /\ x = [k |-> m[sch.dims[p]].name, v |-> sch.dims[p]]

Tabled(m, sch) ==
  /\ Table(sch.namehash)
  /\ \A x : Listed(sch.namehash, x) <=> Named(m, sch, x)

LaidOut(m, sch) ==
  /\ \A p \in Filled(sch) : m[sch.dims[p]].byteoffset = Before(m, sch, p) % Word
  /\ sch.size = Before(m, sch, sch.ndims)

Sound(m, sch) == Shaped(m, sch) /\ Placed(m, sch) /\ Tabled(m, sch) /\ LaidOut(m, sch)

LEMMA FilledIn ==
  ASSUME NEW m \in Seq(Dimension), NEW sch, Shaped(m, sch), NEW p \in Filled(sch)
  PROVE  /\ p \in 0 .. sch.ndims - 1 /\ p \in Nat
         /\ sch.dims[p] \in 1 .. Len(m) /\ sch.dims[p] \in Nat
         /\ m[sch.dims[p]] \in Dimension
         /\ SizeAt(m, sch, p) = Bytes[m[sch.dims[p]].interpretation]
         /\ SizeAt(m, sch, p) \in Nat \ {0}
<1>1. p \in 0 .. sch.ndims - 1 /\ sch.dims[p] # NULL
  BY DEF Filled, Shaped
<1>2. sch.dims[p] \in 1 .. Len(m)
  BY <1>1 DEF Shaped
<1>3. m[sch.dims[p]] \in Dimension
  BY <1>2, ElementOfSeq
<1>4. SizeAt(m, sch, p) = Bytes[m[sch.dims[p]].interpretation]
  BY DEF SizeAt
<1>5. m[sch.dims[p]].interpretation \in Interpretation
  BY <1>3 DEF Dimension
<1>6. SizeAt(m, sch, p) \in Nat \ {0}
  BY <1>4, <1>5, SchemaDocAssumption
<1>7. Len(m) \in Nat
  OBVIOUS
<1> QED
  BY <1>1, <1>2, <1>3, <1>4, <1>6, <1>7

LEMMA ShapedSizes ==
  ASSUME NEW m \in Seq(Dimension), NEW sch, Shaped(m, sch)
  PROVE  /\ Sizes(m, sch)
         /\ \A p \in 0 .. sch.ndims - 1 : p \in Filled(sch) <=> SizeAt(m, sch, p) # 0
<1>1. ASSUME NEW p \in 0 .. sch.ndims - 1
      PROVE  SizeAt(m, sch, p) \in Nat /\ (p \in Filled(sch) <=> SizeAt(m, sch, p) # 0)
  <2>1. CASE p \in Filled(sch)
    BY <2>1, FilledIn
  <2>2. CASE p \notin Filled(sch)
    BY <2>2 DEF SizeAt
  <2> QED
    BY <2>1, <2>2
<1>2. sch.ndims \in Nat
  BY SchemaDocAssumption DEF Shaped
<1> QED
  BY <1>1, <1>2 DEF Sizes

(* A byte of a point lies in the dimension that starts last before it.      *)
LEMMA ByteFound ==
  ASSUME NEW m, NEW sch, Sizes(m, sch), NEW b \in Nat, b < Before(m, sch, sch.ndims)
  PROVE  \E p \in 0 .. sch.ndims - 1 :
           Before(m, sch, p) <= b /\ b < Before(m, sch, p) + SizeAt(m, sch, p)
<1> DEFINE T == {q \in 0 .. sch.ndims : b < Before(m, sch, q)}
<1>0. sch.ndims \in Nat
  BY DEF Sizes
<1>1. T \subseteq Nat /\ T # {}
  BY <1>0
<1>2. PICK q \in T : \A r \in T : q <= r
  <2> HIDE DEF T
  <2> QED
    BY <1>1, LeastNat
<1>3. q \in 0 .. sch.ndims /\ b < Before(m, sch, q)
  OBVIOUS
<1>4. q # 0
  <2>1. Before(m, sch, 0) = 0
    BY BeforeSteps
  <2> QED
    BY <1>3, <2>1
<1>5. /\ q \in 1 .. sch.ndims /\ q - 1 \in 0 .. sch.ndims /\ q - 1 \in 0 .. sch.ndims - 1
      /\ ~ (q <= q - 1)
  BY <1>0, <1>3, <1>4
<1>6. q - 1 \notin T
  <2> HIDE DEF T
  <2> QED
    BY <1>2, <1>5
<1>7. ~ (b < Before(m, sch, q - 1)) /\ Before(m, sch, q - 1) \in Nat
  BY <1>5, <1>6, BeforeSteps
<1>8. Before(m, sch, q) = Before(m, sch, q - 1) + SizeAt(m, sch, q - 1)
  BY <1>5, BeforeSteps
<1> HIDE DEF T
<1>9. Before(m, sch, q - 1) <= b
  BY <1>7
<1> QED
  BY <1>3, <1>5, <1>8, <1>9

LEMMA SpanSmall ==
  ASSUME NEW m \in Seq(Dimension), NEW sch, Shaped(m, sch),
         \A p \in Filled(sch) : m[sch.dims[p]].interpretation # Unknown
  PROVE  \A q \in 0 .. sch.ndims : Before(m, sch, q) < Word
<1>1. PICK w \in 1 .. Word : /\ \A i \in Interpretation \ {Unknown} : Bytes[i] <= w
                             /\ MaxDims * w < Word
  BY SchemaDocAssumption
<1> DEFINE n == sch.ndims
           K == {q \in 0 .. n : Before(m, sch, q) <= q * w}
<1>2. w \in Nat /\ n \in Nat /\ MaxDims \in Nat /\ n <= MaxDims /\ Word \in Nat
  BY SchemaDocAssumption DEF Shaped
<1>3. \A p \in 0 .. n - 1 : SizeAt(m, sch, p) \in Nat /\ SizeAt(m, sch, p) <= w
  <2>1. SUFFICES ASSUME NEW p \in 0 .. n - 1
                 PROVE  SizeAt(m, sch, p) \in Nat /\ SizeAt(m, sch, p) <= w
    OBVIOUS
  <2>2. CASE p \in Filled(sch)
    <3>1. /\ m[sch.dims[p]] \in Dimension
          /\ SizeAt(m, sch, p) = Bytes[m[sch.dims[p]].interpretation]
          /\ SizeAt(m, sch, p) \in Nat \ {0}
      BY <2>2, FilledIn
    <3>2. m[sch.dims[p]].interpretation \in Interpretation \ {Unknown}
      BY <2>2, <3>1 DEF Dimension
    <3> QED
      BY <1>1, <3>1, <3>2
  <2>3. CASE p \notin Filled(sch)
    BY <1>2, <2>3 DEF SizeAt
  <2> QED
    BY <2>2, <2>3
<1>4. Sizes(m, sch)
  BY ShapedSizes
<1>5. /\ Before(m, sch, 0) = 0
      /\ \A q \in 1 .. n : Before(m, sch, q) = Before(m, sch, q - 1) + SizeAt(m, sch, q - 1)
      /\ \A q \in 0 .. n : Before(m, sch, q) \in Nat
  BY <1>4, BeforeSteps
<1>6. 0 \in K
  BY <1>2, <1>5
<1>7. ASSUME NEW q \in 1 .. n, q - 1 \in K PROVE q \in K
  <2>1. q - 1 \in 0 .. n - 1 /\ q - 1 \in 0 .. n /\ q \in Nat
    BY <1>2
  <2>2. Before(m, sch, q - 1) <= (q - 1) * w /\ Before(m, sch, q - 1) \in Nat
    BY <1>5, <1>7, <2>1
  <2>3. SizeAt(m, sch, q - 1) <= w /\ SizeAt(m, sch, q - 1) \in Nat
    BY <1>3, <2>1
  <2>4. (q - 1) * w + w = q * w /\ (q - 1) * w \in Int /\ q * w \in Int
    BY <1>2, <2>1
  <2>5. Before(m, sch, q) <= q * w
    BY <1>2, <1>5, <2>2, <2>3, <2>4
  <2> QED
    BY <2>5
<1>8. \A q \in 0 .. n : q \in K
  <2> HIDE DEF K
  <2> QED
    BY <1>2, <1>6, <1>7, UpTo
<1>9. ASSUME NEW q \in 0 .. n PROVE Before(m, sch, q) < Word
  <2>1. Before(m, sch, q) <= q * w /\ Before(m, sch, q) \in Nat
    BY <1>5, <1>8
  <2>2. q * w <= MaxDims * w
    <3>1. MaxDims - q \in Nat /\ (MaxDims - q) * w >= 0
      BY <1>2
    <3>2. (MaxDims - q) * w = MaxDims * w - q * w /\ MaxDims * w \in Int /\ q * w \in Int
      BY <1>2
    <3> QED
      BY <3>1, <3>2
  <2>3. q * w \in Int /\ MaxDims * w \in Int
    BY <1>2
  <2> QED
    BY <1>1, <1>2, <2>1, <2>2, <2>3
<1> QED
  BY <1>9

Tiles(m, sch) ==
  /\ \A p, q \in Filled(sch) :
       p < q => m[sch.dims[p]].byteoffset < m[sch.dims[q]].byteoffset
  /\ \A b \in 0 .. sch.size - 1 :
       Cardinality({p \in Filled(sch) :
         b - m[sch.dims[p]].byteoffset \in 0 .. Bytes[m[sch.dims[p]].interpretation] - 1}) = 1

LEMMA SoundTiles ==
  ASSUME NEW m \in Seq(Dimension), NEW sch, Shaped(m, sch), LaidOut(m, sch),
         \A p \in Filled(sch) : m[sch.dims[p]].interpretation # Unknown
  PROVE  Tiles(m, sch)
<1> DEFINE off(p)  == m[sch.dims[p]].byteoffset
           size(p) == Bytes[m[sch.dims[p]].interpretation]
<1>1. Sizes(m, sch) /\ sch.ndims \in Nat /\ Word \in Nat
  BY ShapedSizes, SchemaDocAssumption DEF Sizes
<1>2. \A q \in 0 .. sch.ndims : Before(m, sch, q) \in Nat /\ Before(m, sch, q) < Word
  BY <1>1, BeforeSteps, SpanSmall
<1>3. ASSUME NEW p \in Filled(sch)
      PROVE  /\ p \in 0 .. sch.ndims - 1 /\ p \in 0 .. sch.ndims /\ p \in Nat
             /\ off(p) = Before(m, sch, p) /\ off(p) \in Nat
             /\ size(p) = SizeAt(m, sch, p) /\ size(p) \in Nat \ {0}
  <2>1. /\ p \in 0 .. sch.ndims - 1 /\ p \in Nat
        /\ size(p) = SizeAt(m, sch, p) /\ size(p) \in Nat \ {0}
    BY FilledIn
  <2>2. p \in 0 .. sch.ndims
    BY <1>1, <2>1
  <2>3. Before(m, sch, p) \in Nat /\ Before(m, sch, p) < Word
    BY <1>2, <2>2
  <2>4. off(p) = Before(m, sch, p) % Word
    BY DEF LaidOut
  <2>5. off(p) = Before(m, sch, p)
    BY <1>1, <2>3, <2>4
  <2> QED
    BY <2>1, <2>2, <2>3, <2>5
<1>4. \A p, q \in Filled(sch) : p < q => off(q) >= off(p) + size(p)
  <2>1. SUFFICES ASSUME NEW p \in Filled(sch), NEW q \in Filled(sch), p < q
                 PROVE  off(q) >= off(p) + size(p)
    BY Zenon
  <2>2. /\ p \in 0 .. sch.ndims - 1 /\ p \in Nat /\ q \in 0 .. sch.ndims /\ q \in Nat
        /\ off(p) = Before(m, sch, p) /\ off(q) = Before(m, sch, q) /\ size(p) = SizeAt(m, sch, p)
    BY <1>3
  <2>3. q \in p + 1 .. sch.ndims
    BY <1>1, <2>1, <2>2
  <2>4. Before(m, sch, q) >= Before(m, sch, p) + SizeAt(m, sch, p)
    BY <1>1, <2>2, <2>3, BeforeGrows
  <2> HIDE DEF off, size
  <2> QED
    BY <2>2, <2>4
<1>5. ASSUME NEW b \in 0 .. sch.size - 1
      PROVE  Cardinality({p \in Filled(sch) : b - off(p) \in 0 .. size(p) - 1}) = 1
  <2>1. b \in Nat /\ b < Before(m, sch, sch.ndims)
    <3>1. sch.size = Before(m, sch, sch.ndims) /\ sch.ndims \in 0 .. sch.ndims
      BY <1>1 DEF LaidOut
    <3>2. Before(m, sch, sch.ndims) \in Nat
      BY <1>2, <3>1
    <3> QED
      BY <3>1, <3>2
  <2>2. PICK p \in 0 .. sch.ndims - 1 :
          Before(m, sch, p) <= b /\ b < Before(m, sch, p) + SizeAt(m, sch, p)
    BY <1>1, <2>1, ByteFound
  <2>3. p \in 0 .. sch.ndims /\ Before(m, sch, p) \in Nat /\ SizeAt(m, sch, p) \in Nat
    BY <1>1, <1>2 DEF Sizes
  <2>4. SizeAt(m, sch, p) # 0
    BY <2>1, <2>2, <2>3
  <2>5. p \in Filled(sch)
    BY <2>4, ShapedSizes
  <2>6. off(p) <= b /\ b < off(p) + size(p) /\ off(p) \in Nat /\ size(p) \in Nat
    BY <1>3, <2>2, <2>5
  <2> HIDE DEF off, size
  <2>7. b - off(p) \in 0 .. size(p) - 1
    BY <2>1, <2>6
  <2>8. ASSUME NEW q \in Filled(sch), b - off(q) \in 0 .. size(q) - 1 PROVE q = p
    <3>1. /\ off(q) \in Nat /\ size(q) \in Nat \ {0} /\ off(p) \in Nat /\ size(p) \in Nat \ {0}
          /\ p \in Nat /\ q \in Nat
      BY <1>3, <2>5
    <3>2. off(q) <= b /\ b < off(q) + size(q)
      BY <2>1, <2>8, <3>1
    <3>3. ~ (p < q)
      <4>1. p < q => off(q) >= off(p) + size(p)
        BY <1>4, <2>5
      <4> QED
        BY <2>1, <2>6, <3>1, <3>2, <4>1
    <3>4. ~ (q < p)
      <4>1. q < p => off(p) >= off(q) + size(q)
        BY <1>4, <2>5
      <4> QED
        BY <2>1, <2>6, <3>1, <3>2, <4>1
    <3> QED
      BY <3>1, <3>3, <3>4
  <2>9. {r \in Filled(sch) : b - off(r) \in 0 .. size(r) - 1} = {p}
    BY <2>5, <2>7, <2>8, Zenon
  <2> QED
    BY <2>9, FS_Singleton, Zenon
<1>6. \A p, q \in Filled(sch) : p < q => off(p) < off(q)
  <2>1. SUFFICES ASSUME NEW p \in Filled(sch), NEW q \in Filled(sch), p < q
                 PROVE  off(p) < off(q)
    BY Zenon
  <2>2. off(q) >= off(p) + size(p) /\ off(q) \in Nat /\ off(p) \in Nat /\ size(p) \in Nat \ {0}
    BY <1>3, <1>4, <2>1
  <2> HIDE DEF off, size
  <2> QED
    BY <2>2
<1> QED
  BY <1>5, <1>6, Zenon DEF Tiles

(* What a look-up by name answers.                                          *)
LEMMA SoundFinds ==
  ASSUME NEW m \in Seq(Dimension), NEW sch, Sound(m, sch), NEW k \in Key
  PROVE  \/ /\ Search(sch.namehash, k) = NULL
            /\ \A p \in Filled(sch) : m[sch.dims[p]].name # k
         \/ \E p \in Filled(sch) : /\ Search(sch.namehash, k) = sch.dims[p]
                                   /\ m[sch.dims[p]].name = k
<1> DEFINE h == sch.namehash
           v == Search(h, k)
<1>1. Table(h) /\ \A x : Listed(h, x) <=> Named(m, sch, x)
  BY DEF Sound, Tabled
<1>2. k # NULL
  BY SchemaDocAssumption
<1> HIDE DEF h
<1>3. CASE v = NULL /\ \A w : ~ Listed(h, [k |-> k, v |-> w])
  <2>1. ASSUME NEW p \in Filled(sch), m[sch.dims[p]].name = k PROVE FALSE
    <3>1. Named(m, sch, [k |-> k, v |-> sch.dims[p]])
      BY <1>2, <2>1, Zenon DEF Named
    <3> QED
      BY <1>1, <1>3, <3>1, Zenon
  <2> QED
    BY <1>3, <2>1, Zenon DEF h
<1>4. CASE v \in Nat /\ Listed(h, [k |-> k, v |-> v])
  <2> HIDE DEF v
  <2>1. Named(m, sch, [k |-> k, v |-> v])
    BY <1>1, <1>4, Zenon
  <2>2. PICK p \in Filled(sch) :
          /\ m[sch.dims[p]].name # NULL
          /\ [k |-> k, v |-> v] = [k |-> m[sch.dims[p]].name, v |-> sch.dims[p]]
    BY <2>1, Zenon DEF Named
  <2>3. k = m[sch.dims[p]].name /\ v = sch.dims[p]
    BY <2>2
  <2> QED
    BY <2>3 DEF v, h
<1> QED
  BY <1>1, <1>3, <1>4, SearchFinds, Zenon

-----------------------------------------------------------------------------
(* What a document says of a dimension, which the layout leaves alone.      *)
Stated(d, e) == d.name = e.name /\ d.position = e.position /\ d.interpretation = e.interpretation

(* The dimensions of sch are stated alike in m and in m2.                   *)
Alike(m, m2, sch) ==
  \A p \in Filled(sch) : sch.dims[p] \in 1 .. Len(m2) /\ Stated(m2[sch.dims[p]], m[sch.dims[p]])

LEMMA AlikeSizes ==
  ASSUME NEW m, NEW m2, NEW sch, Alike(m, m2, sch)
  PROVE  SameSizes(m, sch, m2, sch)
<1>1. ASSUME NEW p \in 0 .. sch.ndims - 1 PROVE SizeAt(m2, sch, p) = SizeAt(m, sch, p)
  BY DEF Alike, Stated, SizeAt
<1> QED
  BY <1>1, Zenon DEF SameSizes

LEMMA AlikeBefore ==
  ASSUME NEW m \in Seq(Dimension), NEW m2, NEW sch, Shaped(m, sch), Alike(m, m2, sch)
  PROVE  SameLayout(m, sch, m2, sch)
<1>1. Sizes(m, sch)
  BY ShapedSizes
<1>2. SameSizes(m, sch, m2, sch)
  BY AlikeSizes, Zenon
<1> QED
  BY <1>1, <1>2, BeforeSame, Zenon

LEMMA AlikeNamed ==
  ASSUME NEW m, NEW m2, NEW sch, Alike(m, m2, sch)
  PROVE  \A x : Named(m2, sch, x) <=> Named(m, sch, x)
BY DEF Alike, Stated, Named

(* The layout of sch written into the dimensions of m.                      *)
LEMMA WithOffsetsIs ==
  ASSUME NEW m \in Seq(Dimension), NEW sch, Shaped(m, sch), Placed(m, sch)
  PROVE  /\ WithOffsets(m, sch) \in Seq(Dimension)
         /\ Len(WithOffsets(m, sch)) = Len(m)
         /\ \A d \in 1 .. Len(m) : Stated(WithOffsets(m, sch)[d], m[d])
         /\ \A d \in 1 .. Len(m) :
              (\A p \in Filled(sch) : sch.dims[p] # d) => WithOffsets(m, sch)[d] = m[d]
         /\ \A p \in Filled(sch) :
              sch.dims[p] \in 1 .. Len(m) =>
                WithOffsets(m, sch)[sch.dims[p]].byteoffset = Before(m, sch, p) % Word
<1> DEFINE w == WithOffsets(m, sch)
<1>0. DOMAIN m = 1 .. Len(m) /\ Len(m) \in Nat
  OBVIOUS
<1>1. w = [d \in 1 .. Len(m) |-> w[d]]
  BY <1>0, Zenon DEF WithOffsets
<1>2. ASSUME NEW d \in 1 .. Len(m)
      PROVE  /\ w[d] \in Dimension
             /\ Stated(w[d], m[d])
             /\ (\A p \in Filled(sch) : sch.dims[p] # d) => w[d] = m[d]
             /\ \A p \in Filled(sch) : sch.dims[p] = d => w[d].byteoffset = Before(m, sch, p) % Word
  <2>1. m[d] \in Dimension
    BY ElementOfSeq
  <2>2. CASE \E p \in Filled(sch) : sch.dims[p] = d
    <3> DEFINE b == Before(m, sch, m[d].position) % Word
    <3>1. w[d] = [m[d] EXCEPT !.byteoffset = b]
      BY <1>0, <2>2, Zenon DEF WithOffsets
    <3>2. b \in 0 .. Word - 1
      <4>1. PICK p \in Filled(sch) : sch.dims[p] = d
        BY <2>2
      <4>2. m[d].position = p
        BY <4>1 DEF Placed
      <4>3. p \in 0 .. sch.ndims - 1 /\ p \in 0 .. sch.ndims
        BY FilledIn, SchemaDocAssumption DEF Shaped
      <4>4. Before(m, sch, p) \in Nat /\ Word \in Nat \ {0}
        BY <4>3, ShapedSizes, BeforeSteps, SchemaDocAssumption
      <4>5. Before(m, sch, p) % Word \in 0 .. Word - 1
        BY <4>4
      <4> QED
        BY <4>2, <4>5
    <3>3. \A p \in Filled(sch) : sch.dims[p] = d => b = Before(m, sch, p) % Word
      BY Zenon DEF Placed
    <3> HIDE DEF b
    <3>4. w[d] \in Dimension /\ Stated(w[d], m[d]) /\ w[d].byteoffset = b
      BY <2>1, <3>1, <3>2 DEF Dimension, Stated
    <3> QED
      BY <2>2, <3>3, <3>4, Zenon
  <2>3. CASE ~ \E p \in Filled(sch) : sch.dims[p] = d
    <3>1. w[d] = m[d]
      BY <1>0, <2>3, Zenon DEF WithOffsets
    <3> QED
      BY <2>1, <2>3, <3>1, Zenon DEF Stated
  <2> QED
    BY <2>2, <2>3, Zenon
<1> HIDE DEF w
<1>3. w \in Seq(Dimension) /\ Len(w) = Len(m)
  BY <1>0, <1>1, <1>2
<1> QED
  BY <1>2, <1>3, Zenon DEF w

(* Two schemas that differ at most in size, coordinates and compression.    *)
SameDims(sch, sch2) ==
  /\ sch2.ndims = sch.ndims /\ sch2.dims = sch.dims /\ sch2.namehash = sch.namehash

LEMMA SameDimsKeep ==
  ASSUME NEW m \in Seq(Dimension), NEW sch, NEW sch2, SameDims(sch, sch2), Shaped(m, sch)
  PROVE  /\ Filled(sch2) = Filled(sch)
         /\ Placed(m, sch) => Placed(m, sch2)
         /\ Tabled(m, sch) => Tabled(m, sch2)
         /\ SameLayout(m, sch, m, sch2)
<1>1. Filled(sch2) = Filled(sch)
  BY DEF SameDims, Filled
<1>2. Placed(m, sch) => Placed(m, sch2)
  BY <1>1 DEF SameDims, Placed
<1>3. \A x : Named(m, sch2, x) <=> Named(m, sch, x)
  BY <1>1 DEF SameDims, Named
<1>4. Tabled(m, sch) => Tabled(m, sch2)
  BY <1>3, Zenon DEF SameDims, Tabled
<1>5. SameSizes(m, sch, m, sch2)
  <2>1. ASSUME NEW p \in 0 .. sch.ndims - 1 PROVE SizeAt(m, sch2, p) = SizeAt(m, sch, p)
    BY <1>1 DEF SameDims, SizeAt
  <2> QED
    BY <2>1, Zenon DEF SameSizes, SameDims
<1>6. Sizes(m, sch)
  BY ShapedSizes
<1>7. SameLayout(m, sch, m, sch2)
  BY <1>5, <1>6, BeforeSame, Zenon
<1> QED
  BY <1>1, <1>2, <1>4, <1>7, Zenon

(* A schema whose dimensions lie unchanged in another memory.               *)
LEMMA SoundMoves ==
  ASSUME NEW m \in Seq(Dimension), NEW m2 \in Seq(Dimension), NEW sch,
         Sound(m, sch), Shaped(m2, sch),
         \A p \in Filled(sch) : m2[sch.dims[p]] = m[sch.dims[p]]
  PROVE  Sound(m2, sch)
<1>1. Shaped(m, sch) /\ Placed(m, sch) /\ Tabled(m, sch) /\ LaidOut(m, sch)
  BY DEF Sound
<1>2. Alike(m, m2, sch)
  <2>1. ASSUME NEW p \in Filled(sch)
        PROVE  sch.dims[p] \in 1 .. Len(m2) /\ Stated(m2[sch.dims[p]], m[sch.dims[p]])
    BY FilledIn DEF Stated
  <2> QED
    BY <2>1, Zenon DEF Alike
<1>3. Placed(m2, sch)
  BY <1>1 DEF Placed
<1>4. Tabled(m2, sch)
  <2>1. \A x : Named(m2, sch, x) <=> Named(m, sch, x)
    BY <1>2, AlikeNamed, Zenon
  <2> QED
    BY <1>1, <2>1, Zenon DEF Tabled
<1>5. LaidOut(m2, sch)
  <2>1. \A q \in 0 .. sch.ndims : Before(m2, sch, q) = Before(m, sch, q)
    <3>1. SameLayout(m, sch, m2, sch)
      BY <1>1, <1>2, AlikeBefore, Zenon
    <3> QED
      BY <3>1 DEF SameLayout
  <2>2. \A p \in Filled(sch) : p \in 0 .. sch.ndims
    <3>1. sch.ndims \in Nat
      BY <1>1, SchemaDocAssumption DEF Shaped
    <3> QED
      BY <1>1, <3>1, FilledIn
  <2>3. sch.ndims \in 0 .. sch.ndims
    BY <1>1, SchemaDocAssumption DEF Shaped
  <2>4. \A p \in Filled(sch) : m2[sch.dims[p]].byteoffset = Before(m2, sch, p) % Word
    BY <1>1, <2>1, <2>2, Zenon DEF LaidOut
  <2>5. sch.size = Before(m2, sch, sch.ndims)
    BY <1>1, <2>1, <2>3, Zenon DEF LaidOut
  <2> QED
    BY <2>4, <2>5, Zenon DEF LaidOut
<1> QED
  BY <1>3, <1>4, <1>5, Zenon DEF Sound

(* After the layout has been worked out.                                    *)
LEMMA Relaid ==
  ASSUME NEW m \in Seq(Dimension), NEW sch, Shaped(m, sch), Placed(m, sch), Tabled(m, sch),
         NEW sch2, SameDims(sch, sch2), Shaped(m, sch2),
         sch2.size = Before(m, sch, sch.ndims)
  PROVE  Sound(WithOffsets(m, sch), sch2)
<1> DEFINE w == WithOffsets(m, sch)
<1>1. /\ w \in Seq(Dimension) /\ Len(w) = Len(m)
      /\ \A d \in 1 .. Len(m) : Stated(w[d], m[d])
      /\ \A p \in Filled(sch) :
           sch.dims[p] \in 1 .. Len(m) => w[sch.dims[p]].byteoffset = Before(m, sch, p) % Word
  BY WithOffsetsIs
<1>2. /\ Filled(sch2) = Filled(sch) /\ Placed(m, sch2) /\ Tabled(m, sch2)
      /\ SameLayout(m, sch, m, sch2)
  BY SameDimsKeep
<1> HIDE DEF w
<1>3. \A p \in Filled(sch) : sch.dims[p] \in 1 .. Len(m) /\ p \in 0 .. sch.ndims
  <2>1. sch.ndims \in Nat
    BY SchemaDocAssumption DEF Shaped
  <2> QED
    BY <2>1, FilledIn
<1>4. Shaped(w, sch2)
  BY <1>1 DEF Shaped
<1>5. Alike(m, w, sch2)
  BY <1>1, <1>2, <1>3 DEF Alike, SameDims
<1>6. Placed(w, sch2)
  BY <1>2, <1>5 DEF Placed, Alike, Stated
<1>7. Tabled(w, sch2)
  <2>1. \A x : Named(w, sch2, x) <=> Named(m, sch2, x)
    BY <1>5, AlikeNamed, Zenon
  <2> QED
    BY <1>2, <2>1, Zenon DEF Tabled
<1>8. LaidOut(w, sch2)
  <2>1. SameLayout(m, sch2, w, sch2)
    BY <1>5, AlikeBefore, Zenon
  <2>2. sch2.ndims = sch.ndims
    BY DEF SameDims
  <2>3. \A q \in 0 .. sch.ndims : Before(w, sch2, q) = Before(m, sch, q)
    BY <1>2, <2>1, <2>2 DEF SameLayout
  <2>4. sch.ndims \in 0 .. sch.ndims
    BY SchemaDocAssumption DEF Shaped
  <2>5. sch2.size = Before(w, sch2, sch2.ndims)
    BY <2>2, <2>3, <2>4
  <2>6. ASSUME NEW p \in Filled(sch2) PROVE w[sch2.dims[p]].byteoffset = Before(w, sch2, p) % Word
    <3>1. p \in Filled(sch) /\ sch2.dims[p] = sch.dims[p]
      BY <1>2, <2>6 DEF SameDims
    <3>2. Before(w, sch2, p) = Before(m, sch, p)
      BY <1>3, <2>3, <3>1
    <3> QED
      BY <1>1, <1>3, <3>1, <3>2
  <2> QED
    BY <2>5, <2>6, Zenon DEF LaidOut
<1> QED
  BY <1>4, <1>6, <1>7, <1>8, Zenon DEF Sound, w

(* pc_schema_set_dimension on an empty position: the dimension d is added   *)
(* and nothing else of the schema changes but its layout.                   *)
Adds(m, sch, d, m2, sch2) ==
  /\ m2 \in Seq(Dimension) /\ Len(m2) = Len(m) + 1
  /\ Sound(m2, sch2)
  /\ sch2.ndims = sch.ndims /\ sch2.at = sch.at /\ sch2.compression = sch.compression
  /\ sch2.dims = [sch.dims EXCEPT ![d.position] = Len(m) + 1]
  /\ Stated(m2[Len(m) + 1], d)
  /\ \A e \in 1 .. Len(m) : Stated(m2[e], m[e])
  /\ \A e \in 1 .. Len(m) : (\A p \in Filled(sch) : sch.dims[p] # e) => m2[e] = m[e]

LEMMA AppendedIs ==
  ASSUME NEW S, NEW m \in Seq(S), NEW d \in S
  PROVE  /\ Append(m, d) \in Seq(S) /\ Len(Append(m, d)) = Len(m) + 1 /\ Len(m) \in Nat
         /\ Append(m, d)[Len(m) + 1] = d
         /\ \A e \in 1 .. Len(m) : Append(m, d)[e] = m[e]
  OBVIOUS

LEMMA SetDimensionAdds ==
  ASSUME NEW m \in Seq(Dimension), NEW sch, Sound(m, sch), NEW d \in Dimension,
         d.position < sch.ndims, sch.dims[d.position] = NULL,
         NEW a, a = Append(m, d), NEW n, n = Len(m) + 1
  PROVE  Adds(m, sch, d, SetDimension(a, sch, n).mem, SetDimension(a, sch, n).sch)
<1> DEFINE st == Stored(a, sch, n)
           sz == Before(a, st, st.ndims)
           m2 == WithOffsets(a, st)
           sch2 == WithSize(a, st)
           o == d.position
           h == IF a[n].name = NULL THEN sch.namehash ELSE Insert(sch.namehash, a[n].name, n)
<1>1. SetDimension(a, sch, n).mem = m2 /\ SetDimension(a, sch, n).sch = sch2
  BY DEF SetDimension
<1>2. /\ a \in Seq(Dimension) /\ Len(a) = n /\ n \in Nat /\ n # 0
      /\ Len(m) \in Nat /\ a[n] = d /\ \A e \in 1 .. Len(m) : a[e] = m[e] /\ e \in 1 .. n
  BY AppendedIs
<1>3. Shaped(m, sch) /\ Placed(m, sch) /\ Tabled(m, sch)
  BY DEF Sound
<1>4. /\ o \in 0 .. sch.ndims - 1
      /\ NULL \notin Nat /\ NULL \notin Key
  <2>1. sch.ndims \in Nat /\ o \in Nat
    BY <1>3, SchemaDocAssumption DEF Shaped, Dimension
  <2> QED
    BY <2>1, SchemaDocAssumption
<1>5. /\ st.dims = [sch.dims EXCEPT ![o] = n]
      /\ st.namehash = h
      /\ st.ndims = sch.ndims /\ st.size = sch.size
      /\ st.at = sch.at /\ st.compression = sch.compression
      /\ IsSchema(st)
  <2> DEFINE dims == [sch.dims EXCEPT ![o] = n]
             mid  == [sch EXCEPT !.dims = dims]
  <2> HIDE DEF h
  <2>1. st = [sch EXCEPT !.dims = dims, !.namehash = h]
    BY <1>2 DEF Stored, h
  <2> HIDE DEF dims, st
  <2>c. sch = [ndims |-> sch.ndims, dims |-> sch.dims, namehash |-> sch.namehash,
               size |-> sch.size, at |-> sch.at, compression |-> sch.compression]
    BY <1>3 DEF Shaped, IsSchema
  <2>d. mid = [ndims |-> sch.ndims, dims |-> dims, namehash |-> sch.namehash,
               size |-> sch.size, at |-> sch.at, compression |-> sch.compression]
    BY <2>c
  <2>2. /\ mid.dims = dims /\ mid.ndims = sch.ndims /\ mid.size = sch.size /\ mid.at = sch.at
        /\ mid.compression = sch.compression /\ IsSchema(mid)
    <3> HIDE DEF mid
    <3> QED
      BY <2>d DEF IsSchema
  <2>3. st = [mid EXCEPT !.namehash = h]
    BY <2>1
  <2> HIDE DEF mid
  <2>a. mid = [ndims |-> mid.ndims, dims |-> mid.dims, namehash |-> mid.namehash,
               size |-> mid.size, at |-> mid.at, compression |-> mid.compression]
    BY <2>2 DEF IsSchema
  <2>b. st = [ndims |-> mid.ndims, dims |-> mid.dims, namehash |-> h,
              size |-> mid.size, at |-> mid.at, compression |-> mid.compression]
    BY <2>a, <2>3
  <2>4. /\ st.dims = mid.dims /\ st.namehash = h /\ st.ndims = mid.ndims /\ st.size = mid.size
        /\ st.at = mid.at /\ st.compression = mid.compression /\ IsSchema(st)
    BY <2>b DEF IsSchema
  <2> QED
    BY <2>2, <2>4 DEF dims
<1> HIDE DEF st
<1>6. /\ st.dims \in [0 .. sch.ndims - 1 -> (1 .. n) \cup {NULL}]
      /\ st.dims[o] = n
      /\ \A p \in 0 .. sch.ndims - 1 : p # o => st.dims[p] = sch.dims[p]
  <2>1. sch.dims \in [0 .. sch.ndims - 1 -> (1 .. n) \cup {NULL}]
    BY <1>2, <1>3 DEF Shaped
  <2>2. n \in (1 .. n) \cup {NULL}
    BY <1>2
  <2> QED
    BY <1>4, <1>5, <2>1, <2>2
<1>7. Filled(st) = Filled(sch) \cup {o} /\ o \notin Filled(sch)
  <2>1. n # NULL
    BY <1>2, <1>4
  <2>2. DOMAIN st.dims = 0 .. sch.ndims - 1 /\ DOMAIN sch.dims = 0 .. sch.ndims - 1
    BY <1>3, <1>6 DEF Shaped
  <2>3. o \notin Filled(sch)
    BY DEF Filled
  <2>4. ASSUME NEW p PROVE p \in Filled(st) <=> p \in Filled(sch) \/ p = o
    BY <1>4, <1>6, <2>1, <2>2 DEF Filled
  <2> QED
    BY <2>3, <2>4
<1>8. ASSUME NEW p \in Filled(sch)
      PROVE  /\ p # o /\ st.dims[p] = sch.dims[p] /\ sch.dims[p] \in 1 .. Len(m)
             /\ a[st.dims[p]] = m[sch.dims[p]]
  <2>1. p \in 0 .. sch.ndims - 1 /\ sch.dims[p] \in 1 .. Len(m) /\ p # o
    BY <1>3, <1>7, FilledIn
  <2>2. st.dims[p] = sch.dims[p]
    BY <1>6, <2>1
  <2> QED
    BY <1>2, <2>1, <2>2
<1>9. Shaped(a, st)
  <2>1. sch.at \in [Coordinate -> (1 .. n) \cup {NULL}]
    BY <1>2, <1>3 DEF Shaped
  <2>2. sch.ndims \in 0 .. MaxDims /\ sch.compression \in Compression
    BY <1>3 DEF Shaped
  <2> QED
    BY <1>2, <1>5, <1>6, <2>1, <2>2 DEF Shaped
<1>10. Placed(a, st)
  <2>1. ASSUME NEW p \in Filled(st) PROVE a[st.dims[p]].position = p
    <3>1. CASE p = o
      BY <1>2, <1>6, <3>1
    <3>2. CASE p \in Filled(sch)
      BY <1>3, <1>8, <3>2 DEF Placed
    <3> QED
      BY <1>7, <3>1, <3>2
  <2> QED
    BY <2>1 DEF Placed
<1>11. Tabled(a, st)
  <2>1. ASSUME NEW x
        PROVE  Named(a, st, x) <=> \/ d.name # NULL /\ x = [k |-> d.name, v |-> n]
                                   \/ Named(m, sch, x)
    <3>1. ASSUME Named(a, st, x)
          PROVE  (d.name # NULL /\ x = [k |-> d.name, v |-> n]) \/ Named(m, sch, x)
      <4>1. PICK p \in Filled(st) : /\ a[st.dims[p]].name # NULL
                                    /\ x = [k |-> a[st.dims[p]].name, v |-> st.dims[p]]
        BY <3>1, Zenon DEF Named
      <4>2. CASE p = o
        BY <1>2, <1>6, <4>1, <4>2
      <4>3. CASE p \in Filled(sch)
        <5>1. st.dims[p] = sch.dims[p] /\ a[st.dims[p]] = m[sch.dims[p]]
          BY <1>8, <4>3
        <5> QED
          BY <4>1, <4>3, <5>1, Zenon DEF Named
      <4> QED
        BY <1>7, <4>2, <4>3
    <3>2. ASSUME d.name # NULL, x = [k |-> d.name, v |-> n] PROVE Named(a, st, x)
      <4>1. o \in Filled(st) /\ st.dims[o] = n /\ a[st.dims[o]] = d
        BY <1>2, <1>6, <1>7
      <4> QED
        BY <3>2, <4>1, Zenon DEF Named
    <3>3. ASSUME Named(m, sch, x) PROVE Named(a, st, x)
      <4>1. PICK p \in Filled(sch) : /\ m[sch.dims[p]].name # NULL
                                     /\ x = [k |-> m[sch.dims[p]].name, v |-> sch.dims[p]]
        BY <3>3, Zenon DEF Named
      <4>2. p \in Filled(st) /\ st.dims[p] = sch.dims[p] /\ a[st.dims[p]] = m[sch.dims[p]]
        BY <1>7, <1>8
      <4> QED
        BY <4>1, <4>2, Zenon DEF Named
    <3> QED
      BY <3>1, <3>2, <3>3, Zenon
  <2>2. Table(sch.namehash) /\ \A x : Listed(sch.namehash, x) <=> Named(m, sch, x)
    BY <1>3 DEF Tabled
  <2>3. CASE d.name = NULL
    <3>1. st.namehash = sch.namehash
      BY <1>2, <1>5, <2>3
    <3> QED
      BY <2>1, <2>2, <2>3, <3>1, Zenon DEF Tabled
  <2>4. CASE d.name # NULL
    <3>1. d.name \in Key
      BY <2>4 DEF Dimension
    <3>2. st.namehash = Insert(sch.namehash, d.name, n)
      BY <1>2, <1>5, <2>4
    <3> DEFINE g == sch.namehash
               k == d.name
    <3>3. /\ Table(Insert(g, k, n))
          /\ \A x : Listed(Insert(g, k, n), x) <=> x = [k |-> k, v |-> n] \/ Listed(g, x)
      <4>1. Table(g) /\ k \in Key /\ n \in Nat
        BY <1>2, <2>2, <3>1
      <4> HIDE DEF g, k
      <4> QED
        BY <4>1, InsertAdds
    <3> QED
      BY <2>1, <2>2, <2>4, <3>2, <3>3, Zenon DEF Tabled
  <2> QED
    BY <2>3, <2>4
<1>12. /\ sch2.size = sz /\ SameDims(st, sch2) /\ Shaped(a, sch2)
       /\ sch2.at = st.at /\ sch2.compression = st.compression
  <2>1. sch2 = [st EXCEPT !.size = sz]
    BY DEF WithSize
  <2> HIDE DEF sz, sch2
  <2>2. /\ sch2.size = sz /\ sch2.ndims = st.ndims /\ sch2.dims = st.dims
        /\ sch2.namehash = st.namehash /\ sch2.at = st.at /\ sch2.compression = st.compression
        /\ IsSchema(sch2)
    BY <1>5, <2>1 DEF IsSchema
  <2> QED
    BY <1>9, <2>2 DEF Shaped, SameDims
<1>13. Sound(m2, sch2)
  <2> HIDE DEF sch2
  <2> QED
    BY <1>2, <1>9, <1>10, <1>11, <1>12, Relaid, Zenon
<1>14. /\ m2 \in Seq(Dimension) /\ Len(m2) = Len(a)
       /\ \A e \in 1 .. Len(a) : Stated(m2[e], a[e])
       /\ \A e \in 1 .. Len(a) : (\A p \in Filled(st) : st.dims[p] # e) => m2[e] = a[e]
  BY <1>2, <1>9, <1>10, WithOffsetsIs
<1>15. ASSUME NEW e \in 1 .. Len(m), \A p \in Filled(sch) : sch.dims[p] # e
       PROVE  m2[e] = m[e]
  <2>1. e \in 1 .. n /\ a[e] = m[e] /\ e # n
    BY <1>2
  <2>2. \A p \in Filled(st) : st.dims[p] # e
    BY <1>6, <1>7, <1>8, <1>15, <2>1
  <2> HIDE DEF m2
  <2> QED
    BY <1>2, <1>14, <2>1, <2>2
<1>16. n \in 1 .. n
  BY <1>2
<1>17. ASSUME NEW e \in 1 .. Len(m) PROVE Stated(m2[e], m[e])
  BY <1>2, <1>14 DEF Stated
<1>18. Stated(m2[n], d)
  BY <1>2, <1>14, <1>16
<1> HIDE DEF m2, sch2
<1>19. sch2.ndims = sch.ndims /\ sch2.dims = st.dims
  BY <1>5, <1>12 DEF SameDims
<1> QED
  BY <1>1, <1>2, <1>5, <1>12, <1>13, <1>14, <1>15, <1>17, <1>18, <1>19, Zenon DEF Adds

-----------------------------------------------------------------------------
(* A coordinate is a dimension of the schema with a name of its.            *)
Coords(m, sch) ==
  \A c \in Coordinate : sch.at[c] # NULL =>
    \E p \in Filled(sch) : /\ sch.dims[p] = sch.at[c]
                           /\ m[sch.at[c]].name # NULL
                           /\ Axis[m[sch.at[c]].name] = c

(* The dimensions of a clone lie behind those of the schema.                *)
Cloning(m, sch, clone) ==
  /\ Sound(m, clone) /\ clone.ndims = sch.ndims
  /\ Len(m) - sch.ndims \in Nat
  /\ \A p \in 0 .. sch.ndims - 1 : /\ sch.dims[p] \in 1 .. Len(m) - sch.ndims
                                   /\ clone.dims[p] \in Len(m) - sch.ndims + 1 .. Len(m)
                                   /\ m[clone.dims[p]] = m[sch.dims[p]]
  /\ \A c \in Coordinate :
       clone.at[c] = IF sch.at[c] = NULL THEN NULL ELSE clone.dims[m[sch.at[c]].position]

DocInv ==
  /\ mem \in Seq(Dimension)
  /\ phase \in {"dimensions", "metadata", "cleanup", "read"}
  /\ phase # "read" \/ s # NULL => Sound(mem, s) /\ Coords(mem, s)
  /\ phase = "dimensions" => \A c \in Coordinate : s.at[c] = NULL
  /\ phase = "read" /\ s # NULL => SchemaIsValid(s)
  /\ copy # NULL => phase = "read" /\ s # NULL /\ Cloning(mem, s, copy)

LEMMA EmptyTable == Table(CreateHashtable) /\ \A x : ~ Listed(CreateHashtable, x)
<1> DEFINE t == CreateHashtable
           n == Primes[1]
<1>1. 1 \in 1 .. Len(Primes)
  BY HashtableAssumption
<1>2. n \in Nat \ {0}
  BY <1>1, PrimeIs
<1>3. t.chains = NoChains(n) /\ t.prime = 1
      /\ t = [chains |-> t.chains, prime |-> t.prime, count |-> t.count]
  BY DEF CreateHashtable
<1> HIDE DEF t, n
<1>4. /\ NoChains(n) \in [0 .. n - 1 -> Seq(Entry)]
      /\ \A i \in 0 .. n - 1 : NoChains(n)[i] = <<>>
  BY DEF NoChains
<1>5. \A j : ~ (j \in 1 .. Len(<<>>))
  OBVIOUS
<1>6. Tidy(NoChains(n), n)
  BY <1>4, <1>5, Zenon DEF Tidy
<1>7. \A x : ~ Holds(NoChains(n), n, x)
  BY <1>4, <1>5, Zenon DEF Holds
<1> QED
  BY <1>1, <1>3, <1>6, <1>7, Zenon DEF Table, Listed, t, n

(* A schema of n positions, all empty, and no coordinate.                   *)
LEMMA NewSound ==
  ASSUME NEW m \in Seq(Dimension), NEW n \in 0 .. MaxDims
  PROVE  /\ Sound(m, SchemaNew(n))
         /\ SchemaNew(n).ndims = n
         /\ SchemaNew(n).compression = "none"
         /\ \A p \in 0 .. n - 1 : SchemaNew(n).dims[p] = NULL
         /\ \A c \in Coordinate : SchemaNew(n).at[c] = NULL
<1> DEFINE new == SchemaNew(n)
<1>1. /\ IsSchema(new) /\ new.ndims = n /\ new.dims = [p \in 0 .. n - 1 |-> NULL]
      /\ new.namehash = CreateHashtable /\ new.size = 0
      /\ new.at = [c \in Coordinate |-> NULL] /\ new.compression = "none"
  BY DEF SchemaNew, IsSchema
<1> HIDE DEF new
<1>2. Shaped(m, new)
  BY <1>1 DEF Shaped, Compression
<1>3. Filled(new) = {}
  BY <1>1 DEF Filled
<1>4. \A x : ~ Named(m, new, x)
  BY <1>3 DEF Named
<1>5. Tabled(m, new)
  BY <1>1, <1>4, EmptyTable, Zenon DEF Tabled
<1>6. Placed(m, new)
  BY <1>3 DEF Placed
<1>7. Before(m, new, n) = 0
  <2>1. Sizes(m, new) /\ n \in Nat
    BY <1>1, <1>2, ShapedSizes DEF Sizes
  <2>2. \A p : SizeAt(m, new, p) = 0
    BY <1>3 DEF SizeAt
  <2> DEFINE K == {q \in 0 .. n : Before(m, new, q) = 0}
  <2>3. 0 \in K
    BY <2>1, BeforeSteps
  <2>4. ASSUME NEW q \in 1 .. n, q - 1 \in K PROVE q \in K
    <3>1. Before(m, new, q) = Before(m, new, q - 1) + SizeAt(m, new, q - 1)
      BY <1>1, <2>1, BeforeSteps
    <3> QED
      BY <2>2, <2>4, <3>1
  <2>5. \A q \in 0 .. n : q \in K
    <3> HIDE DEF K
    <3> QED
      BY <2>1, <2>3, <2>4, UpTo
  <2> QED
    BY <2>1, <2>5
<1>8. LaidOut(m, new)
  BY <1>1, <1>3, <1>7 DEF LaidOut
<1> QED
  BY <1>1, <1>2, <1>5, <1>6, <1>8 DEF Sound, new

LEMMA InitDoc == Init => DocInv
<1> SUFFICES ASSUME Init PROVE DocInv
  OBVIOUS
<1>1. mem = <<>> /\ copy = NULL /\ phase = "dimensions"
  BY DEF Init
<1>2. PICK n \in 0 .. MaxDims : s = SchemaNew(n)
  BY DEF Init
<1>3. mem \in Seq(Dimension)
  BY <1>1
<1>4. Sound(mem, s) /\ \A c \in Coordinate : s.at[c] = NULL
  BY <1>2, <1>3, NewSound
<1>5. Coords(mem, s)
  BY <1>4 DEF Coords
<1> QED
  BY <1>1, <1>3, <1>4, <1>5 DEF DocInv

(* Another scheme of compression.                                           *)
LEMMA Recompressed ==
  ASSUME NEW m \in Seq(Dimension), NEW sch, Sound(m, sch), NEW value \in Compression,
         NEW sch2, sch2 = [sch EXCEPT !.compression = value]
  PROVE  /\ Sound(m, sch2) /\ SameDims(sch, sch2) /\ sch2.at = sch.at
         /\ Filled(sch2) = Filled(sch)
<1>1. Shaped(m, sch) /\ Placed(m, sch) /\ Tabled(m, sch) /\ LaidOut(m, sch)
  BY DEF Sound
<1>2. sch = [ndims |-> sch.ndims, dims |-> sch.dims, namehash |-> sch.namehash,
             size |-> sch.size, at |-> sch.at, compression |-> sch.compression]
  BY <1>1 DEF Shaped, IsSchema
<1>3. sch2 = [ndims |-> sch.ndims, dims |-> sch.dims, namehash |-> sch.namehash,
              size |-> sch.size, at |-> sch.at, compression |-> value]
  BY <1>2
<1>4. /\ IsSchema(sch2) /\ SameDims(sch, sch2) /\ sch2.at = sch.at /\ sch2.size = sch.size
      /\ sch2.compression = value
  BY <1>3 DEF IsSchema, SameDims
<1>5. Shaped(m, sch2)
  BY <1>1, <1>4 DEF Shaped, SameDims
<1>6. /\ Filled(sch2) = Filled(sch) /\ Placed(m, sch2) /\ Tabled(m, sch2)
      /\ SameLayout(m, sch, m, sch2)
  BY <1>1, <1>4, SameDimsKeep
<1>7. LaidOut(m, sch2)
  <2>1. sch.ndims \in 0 .. sch.ndims /\ \A p \in Filled(sch) : p \in 0 .. sch.ndims
    <3>1. sch.ndims \in Nat
      BY <1>1, SchemaDocAssumption DEF Shaped
    <3> QED
      BY <1>1, <3>1, FilledIn
  <2>2. \A q \in 0 .. sch.ndims : Before(m, sch2, q) = Before(m, sch, q)
    BY <1>6 DEF SameLayout
  <2>3. sch2.dims = sch.dims /\ sch2.ndims = sch.ndims
    BY <1>4 DEF SameDims
  <2> QED
    BY <1>1, <1>4, <1>6, <2>1, <2>2, <2>3, Zenon DEF LaidOut
<1> QED
  BY <1>4, <1>5, <1>6, <1>7 DEF Sound

(* The greatest of some positions.                                          *)
LEMMA GreatestPosition ==
  ASSUME NEW n \in Nat, NEW T \in SUBSET (0 .. n - 1), T # {}
  PROVE  Max(T) \in T
<1> DEFINE R == {n - x : x \in T}
<1>1. R \subseteq Nat /\ R # {}
  OBVIOUS
<1>2. PICK y \in R : \A z \in R : y <= z
  <2> HIDE DEF R
  <2> QED
    BY <1>1, LeastNat
<1>3. PICK x \in T : y = n - x
  OBVIOUS
<1>4. T \in SUBSET Int /\ \A z \in T : z <= x
  <2>1. ASSUME NEW z \in T PROVE z <= x
    <3>1. n - z \in R
      OBVIOUS
    <3>2. y <= n - z
      BY <1>2, <3>1
    <3>3. x \in Int /\ z \in Int /\ n \in Int
      OBVIOUS
    <3> HIDE DEF R
    <3> QED
      BY <1>3, <3>2, <3>3
  <2> QED
    BY <2>1
<1> HIDE DEF R
<1>5. Max(T) = x
  BY <1>4, MaxIs, Zenon
<1> QED
  BY <1>5

LEMMA StoreSound ==
  ASSUME DocInv, NEW d \in Element, StoreDimension(d)
  PROVE  DocInv'
<1> DEFINE n == Len(mem) + 1
           a == Append(mem, d)
           set == SetDimension(a, s, n)
<1>1. /\ phase = "dimensions" /\ phase' = phase /\ copy' = copy
      /\ d.position < s.ndims /\ s.dims[d.position] = NULL
      /\ mem' = set.mem /\ s' = set.sch
  BY DEF StoreDimension, Reading
<1>2. /\ mem \in Seq(Dimension) /\ Sound(mem, s)
      /\ copy = NULL /\ \A c \in Coordinate : s.at[c] = NULL
  BY <1>1 DEF DocInv
<1>3. d \in Dimension
  <2>1. s.ndims \in 0 .. MaxDims
    BY <1>2 DEF Sound, Shaped
  <2>2. d.position \in Nat
    BY SchemaDocAssumption DEF Element
  <2>3. d.position \in 0 .. MaxDims - 1
    BY <1>1, <2>1, <2>2, SchemaDocAssumption
  <2> QED
    BY <2>3, SchemaDocAssumption DEF Element, Dimension
<1>4. Adds(mem, s, d, mem', s')
  <2> HIDE DEF set
  <2>1. Adds(mem, s, d, SetDimension(a, s, n).mem, SetDimension(a, s, n).sch)
    BY <1>1, <1>2, <1>3, SetDimensionAdds
  <2> QED
    BY <1>1, <2>1, Zenon DEF set
<1>5. mem' \in Seq(Dimension) /\ Sound(mem', s') /\ s'.at = s.at
  BY <1>4 DEF Adds
<1>6. Coords(mem', s') /\ \A c \in Coordinate : s'.at[c] = NULL
  BY <1>2, <1>5 DEF Coords
<1> QED
  BY <1>1, <1>2, <1>5, <1>6 DEF DocInv

(* The second layout and the coordinates, of a schema without a hole.       *)
LEMMA CompleteSound ==
  ASSUME DocInv, FoundWhereStated, CompleteDimensions
  PROVE  DocInv'
<1> DEFINE n == s.ndims
           sz == WithSize(mem, s)
           Bearing(c) == {p \in DOMAIN sz.dims : /\ mem[sz.dims[p]].name # NULL
                                                 /\ Axis[mem[sz.dims[p]].name] = c}
           A == [c \in Coordinate |-> IF Bearing(c) = {} THEN sz.at[c] ELSE sz.dims[Max(Bearing(c))]]
           z == Before(mem, s, n)
           new == s'
<1>1. /\ phase = "dimensions" /\ phase' = "metadata" /\ copy' = copy /\ Len(mem) = s.ndims
      /\ mem' = WithOffsets(mem, s)
      /\ s' = CheckXyzm(mem, sz)
  BY DEF CompleteDimensions
<1>2. /\ mem \in Seq(Dimension) /\ Sound(mem, s)
      /\ copy = NULL /\ \A c \in Coordinate : s.at[c] = NULL
  BY <1>1 DEF DocInv
<1>3. Shaped(mem, s) /\ Placed(mem, s) /\ Tabled(mem, s) /\ n \in Nat
  BY <1>2, SchemaDocAssumption DEF Sound, Shaped
<1>4. Filled(s) = 0 .. n - 1
  <2>1. Filled(s) = DOMAIN s.dims
    BY <1>1, FoundFills DEF NoHole
  <2> QED
    BY <1>3, <2>1 DEF Shaped
<1>5. s = [ndims |-> n, dims |-> s.dims, namehash |-> s.namehash,
           size |-> s.size, at |-> s.at, compression |-> s.compression]
  BY <1>3 DEF Shaped, IsSchema
<1>6. sz = [ndims |-> n, dims |-> s.dims, namehash |-> s.namehash,
            size |-> z, at |-> s.at, compression |-> s.compression]
  <2>1. sz = [s EXCEPT !.size = z]
    BY DEF WithSize
  <2> HIDE DEF z, sz, n
  <2> QED
    BY <1>5, <2>1
<1>7. sz.dims = s.dims /\ sz.at = s.at
  <2> HIDE DEF sz
  <2> QED
    BY <1>6
<1>8. new = [ndims |-> n, dims |-> s.dims, namehash |-> s.namehash,
             size |-> z, at |-> A, compression |-> s.compression]
  <2>1. new = [sz EXCEPT !.at = A]
    BY <1>1, Zenon DEF CheckXyzm
  <2> HIDE DEF A, sz, z, n
  <2> QED
    BY <1>6, <2>1
<1> HIDE DEF new
<1>9. /\ IsSchema(new) /\ SameDims(s, new) /\ new.at = A /\ new.size = z
      /\ new.compression = s.compression
  <2> HIDE DEF A, z, n
  <2> QED
    BY <1>8 DEF IsSchema, SameDims, n
<1>10. ASSUME NEW c \in Coordinate
       PROVE  \/ A[c] = NULL
              \/ \E p \in 0 .. n - 1 : /\ s.dims[p] = A[c]
                                       /\ mem[A[c]].name # NULL /\ Axis[mem[A[c]].name] = c
  <2>1. CASE Bearing(c) = {}
    BY <1>2, <1>7, <2>1
  <2>2. CASE Bearing(c) # {}
    <3>1. Bearing(c) \in SUBSET (0 .. n - 1)
      BY <1>3, <1>7 DEF Shaped
    <3> DEFINE p == Max(Bearing(c))
    <3>2. p \in Bearing(c)
      <4> HIDE DEF Bearing
      <4> QED
        BY <1>3, <2>2, <3>1, GreatestPosition, Zenon
    <3>3. A[c] = s.dims[p]
      BY <1>7, <2>2
    <3>4. p \in 0 .. n - 1 /\ mem[s.dims[p]].name # NULL /\ Axis[mem[s.dims[p]].name] = c
      <4> HIDE DEF p
      <4> QED
        BY <1>7, <3>1, <3>2
    <3> HIDE DEF A, p
    <3> QED
      BY <3>3, <3>4, Zenon
  <2> QED
    BY <2>1, <2>2
<1>11. Shaped(mem, new)
  <2>1. ASSUME NEW c \in Coordinate PROVE A[c] \in (1 .. Len(mem)) \cup {NULL}
    <3>1. \A p \in 0 .. n - 1 : s.dims[p] \in (1 .. Len(mem)) \cup {NULL}
      BY <1>3 DEF Shaped
    <3> HIDE DEF A, n
    <3> QED
      BY <1>10, <3>1
  <2>2. A = [c \in Coordinate |-> A[c]]
    OBVIOUS
  <2> HIDE DEF A
  <2>3. A \in [Coordinate -> (1 .. Len(mem)) \cup {NULL}]
    BY <2>1, <2>2
  <2> QED
    BY <1>3, <1>9, <2>3 DEF Shaped, SameDims
<1> HIDE DEF A
<1>12. Sound(mem', new)
  <2>1. new.size = Before(mem, s, s.ndims)
    BY <1>9 DEF z
  <2>2. Sound(WithOffsets(mem, s), new)
    BY <1>2, <1>3, <1>9, <1>11, <2>1, Relaid, Zenon
  <2> QED
    BY <1>1, <2>2, Zenon
<1>13. /\ mem' \in Seq(Dimension)
       /\ \A d \in 1 .. Len(mem) : Stated(mem'[d], mem[d])
  BY <1>1, <1>2, <1>3, WithOffsetsIs
<1>14. Coords(mem', new)
  <2>1. SUFFICES ASSUME NEW c \in Coordinate, new.at[c] # NULL
                 PROVE  \E p \in Filled(new) : /\ new.dims[p] = new.at[c]
                                               /\ mem'[new.at[c]].name # NULL
                                               /\ Axis[mem'[new.at[c]].name] = c
    BY Zenon DEF Coords
  <2>2. PICK p \in 0 .. n - 1 : /\ s.dims[p] = A[c]
                                /\ mem[A[c]].name # NULL /\ Axis[mem[A[c]].name] = c
    BY <1>9, <1>10, <2>1
  <2>3. Filled(new) = Filled(s) /\ new.dims = s.dims
    BY <1>2, <1>3, <1>9, SameDimsKeep DEF SameDims
  <2>4. A[c] \in 1 .. Len(mem)
    BY <1>2, <1>3, <1>4, <2>2, FilledIn
  <2>5. mem'[A[c]].name = mem[A[c]].name
    BY <1>13, <2>4 DEF Stated
  <2> QED
    BY <1>4, <1>9, <2>2, <2>3, <2>5
<1> QED
  BY <1>1, <1>2, <1>12, <1>13, <1>14 DEF DocInv, new

LEMMA ReadSound ==
  ASSUME DocInv, NEW value, ReadMetadata(value)
  PROVE  DocInv'
<1> DEFINE v == IF value \in Compression THEN value ELSE "none"
<1>1. /\ phase = "metadata" /\ s' = [s EXCEPT !.compression = v]
      /\ mem' = mem /\ copy' = copy /\ phase' = phase
  BY DEF ReadMetadata
<1>2. v \in Compression
  BY DEF Compression
<1>3. mem \in Seq(Dimension) /\ Sound(mem, s) /\ Coords(mem, s) /\ copy = NULL
  BY <1>1 DEF DocInv
<1> HIDE DEF v
<1>4. Sound(mem, s') /\ SameDims(s, s') /\ s'.at = s.at /\ Filled(s') = Filled(s)
  BY <1>1, <1>2, <1>3, Recompressed
<1>5. Coords(mem, s')
  BY <1>3, <1>4 DEF Coords, SameDims
<1> QED
  BY <1>1, <1>3, <1>4, <1>5 DEF DocInv

LEMMA OverrideSound ==
  ASSUME DocInv, NEW value \in Compression, Override(value)
  PROVE  DocInv'
<1>1. /\ copy # NULL /\ copy' = [copy EXCEPT !.compression = value]
      /\ mem' = mem /\ s' = s /\ phase' = phase
  BY DEF Override
<1>2. mem \in Seq(Dimension) /\ phase = "read" /\ s # NULL /\ Cloning(mem, s, copy)
  BY <1>1 DEF DocInv
<1>3. Sound(mem, copy') /\ SameDims(copy, copy') /\ copy'.at = copy.at
  BY <1>1, <1>2, Recompressed DEF Cloning
<1>4. Cloning(mem, s, copy')
  BY <1>2, <1>3 DEF Cloning, SameDims
<1> QED
  BY <1>1, <1>2, <1>4 DEF DocInv

(* A schema that is returned is complete.                                   *)
LEMMA ReturnedIs ==
  ASSUME DocInv, phase = "read", s # NULL
  PROVE  /\ mem \in Seq(Dimension) /\ Sound(mem, s) /\ Coords(mem, s) /\ Shaped(mem, s)
         /\ s.ndims \in Nat \ {0} /\ Filled(s) = 0 .. s.ndims - 1
         /\ s.at["x"] # NULL /\ s.at["y"] # NULL
<1>1. mem \in Seq(Dimension) /\ Sound(mem, s) /\ Coords(mem, s) /\ SchemaIsValid(s)
  BY DEF DocInv
<1>2. Shaped(mem, s) /\ s.ndims \in Nat
  BY <1>1, SchemaDocAssumption DEF Sound, Shaped
<1> QED
  BY <1>1, <1>2 DEF SchemaIsValid, Shaped

(* Freeing the clone leaves the memory of the schema.                       *)
LEMMA FreeSound ==
  ASSUME DocInv, SchemaFree
  PROVE  DocInv'
<1> DEFINE b == Len(mem) - s.ndims
<1>1. /\ copy # NULL /\ copy' = NULL /\ s' = s /\ phase' = phase
      /\ mem' = SubSeq(mem, 1, Len(mem) - Cardinality(Filled(copy)))
  BY DEF SchemaFree
<1>2. phase = "read" /\ s # NULL /\ Cloning(mem, s, copy)
  BY <1>1 DEF DocInv
<1>3. /\ mem \in Seq(Dimension) /\ Sound(mem, s) /\ Coords(mem, s) /\ Shaped(mem, s)
      /\ s.ndims \in Nat \ {0} /\ Filled(s) = 0 .. s.ndims - 1
  BY <1>2, ReturnedIs
<1>4. /\ b \in Nat /\ Len(mem) \in Nat /\ b <= Len(mem)
      /\ \A p \in 0 .. s.ndims - 1 : s.dims[p] \in 1 .. b /\ copy.dims[p] \in b + 1 .. Len(mem)
  BY <1>2, <1>3 DEF Cloning
<1>5. Filled(copy) = 0 .. s.ndims - 1
  <2>1. DOMAIN copy.dims = 0 .. s.ndims - 1
    BY <1>2 DEF Cloning, Sound, Shaped
  <2>2. \A p \in 0 .. s.ndims - 1 : copy.dims[p] # NULL
    <3>1. \A p \in 0 .. s.ndims - 1 : copy.dims[p] \in Nat
      BY <1>4
    <3> QED
      BY <3>1, SchemaDocAssumption
  <2> QED
    BY <2>1, <2>2 DEF Filled
<1>6. Cardinality(Filled(copy)) = s.ndims
  <2> DEFINE top == s.ndims - 1
  <2>1. 0 \in Int /\ top \in Int /\ top >= 0 /\ top - 0 + 1 = s.ndims
    BY <1>3
  <2> HIDE DEF top
  <2>2. Cardinality(0 .. top) = IF 0 > top THEN 0 ELSE top - 0 + 1
    BY <2>1, FS_Interval, Zenon
  <2>3. Cardinality(0 .. top) = s.ndims
    BY <2>1, <2>2
  <2> QED
    BY <1>5, <2>3 DEF top
<1>7. mem' = SubSeq(mem, 1, b)
  BY <1>1, <1>6
<1> HIDE DEF b
<1>8. /\ mem' \in Seq(Dimension) /\ Len(mem') = b
      /\ \A e \in 1 .. b : mem'[e] = mem[e]
  BY <1>3, <1>4, <1>7
<1>9. \A p \in Filled(s) : mem'[s.dims[p]] = mem[s.dims[p]]
  BY <1>3, <1>4, <1>8
<1>10. Shaped(mem', s)
  <2>1. ASSUME NEW c \in Coordinate PROVE s.at[c] \in (1 .. b) \cup {NULL}
    BY <1>3, <1>4 DEF Coords
  <2>2. s.at \in [Coordinate -> (1 .. b) \cup {NULL}]
    <3>1. s.at = [c \in Coordinate |-> s.at[c]]
      BY <1>3 DEF Shaped
    <3> QED
      BY <2>1, <3>1
  <2>3. s.dims \in [0 .. s.ndims - 1 -> (1 .. b) \cup {NULL}]
    <3>1. s.dims = [p \in 0 .. s.ndims - 1 |-> s.dims[p]]
      BY <1>3 DEF Shaped
    <3> QED
      BY <1>4, <3>1
  <2> QED
    BY <1>3, <1>8, <2>2, <2>3 DEF Shaped
<1>11. Sound(mem', s)
  BY <1>3, <1>8, <1>9, <1>10, SoundMoves
<1>12. Coords(mem', s)
  <2>1. SUFFICES ASSUME NEW c \in Coordinate, s.at[c] # NULL
                 PROVE  \E p \in Filled(s) : /\ s.dims[p] = s.at[c]
                                             /\ mem'[s.at[c]].name # NULL
                                             /\ Axis[mem'[s.at[c]].name] = c
    BY Zenon DEF Coords
  <2>2. PICK p \in Filled(s) : /\ s.dims[p] = s.at[c]
                               /\ mem[s.at[c]].name # NULL
                               /\ Axis[mem[s.at[c]].name] = c
    BY <1>3, <2>1, Zenon DEF Coords
  <2>3. mem'[s.at[c]] = mem[s.at[c]]
    BY <1>9, <2>2, Zenon
  <2> QED
    BY <2>2, <2>3, Zenon
<1>13. SchemaIsValid(s)
  BY <1>2 DEF DocInv
<1> QED
  BY <1>1, <1>2, <1>8, <1>11, <1>12, <1>13 DEF DocInv

-----------------------------------------------------------------------------
(* The loop of pc_schema_clone, position by position.                       *)
CloneSteps(F, m, sch) ==
  /\ F[0] = [mem |-> m, sch |-> SchemaNew(sch.ndims)]
  /\ \A k \in 1 .. sch.ndims : F[k] = WithCopy(m, sch, F[k - 1], k - 1)
  /\ Cloned(m, sch) = F[sch.ndims]

LEMMA CloneUnrolls ==
  ASSUME NEW m, NEW sch, sch.ndims \in Nat
  PROVE  \E F : CloneSteps(F, m, sch)
<1> DEFINE n == sch.ndims
           base == [mem |-> m, sch |-> SchemaNew(n)]
           Next1(f, p) == IF p = 0 THEN base ELSE WithCopy(m, sch, f[p - 1], p - 1)
           Body(f) == [p \in 0 .. n |-> Next1(f, p)]
           upto == CHOOSE f : f = Body(f)
           Has(k) == \E f : \A p \in 0 .. k : f[p] = Next1(f, p)
           K == {k \in 0 .. n : Has(k)}
<1>1. Cloned(m, sch) = upto[n]
  BY Zenon DEF Cloned
<1> HIDE DEF n, base
<1>2. n \in Nat
  BY DEF n
<1>3. 0 \in K
  <2> DEFINE f == [p \in 0 .. 0 |-> base]
  <2>1. \A p \in 0 .. 0 : f[p] = Next1(f, p)
    OBVIOUS
  <2>2. Has(0)
    <3> HIDE DEF f, Next1
    <3> QED
      BY <2>1
  <2> HIDE DEF Has
  <2> QED
    BY <1>2, <2>2
<1>4. ASSUME NEW k \in 1 .. n, k - 1 \in K PROVE k \in K
  <2>1. Has(k - 1)
    <3> HIDE DEF Has
    <3> QED
      BY <1>4
  <2>2. PICK f : \A p \in 0 .. k - 1 : f[p] = Next1(f, p)
    <3> HIDE DEF Next1
    <3> QED
      BY <2>1
  <2> DEFINE new == WithCopy(m, sch, f[k - 1], k - 1)
             g == [p \in 0 .. k |-> IF p = k THEN new ELSE f[p]]
  <2>3. ASSUME NEW p \in 0 .. k PROVE g[p] = Next1(g, p)
    <3>1. CASE p = k
      <4>1. k - 1 \in 0 .. k /\ k - 1 # k /\ p # 0
        BY <1>2, <3>1
      <4>2. g[k - 1] = f[k - 1] /\ g[p] = new
        <5> HIDE DEF new
        <5> QED
          BY <3>1, <4>1
      <4> HIDE DEF g
      <4> QED
        BY <3>1, <4>1, <4>2
    <3>2. CASE p # k
      <4>1. p \in 0 .. k - 1
        BY <3>2
      <4>2. g[p] = f[p] /\ (p # 0 => g[p - 1] = f[p - 1])
        <5> HIDE DEF new
        <5> QED
          BY <3>2
      <4> HIDE DEF g
      <4>3. f[p] = Next1(f, p)
        BY <2>2, <4>1, Zenon
      <4> QED
        BY <4>2, <4>3
    <3> QED
      BY <3>1, <3>2
  <2>4. Has(k)
    <3> HIDE DEF g, Next1
    <3> QED
      BY <2>3
  <2> HIDE DEF Has
  <2> QED
    BY <2>4
<1>5. \A k \in 0 .. n : k \in K
  <2> HIDE DEF K
  <2> QED
    BY <1>2, <1>3, <1>4, UpTo
<1>6. Has(n)
  <2>1. n \in 0 .. n
    BY <1>2
  <2> HIDE DEF Has
  <2> QED
    BY <1>5, <2>1
<1>7. PICK f : \A p \in 0 .. n : f[p] = Next1(f, p)
  <2> HIDE DEF Next1
  <2> QED
    BY <1>6
<1> DEFINE F == [p \in 0 .. n |-> f[p]]
<1>8. F = Body(F)
  <2>1. ASSUME NEW p \in 0 .. n PROVE F[p] = Next1(F, p)
    <3>1. F[p] = f[p] /\ (p # 0 => F[p - 1] = f[p - 1])
      BY <1>2
    <3>2. f[p] = Next1(f, p)
      BY <1>7, Zenon
    <3> HIDE DEF F
    <3> QED
      BY <3>1, <3>2
  <2>2. F = [p \in 0 .. n |-> F[p]]
    OBVIOUS
  <2> HIDE DEF F, Next1
  <2> QED
    BY <2>1, <2>2
<1>9. upto = Body(upto)
  <2> HIDE DEF Body, F
  <2> QED
    BY <1>8, Zenon
<1> HIDE DEF upto
<1>10. \A p \in 0 .. n : upto[p] = Next1(upto, p)
  <2> HIDE DEF Next1
  <2> QED
    BY <1>9
<1>11. CloneSteps(upto, m, sch)
  <2>1. upto[0] = base
    BY <1>2, <1>10
  <2>2. \A k \in 1 .. n : upto[k] = WithCopy(m, sch, upto[k - 1], k - 1)
    BY <1>2, <1>10
  <2> QED
    BY <1>1, <2>1, <2>2, Zenon DEF CloneSteps, n, base
<1> QED
  BY <1>11

(* After k positions of a schema without a hole have been copied.           *)
Copied(m, sch, done, k) ==
  /\ done.mem \in Seq(Dimension) /\ Len(done.mem) = Len(m) + k
  /\ \A e \in 1 .. Len(m) : done.mem[e] = m[e]
  /\ Sound(done.mem, done.sch)
  /\ done.sch.ndims = sch.ndims /\ done.sch.compression = "none"
  /\ \A c \in Coordinate : done.sch.at[c] = NULL
  /\ \A p \in 0 .. sch.ndims - 1 : done.sch.dims[p] = IF p < k THEN Len(m) + p + 1 ELSE NULL
  /\ \A p \in 0 .. k - 1 : Stated(done.mem[Len(m) + p + 1], m[sch.dims[p]])

LEMMA CopyOne ==
  ASSUME NEW m \in Seq(Dimension), NEW sch, Shaped(m, sch), Placed(m, sch),
         Filled(sch) = 0 .. sch.ndims - 1,
         NEW k \in 1 .. sch.ndims, NEW done, Copied(m, sch, done, k - 1)
  PROVE  Copied(m, sch, WithCopy(m, sch, done, k - 1), k)
<1> DEFINE i == k - 1
           L == Len(m)
           d == m[sch.dims[i]]
           a == Append(done.mem, d)
           n == Len(done.mem) + 1
           new == WithCopy(m, sch, done, i)
<1>1. /\ sch.ndims \in Nat /\ L \in Nat /\ k \in Nat /\ i \in 0 .. sch.ndims - 1 /\ i \in Nat
      /\ i \in Filled(sch)
  BY SchemaDocAssumption DEF Shaped
<1>2. d \in Dimension /\ sch.dims[i] # NULL /\ d.position = i
  BY <1>1, FilledIn DEF Placed, Filled
<1>3. new = SetDimension(a, done.sch, n)
  BY <1>2 DEF WithCopy
<1> HIDE DEF new, d
<1>4. /\ done.mem \in Seq(Dimension) /\ Len(done.mem) = L + i
      /\ \A e \in 1 .. L : done.mem[e] = m[e]
      /\ Sound(done.mem, done.sch)
      /\ done.sch.ndims = sch.ndims /\ done.sch.compression = "none"
      /\ \A c \in Coordinate : done.sch.at[c] = NULL
      /\ \A p \in 0 .. sch.ndims - 1 : done.sch.dims[p] = IF p < i THEN L + p + 1 ELSE NULL
      /\ \A p \in 0 .. i - 1 : Stated(done.mem[L + p + 1], m[sch.dims[p]])
  BY DEF Copied
<1>5. d.position < done.sch.ndims /\ done.sch.dims[d.position] = NULL
  <2>1. i < sch.ndims /\ ~ (i < i)
    BY <1>1
  <2>2. done.sch.dims[i] = NULL
    <3> HIDE DEF i, L
    <3> QED
      BY <1>1, <1>4, <2>1
  <2> HIDE DEF i
  <2> QED
    BY <1>2, <1>4, <2>1, <2>2, Zenon
<1>6. Adds(done.mem, done.sch, d, new.mem, new.sch)
  <2>1. a = Append(done.mem, d) /\ n = Len(done.mem) + 1
    OBVIOUS
  <2> HIDE DEF a, n
  <2>2. Adds(done.mem, done.sch, d, SetDimension(a, done.sch, n).mem, SetDimension(a, done.sch, n).sch)
    BY <1>2, <1>4, <1>5, <2>1, SetDimensionAdds
  <2> QED
    BY <1>3, <2>2, Zenon
<1> HIDE DEF a
<1>7. /\ new.mem \in Seq(Dimension) /\ Len(new.mem) = L + k
      /\ Sound(new.mem, new.sch)
      /\ new.sch.ndims = sch.ndims /\ new.sch.at = done.sch.at /\ new.sch.compression = "none"
      /\ new.sch.dims = [done.sch.dims EXCEPT ![i] = L + k]
      /\ Stated(new.mem[L + k], d)
      /\ \A e \in 1 .. L + i : Stated(new.mem[e], done.mem[e])
      /\ \A e \in 1 .. L + i :
           (\A p \in Filled(done.sch) : done.sch.dims[p] # e) => new.mem[e] = done.mem[e]
  <2>1. L + i + 1 = L + k
    BY <1>1
  <2> QED
    BY <1>2, <1>4, <1>6, <2>1 DEF Adds
<1>8. DOMAIN done.sch.dims = 0 .. sch.ndims - 1
  BY <1>4 DEF Sound, Shaped
<1>9. ASSUME NEW e \in 1 .. L PROVE new.mem[e] = m[e]
  <2>1. \A p \in Filled(done.sch) : done.sch.dims[p] # e
    BY <1>1, <1>4, <1>8 DEF Filled
  <2>2. e \in 1 .. L + i
    BY <1>1
  <2> QED
    BY <1>4, <1>7, <2>1, <2>2
<1>10. ASSUME NEW p \in 0 .. sch.ndims - 1
       PROVE  new.sch.dims[p] = IF p < k THEN L + p + 1 ELSE NULL
  <2>1. CASE p = i
    BY <1>1, <1>7, <1>8, <2>1
  <2>2. CASE p # i
    <3>1. new.sch.dims[p] = done.sch.dims[p]
      BY <1>7, <1>8, <2>2
    <3>2. p < k <=> p < i
      BY <1>1, <2>2
    <3> QED
      BY <1>4, <3>1, <3>2
  <2> QED
    BY <2>1, <2>2
<1>11. ASSUME NEW p \in 0 .. k - 1 PROVE Stated(new.mem[L + p + 1], m[sch.dims[p]])
  <2>1. CASE p = i
    <3>1. L + p + 1 = L + k
      BY <1>1, <2>1
    <3> QED
      BY <1>7, <2>1, <3>1 DEF d
  <2>2. CASE p # i
    <3>1. p \in 0 .. i - 1 /\ L + p + 1 \in 1 .. L + i
      BY <1>1, <2>2
    <3>2. Stated(new.mem[L + p + 1], done.mem[L + p + 1])
      BY <1>7, <3>1
    <3>3. Stated(done.mem[L + p + 1], m[sch.dims[p]])
      BY <1>4, <3>1
    <3> QED
      BY <3>2, <3>3, Zenon DEF Stated
  <2> QED
    BY <2>1, <2>2
<1>12. \A c \in Coordinate : new.sch.at[c] = NULL
  BY <1>4, <1>7
<1>13. Copied(m, sch, new, k)
  <2> HIDE DEF i, L
  <2> QED
    BY <1>7, <1>9, <1>10, <1>11, <1>12, Zenon DEF Copied, L
<1> QED
  BY <1>13 DEF new

LEMMA ClonedIs ==
  ASSUME NEW m \in Seq(Dimension), NEW sch, Shaped(m, sch), Placed(m, sch),
         Filled(sch) = 0 .. sch.ndims - 1
  PROVE  Copied(m, sch, Cloned(m, sch), sch.ndims)
<1>1. sch.ndims \in 0 .. MaxDims /\ sch.ndims \in Nat
  BY SchemaDocAssumption DEF Shaped
<1>2. PICK F : CloneSteps(F, m, sch)
  BY <1>1, CloneUnrolls
<1>3. /\ F[0] = [mem |-> m, sch |-> SchemaNew(sch.ndims)]
      /\ \A k \in 1 .. sch.ndims : F[k] = WithCopy(m, sch, F[k - 1], k - 1)
      /\ Cloned(m, sch) = F[sch.ndims]
  BY <1>2 DEF CloneSteps
<1> DEFINE K == {k \in 0 .. sch.ndims : Copied(m, sch, F[k], k)}
<1>4. 0 \in K
  <2> DEFINE new == SchemaNew(sch.ndims)
  <2>1. /\ Sound(m, new) /\ new.ndims = sch.ndims /\ new.compression = "none"
        /\ \A p \in 0 .. sch.ndims - 1 : new.dims[p] = NULL
        /\ \A c \in Coordinate : new.at[c] = NULL
    BY <1>1, NewSound
  <2> HIDE DEF new
  <2>2. F[0].mem = m /\ F[0].sch = new
    BY <1>3 DEF new
  <2>3. \A p \in 0 .. sch.ndims - 1 : ~ (p < 0)
    OBVIOUS
  <2>4. \A p : ~ (p \in 0 .. 0 - 1)
    OBVIOUS
  <2>5. Len(m) = Len(m) + 0
    OBVIOUS
  <2>6. Copied(m, sch, F[0], 0)
    BY <2>1, <2>2, <2>3, <2>4, <2>5, Zenon DEF Copied
  <2> QED
    BY <1>1, <2>6
<1>5. ASSUME NEW k \in 1 .. sch.ndims, k - 1 \in K PROVE k \in K
  <2> DEFINE f == F[k - 1]
  <2>1. Copied(m, sch, f, k - 1)
    BY <1>5
  <2>2. Copied(m, sch, WithCopy(m, sch, f, k - 1), k)
    <3> HIDE DEF f
    <3> QED
      BY <2>1, CopyOne
  <2> QED
    BY <1>1, <1>3, <2>2
<1>6. \A k \in 0 .. sch.ndims : k \in K
  <2> HIDE DEF K
  <2> QED
    BY <1>1, <1>4, <1>5, UpTo
<1>7. sch.ndims \in 0 .. sch.ndims
  BY <1>1
<1> QED
  BY <1>3, <1>6, <1>7

(* Two schemas with the same dimensions at the same positions.              *)
LEMMA CopiedLayout ==
  ASSUME NEW m \in Seq(Dimension), NEW sch, Shaped(m, sch),
         NEW done, Copied(m, sch, done, sch.ndims), Filled(sch) = 0 .. sch.ndims - 1
  PROVE  SameLayout(m, sch, done.mem, done.sch)
<1> DEFINE c == done.sch
           w == done.mem
<1>1. c.ndims = sch.ndims /\ sch.ndims \in Nat /\ Len(m) \in Nat
  BY SchemaDocAssumption DEF Copied, Shaped
<1>2. ASSUME NEW p \in 0 .. sch.ndims - 1 PROVE SizeAt(w, c, p) = SizeAt(m, sch, p)
  <2>1. c.dims[p] = Len(m) + p + 1 /\ Stated(w[Len(m) + p + 1], m[sch.dims[p]])
    BY <1>1 DEF Copied
  <2>2. p \in DOMAIN c.dims
    BY <1>1 DEF Copied, Sound, Shaped
  <2>3. c.dims[p] # NULL
    <3>1. c.dims[p] \in Nat
      BY <1>1, <2>1
    <3> QED
      BY <3>1, SchemaDocAssumption
  <2>4. p \in Filled(c) /\ p \in Filled(sch)
    BY <2>2, <2>3 DEF Filled
  <2> HIDE DEF c, w
  <2> QED
    BY <2>1, <2>4 DEF SizeAt, Stated
<1>3. SameSizes(m, sch, w, c)
  BY <1>1, <1>2, Zenon DEF SameSizes
<1>4. Sizes(m, sch)
  BY ShapedSizes
<1> QED
  BY <1>3, <1>4, BeforeSame, Zenon

LEMMA CloneSound ==
  ASSUME DocInv, SchemaClone
  PROVE  DocInv'
<1> DEFINE made == Cloned(mem, s)
           n == s.ndims
           L == Len(mem)
           w == made.mem
           c == made.sch
           A == [x \in Coordinate |-> IF s.at[x] = NULL THEN NULL
                                      ELSE c.dims[mem[s.at[x]].position]]
           new == copy'
<1>1. /\ phase = "read" /\ s # NULL /\ copy = NULL /\ s' = s /\ phase' = phase
      /\ mem' = WithOffsets(w, c)
      /\ copy' = [Coordinates(s, c) EXCEPT !.compression = s.compression]
  BY DEF SchemaClone
<1>2. /\ mem \in Seq(Dimension) /\ Sound(mem, s) /\ Coords(mem, s) /\ Shaped(mem, s)
      /\ n \in Nat \ {0} /\ Filled(s) = 0 .. n - 1 /\ SchemaIsValid(s)
  BY <1>1, ReturnedIs DEF DocInv
<1>3. Placed(mem, s) /\ LaidOut(mem, s) /\ L \in Nat
  BY <1>2 DEF Sound
<1>4. Copied(mem, s, made, n)
  BY <1>2, <1>3, ClonedIs
<1>5. SameLayout(mem, s, w, c)
  BY <1>2, <1>4, CopiedLayout
<1> HIDE DEF made
<1>6. /\ w \in Seq(Dimension) /\ Len(w) = L + n
      /\ \A e \in 1 .. L : w[e] = mem[e]
      /\ Sound(w, c) /\ Shaped(w, c) /\ Placed(w, c) /\ Tabled(w, c) /\ LaidOut(w, c)
      /\ c.ndims = n /\ c.compression = "none"
      /\ \A p \in 0 .. n - 1 : p < n /\ c.dims[p] = L + p + 1
      /\ \A p \in 0 .. n - 1 : Stated(w[L + p + 1], mem[s.dims[p]])
  <2>1. \A p \in 0 .. n - 1 : p < n
    BY <1>2
  <2> HIDE DEF n
  <2> QED
    BY <1>4, <2>1 DEF Copied, Sound, n
<1>7. c = [ndims |-> n, dims |-> c.dims, namehash |-> c.namehash,
           size |-> c.size, at |-> c.at, compression |-> c.compression]
  BY <1>6 DEF Shaped, IsSchema
<1>8. new = [ndims |-> n, dims |-> c.dims, namehash |-> c.namehash,
             size |-> c.size, at |-> A, compression |-> s.compression]
  <2>1. Coordinates(s, c) = [c EXCEPT !.at = A]
    BY Zenon DEF Coordinates
  <2> HIDE DEF A, c, n
  <2>2. Coordinates(s, c) = [ndims |-> n, dims |-> c.dims, namehash |-> c.namehash,
                             size |-> c.size, at |-> A, compression |-> c.compression]
    BY <1>7, <2>1
  <2> QED
    BY <1>1, <2>2
<1> HIDE DEF new
<1>9. /\ IsSchema(new) /\ SameDims(c, new) /\ new.at = A /\ new.size = c.size
      /\ new.compression = s.compression /\ new.ndims = n /\ new.dims = c.dims
  <2> HIDE DEF A, n, c
  <2>1. c.ndims = n
    BY <1>7
  <2> QED
    BY <1>8, <2>1 DEF IsSchema, SameDims
<1>10. \A p \in 0 .. n - 1 : c.dims[p] \in L + 1 .. L + n /\ c.dims[p] \in 1 .. Len(w)
  BY <1>2, <1>3, <1>6
<1>11. ASSUME NEW x \in Coordinate, s.at[x] # NULL
       PROVE  mem[s.at[x]].position \in 0 .. n - 1
  <2>1. PICK p \in Filled(s) : s.dims[p] = s.at[x]
    BY <1>2, <1>11 DEF Coords
  <2> QED
    BY <1>2, <1>3, <2>1 DEF Placed
<1>12. Shaped(w, new)
  <2>1. ASSUME NEW x \in Coordinate PROVE A[x] \in (1 .. Len(w)) \cup {NULL}
    <3>1. CASE s.at[x] = NULL
      BY <3>1
    <3>2. CASE s.at[x] # NULL
      BY <1>10, <1>11, <3>2
    <3> QED
      BY <3>1, <3>2
  <2>2. A = [x \in Coordinate |-> A[x]]
    OBVIOUS
  <2>3. A \in [Coordinate -> (1 .. Len(w)) \cup {NULL}]
    <3> HIDE DEF A, w
    <3> QED
      BY <2>1, <2>2
  <2>4. s.compression \in Compression
    BY <1>2 DEF Shaped
  <2> HIDE DEF A
  <2> QED
    BY <1>2, <1>6, <1>9, <2>3, <2>4 DEF Shaped
<1>13. Sound(mem', new)
  <2>1. new.size = Before(w, c, c.ndims)
    BY <1>6, <1>9 DEF LaidOut
  <2> HIDE DEF w, c, A
  <2>2. Sound(WithOffsets(w, c), new)
    BY <1>6, <1>9, <1>12, <2>1, Relaid, Zenon
  <2> QED
    BY <1>1, <2>2, Zenon
<1>14. /\ mem' \in Seq(Dimension) /\ Len(mem') = L + n
       /\ \A e \in 1 .. L + n : Stated(mem'[e], w[e])
       /\ \A e \in 1 .. L : mem'[e] = mem[e]
       /\ \A p \in 0 .. n - 1 : mem'[c.dims[p]].byteoffset = Before(w, c, p) % Word
  <2>1. /\ WithOffsets(w, c) \in Seq(Dimension)
        /\ Len(WithOffsets(w, c)) = Len(w)
        /\ \A d \in 1 .. Len(w) : Stated(WithOffsets(w, c)[d], w[d])
        /\ \A d \in 1 .. Len(w) :
             (\A p \in Filled(c) : c.dims[p] # d) => WithOffsets(w, c)[d] = w[d]
        /\ \A p \in Filled(c) :
             c.dims[p] \in 1 .. Len(w) =>
               WithOffsets(w, c)[c.dims[p]].byteoffset = Before(w, c, p) % Word
    <3> HIDE DEF w, c
    <3> QED
      BY <1>6, WithOffsetsIs
  <2>2. Filled(c) = 0 .. n - 1
    <3>1. DOMAIN c.dims = 0 .. n - 1
      BY <1>6 DEF Shaped
    <3>2. \A p \in 0 .. n - 1 : c.dims[p] \in Nat
      BY <1>3, <1>10
    <3> QED
      BY <3>1, <3>2, SchemaDocAssumption DEF Filled
  <2>3. ASSUME NEW e \in 1 .. L PROVE mem'[e] = mem[e]
    <3>1. \A p \in 0 .. n - 1 : c.dims[p] # e
      BY <1>3, <1>10
    <3>2. e \in 1 .. Len(w)
      BY <1>2, <1>3, <1>6
    <3> HIDE DEF w, c
    <3> QED
      BY <1>1, <1>6, <2>1, <2>2, <3>1, <3>2
  <2> HIDE DEF w, c
  <2> QED
    BY <1>1, <1>6, <1>10, <2>1, <2>2, <2>3
<1>15. ASSUME NEW p \in 0 .. n - 1
       PROVE  /\ s.dims[p] \in 1 .. L /\ c.dims[p] \in L + 1 .. L + n
              /\ mem'[s.dims[p]] = mem[s.dims[p]]
              /\ mem'[c.dims[p]] = mem[s.dims[p]]
  <2>1. s.dims[p] \in 1 .. L /\ mem[s.dims[p]] \in Dimension
    BY <1>2, FilledIn
  <2>2. c.dims[p] \in L + 1 .. L + n /\ c.dims[p] \in 1 .. L + n
    BY <1>6, <1>10
  <2>3. Stated(mem'[c.dims[p]], mem[s.dims[p]])
    <3>1. Stated(mem'[c.dims[p]], w[c.dims[p]])
      BY <1>14, <2>2
    <3>2. Stated(w[c.dims[p]], mem[s.dims[p]])
      BY <1>6
    <3> QED
      BY <3>1, <3>2, Zenon DEF Stated
  <2>4. mem'[c.dims[p]].byteoffset = mem[s.dims[p]].byteoffset
    <3>1. p \in 0 .. n
      BY <1>2
    <3>2. Before(w, c, p) = Before(mem, s, p)
      BY <1>5, <3>1 DEF SameLayout
    <3>3. mem[s.dims[p]].byteoffset = Before(mem, s, p) % Word
      BY <1>2, <1>3 DEF LaidOut
    <3> QED
      BY <1>14, <3>2, <3>3
  <2>5. mem'[c.dims[p]] \in Dimension
    BY <1>14, <2>2, ElementOfSeq
  <2>6. mem'[c.dims[p]] = mem[s.dims[p]]
    <3> DEFINE x == mem'[c.dims[p]]
               y == mem[s.dims[p]]
    <3>1. x \in Dimension /\ y \in Dimension /\ Stated(x, y) /\ x.byteoffset = y.byteoffset
      BY <2>1, <2>3, <2>4, <2>5
    <3> HIDE DEF x, y
    <3>2. x = y
      BY <3>1 DEF Dimension, Stated
    <3> QED
      BY <3>2 DEF x, y
  <2> QED
    BY <1>14, <2>1, <2>2, <2>6
<1>16. Shaped(mem', s)
  <2>1. (1 .. L) \subseteq (1 .. Len(mem'))
    BY <1>2, <1>3, <1>14
  <2> QED
    BY <1>2, <2>1 DEF Shaped
<1>17. Sound(mem', s)
  BY <1>2, <1>14, <1>15, <1>16, SoundMoves
<1>18. \A x \in Coordinate : s.at[x] # NULL => mem'[s.at[x]] = mem[s.at[x]]
  BY <1>2, <1>15 DEF Coords
<1>19. Coords(mem', s)
  BY <1>2, <1>18 DEF Coords
<1>20. Cloning(mem', s, new)
  <2>1. \A x \in Coordinate :
          new.at[x] = IF s.at[x] = NULL THEN NULL ELSE new.dims[mem'[s.at[x]].position]
    BY <1>9, <1>18
  <2>2. Len(mem') - s.ndims = L /\ Len(mem') = L + n
    BY <1>2, <1>3, <1>14
  <2> HIDE DEF c, L
  <2> QED
    BY <1>3, <1>9, <1>13, <1>15, <2>1, <2>2 DEF Cloning
<1> QED
  BY <1>1, <1>2, <1>14, <1>17, <1>19, <1>20 DEF DocInv, new

DocStrong == FoundWhereStated /\ DocInv

LEMMA StepDoc == DocStrong /\ [Next]_vars => DocStrong'
<1> SUFFICES ASSUME DocStrong, [Next]_vars PROVE DocStrong'
  OBVIOUS
<1>1. FoundWhereStated /\ DocInv
  BY DEF DocStrong
<1>2. FoundWhereStated'
  BY <1>1, StepFound
<1>3. DocInv'
  <2>1. ASSUME NEW d \in Element, StoreDimension(d) PROVE DocInv'
    BY <1>1, <2>1, StoreSound
  <2>2. ASSUME NEW d \in Element, RejectDimension(d) PROVE DocInv'
    BY <1>1, <2>2 DEF RejectDimension, Reading, DocInv
  <2>3. CASE CompleteDimensions
    BY <1>1, <2>3, CompleteSound
  <2>4. ASSUME NEW value, ReadMetadata(value) PROVE DocInv'
    BY <1>1, <2>4, ReadSound
  <2>5. CASE EndOfDocument
    BY <1>1, <2>5 DEF EndOfDocument, DocInv
  <2>6. CASE CleanUp
    <3>1. CASE SchemaIsValid(s)
      <4>1. phase = "cleanup" /\ phase' = "read" /\ mem' = mem /\ s' = s /\ copy' = copy
        BY <2>6, <3>1 DEF CleanUp
      <4> QED
        BY <1>1, <3>1, <4>1 DEF DocInv
    <3>2. CASE ~ SchemaIsValid(s)
      <4>1. phase = "cleanup" /\ phase' = "read" /\ mem' = <<>> /\ s' = NULL /\ copy' = copy
        BY <2>6, <3>2 DEF CleanUp
      <4>2. mem' \in Seq(Dimension)
        BY <4>1
      <4> QED
        BY <1>1, <4>1, <4>2 DEF DocInv
    <3> QED
      BY <3>1, <3>2
  <2>7. CASE SchemaClone
    BY <1>1, <2>7, CloneSound
  <2>8. ASSUME NEW compression \in {"dimensional", "laz"}, Override(compression) PROVE DocInv'
    <3>1. compression \in Compression
      BY DEF Compression
    <3> QED
      BY <1>1, <2>8, <3>1, OverrideSound
  <2>9. CASE SchemaFree
    BY <1>1, <2>9, FreeSound
  <2>10. CASE UNCHANGED vars
    BY <1>1, <2>10 DEF vars, DocInv
  <2> QED
    BY <2>1, <2>2, <2>3, <2>4, <2>5, <2>6, <2>7, <2>8, <2>9, <2>10 DEF Next
<1> QED
  BY <1>2, <1>3 DEF DocStrong

LEMMA DocHolds == Spec => []DocStrong
<1>1. Init => DocStrong
  BY InitFound, InitDoc DEF DocStrong
<1> QED
  BY <1>1, StepDoc, PTL DEF Spec

(* Each schema of a state is sound; if it is the clone, its dimensions are  *)
(* those of the other.                                                      *)
LEMMA SchemasSound ==
  ASSUME DocInv, NEW sch \in Schemas
  PROVE  mem \in Seq(Dimension) /\ Sound(mem, sch) /\ Shaped(mem, sch)
<1>1. CASE sch = s
  BY <1>1 DEF Schemas, DocInv, Sound
<1>2. CASE sch = copy
  BY <1>2 DEF Schemas, DocInv, Cloning, Sound
<1> QED
  BY <1>1, <1>2 DEF Schemas

(* Positions, pointers and coordinates of a schema stay in their ranges,    *)
(* and every offset fits the uint32_t it is stored in.                      *)
THEOREM TypeCorrect == Spec => []TypeOK
<1>1. DocInv => TypeOK
  <2> SUFFICES ASSUME DocInv PROVE TypeOK
    OBVIOUS
  <2>1. ASSUME NEW sch \in Schemas
        PROVE  /\ sch.ndims \in 0 .. MaxDims
               /\ sch.dims \in [0 .. sch.ndims - 1 -> Pointer \cup {NULL}]
               /\ sch.at \in [Coordinate -> Pointer \cup {NULL}]
               /\ sch.compression \in Compression
    BY SchemasSound DEF Shaped, Pointer
  <2>2. ASSUME NEW d \in Pointer PROVE mem[d] \in Dimension
    BY ElementOfSeq DEF DocInv, Pointer
  <2> QED
    BY <2>1, <2>2, Zenon DEF TypeOK, DocInv, Dimension
<1> QED
  BY <1>1, DocHolds, PTL DEF DocStrong

(* pc_schema_from_xml returns NULL or a schema that every function may use: *)
(* each position holds the dimension that states it, and X and Y are        *)
(* dimensions with a name of theirs.                                        *)
THEOREM ReturnedStayUsable == Spec => []ReturnedUsable
<1>1. DocInv => ReturnedUsable
  <2> SUFFICES ASSUME DocInv, phase = "read", s # NULL
               PROVE  /\ \A p \in DOMAIN s.dims : s.dims[p] # NULL /\ mem[s.dims[p]].position = p
                      /\ \A c \in {"x", "y"} : s.at[c] # NULL /\ Axis[mem[s.at[c]].name] = c
    BY DEF ReturnedUsable
  <2>1. /\ Sound(mem, s) /\ Coords(mem, s) /\ Shaped(mem, s) /\ Filled(s) = 0 .. s.ndims - 1
        /\ s.at["x"] # NULL /\ s.at["y"] # NULL
    BY ReturnedIs
  <2>2. ASSUME NEW p \in DOMAIN s.dims PROVE s.dims[p] # NULL /\ mem[s.dims[p]].position = p
    <3>1. p \in Filled(s)
      BY <2>1 DEF Shaped
    <3> QED
      BY <2>1, <3>1 DEF Filled, Sound, Placed
  <2>3. ASSUME NEW c \in {"x", "y"} PROVE s.at[c] # NULL /\ Axis[mem[s.at[c]].name] = c
    <3>1. c \in Coordinate /\ s.at[c] # NULL
      BY <2>1 DEF Coordinate
    <3> QED
      BY <2>1, <3>1 DEF Coords
  <2> QED
    BY <2>2, <2>3
<1> QED
  BY <1>1, DocHolds, PTL DEF DocStrong

(* pc_schema_calculate_byteoffsets keeps the values of a point side by      *)
(* side, in order of position: no byte is shared and none is left over,     *)
(* while dimensions come one by one and for a clone as well.                *)
THEOREM LayoutStaysTiled == Spec => []LayoutTiles
<1>1. DocInv => LayoutTiles
  <2> SUFFICES ASSUME DocInv, NEW sch \in Schemas,
                      \A p \in Filled(sch) : mem[sch.dims[p]].interpretation # Unknown
               PROVE  Tiles(mem, sch)
    BY Zenon DEF LayoutTiles, Tiles
  <2>1. mem \in Seq(Dimension) /\ Shaped(mem, sch) /\ LaidOut(mem, sch)
    BY SchemasSound DEF Sound
  <2> QED
    BY <2>1, SoundTiles
<1> QED
  BY <1>1, DocHolds, PTL DEF DocStrong

(* pc_schema_get_dimension_by_name finds a dimension of that name at its    *)
(* position of this schema if and only if there is one, whatever collides   *)
(* in the table, however often a name occurs and whenever the table grows.  *)
THEOREM LookupsFind == Spec => []LookupFinds
<1>1. DocInv => LookupFinds
  <2> SUFFICES ASSUME DocInv, NEW sch \in Schemas, NEW k \in Key
               PROVE  LET d == Search(sch.namehash, k)
                      IN IF d = NULL THEN \A p \in Filled(sch) : mem[sch.dims[p]].name # k
                         ELSE /\ d \in Pointer
                              /\ mem[d].name = k
                              /\ sch.dims[mem[d].position] = d
    BY Zenon DEF LookupFinds
  <2> DEFINE d == Search(sch.namehash, k)
  <2>1. mem \in Seq(Dimension) /\ Sound(mem, sch) /\ Shaped(mem, sch)
    BY SchemasSound
  <2> HIDE DEF d
  <2>2. \/ d = NULL /\ \A p \in Filled(sch) : mem[sch.dims[p]].name # k
        \/ \E p \in Filled(sch) : d = sch.dims[p] /\ mem[sch.dims[p]].name = k
    BY <2>1, SoundFinds DEF d
  <2>3. CASE \E p \in Filled(sch) : d = sch.dims[p] /\ mem[sch.dims[p]].name = k
    <3>1. PICK p \in Filled(sch) : d = sch.dims[p] /\ mem[sch.dims[p]].name = k
      BY <2>3
    <3>2. d # NULL /\ d \in Pointer /\ mem[d].position = p
      BY <2>1, <3>1, FilledIn DEF Filled, Pointer, Sound, Placed
    <3> QED
      BY <3>1, <3>2 DEF d
  <2> QED
    BY <2>2, <2>3 DEF d
<1> QED
  BY <1>1, DocHolds, PTL DEF DocStrong

(* A clone has the dimensions, the size and the coordinates of the schema.  *)
LEMMA CloneIs ==
  ASSUME DocInv, copy # NULL
  PROVE  /\ mem \in Seq(Dimension) /\ Sound(mem, s) /\ Sound(mem, copy)
         /\ copy.ndims = s.ndims /\ copy.size = s.size
         /\ Filled(s) = 0 .. s.ndims - 1 /\ Filled(copy) = Filled(s)
         /\ \A p \in Filled(s) : /\ mem[copy.dims[p]] = mem[s.dims[p]]
                                 /\ mem[s.dims[p]].position = p
                                 /\ copy.dims[p] # s.dims[p]
                                 /\ copy.dims[p] # NULL /\ s.dims[p] # NULL
         /\ \A c \in Coordinate :
              IF s.at[c] = NULL THEN copy.at[c] = NULL
              ELSE mem[copy.at[c]] = mem[s.at[c]] /\ copy.at[c] # s.at[c]
<1> DEFINE n == s.ndims
           L == Len(mem) - n
<1>1. phase = "read" /\ s # NULL /\ Cloning(mem, s, copy)
  BY DEF DocInv
<1>2. /\ mem \in Seq(Dimension) /\ Sound(mem, s) /\ Coords(mem, s) /\ Shaped(mem, s)
      /\ n \in Nat \ {0} /\ Filled(s) = 0 .. n - 1 /\ Placed(mem, s)
  BY <1>1, ReturnedIs DEF Sound
<1>3. /\ Sound(mem, copy) /\ copy.ndims = n /\ L \in Nat
      /\ \A p \in 0 .. n - 1 : /\ s.dims[p] \in 1 .. L
                               /\ copy.dims[p] \in L + 1 .. Len(mem)
                               /\ mem[copy.dims[p]] = mem[s.dims[p]]
      /\ \A c \in Coordinate :
           copy.at[c] = IF s.at[c] = NULL THEN NULL ELSE copy.dims[mem[s.at[c]].position]
  BY <1>1 DEF Cloning
<1>4. ASSUME NEW p \in 0 .. n - 1
      PROVE  /\ mem[copy.dims[p]] = mem[s.dims[p]] /\ mem[s.dims[p]].position = p
             /\ copy.dims[p] # s.dims[p] /\ copy.dims[p] # NULL /\ s.dims[p] # NULL
  <2>1. s.dims[p] \in 1 .. L /\ copy.dims[p] \in L + 1 .. Len(mem) /\ Len(mem) \in Nat
    BY <1>2, <1>3
  <2>2. copy.dims[p] # s.dims[p] /\ copy.dims[p] \in Nat /\ s.dims[p] \in Nat
    BY <1>3, <2>1
  <2>3. copy.dims[p] # NULL /\ s.dims[p] # NULL
    BY <2>2, SchemaDocAssumption
  <2> QED
    BY <1>2, <1>3, <2>2, <2>3 DEF Placed
<1>5. Shaped(mem, copy) /\ LaidOut(mem, copy) /\ LaidOut(mem, s)
  BY <1>2, <1>3 DEF Sound
<1>6. Filled(copy) = 0 .. n - 1
  BY <1>3, <1>4, <1>5 DEF Shaped, Filled
<1>7. copy.size = s.size
  <2>1. ASSUME NEW p \in 0 .. n - 1 PROVE SizeAt(mem, copy, p) = SizeAt(mem, s, p)
    BY <1>2, <1>4, <1>6 DEF SizeAt
  <2>2. SameSizes(mem, s, mem, copy)
    BY <1>3, <2>1, Zenon DEF SameSizes
  <2>3. Sizes(mem, s)
    BY <1>2, ShapedSizes
  <2>4. SameLayout(mem, s, mem, copy)
    BY <2>2, <2>3, BeforeSame, Zenon
  <2>5. n \in 0 .. n
    BY <1>2
  <2> QED
    BY <1>3, <1>5, <2>4, <2>5 DEF SameLayout, LaidOut
<1>8. ASSUME NEW c \in Coordinate, s.at[c] # NULL
      PROVE  mem[copy.at[c]] = mem[s.at[c]] /\ copy.at[c] # s.at[c]
  <2>1. PICK p \in Filled(s) : s.dims[p] = s.at[c]
    BY <1>2, <1>8 DEF Coords
  <2>2. p \in 0 .. n - 1 /\ mem[s.at[c]].position = p
    BY <1>2, <2>1 DEF Placed
  <2>3. copy.at[c] = copy.dims[p]
    BY <1>3, <1>8, <2>2
  <2> QED
    BY <1>4, <2>1, <2>2, <2>3
<1> QED
  BY <1>2, <1>3, <1>4, <1>6, <1>7, <1>8

(* pc_schema_clone makes the same schema in memory of its own: the same     *)
(* dimensions, layout and coordinates, and every name finds the same        *)
(* dimension if no name occurs twice; it stays so while PC_Compress         *)
(* overrides the scheme of the clone.                                       *)
THEOREM ClonesStayFaithful == Spec => []CloneFaithful
<1>1. DocInv => CloneFaithful
  <2> DEFINE Same(d, e) == mem[d] = mem[e] /\ d # e
  <2> SUFFICES ASSUME DocInv, copy # NULL
               PROVE  /\ copy.ndims = s.ndims /\ copy.size = s.size
                      /\ \A p \in DOMAIN s.dims : Same(copy.dims[p], s.dims[p])
                      /\ \A c \in Coordinate : IF s.at[c] = NULL THEN copy.at[c] = NULL
                                                                 ELSE Same(copy.at[c], s.at[c])
                      /\ DistinctNames(s) =>
                           \A k \in Key : LET d == Search(s.namehash, k)
                                              e == Search(copy.namehash, k)
                                          IN IF d = NULL THEN e = NULL ELSE Same(e, d)
    BY Zenon DEF CloneFaithful
  <2>1. /\ mem \in Seq(Dimension) /\ Sound(mem, s) /\ Sound(mem, copy)
        /\ copy.ndims = s.ndims /\ copy.size = s.size
        /\ Filled(s) = 0 .. s.ndims - 1 /\ Filled(copy) = Filled(s)
        /\ \A p \in Filled(s) : /\ mem[copy.dims[p]] = mem[s.dims[p]]
                                /\ mem[s.dims[p]].position = p
                                /\ copy.dims[p] # s.dims[p]
                                /\ copy.dims[p] # NULL /\ s.dims[p] # NULL
        /\ \A c \in Coordinate :
             IF s.at[c] = NULL THEN copy.at[c] = NULL
             ELSE mem[copy.at[c]] = mem[s.at[c]] /\ copy.at[c] # s.at[c]
    BY CloneIs, Zenon
  <2>2. ASSUME NEW p \in DOMAIN s.dims PROVE Same(copy.dims[p], s.dims[p])
    <3>1. p \in Filled(s)
      BY <2>1 DEF Sound, Shaped
    <3> QED
      BY <2>1, <3>1
  <2>3. ASSUME DistinctNames(s), NEW k \in Key
        PROVE  LET d == Search(s.namehash, k)
                   e == Search(copy.namehash, k)
               IN IF d = NULL THEN e = NULL ELSE Same(e, d)
    <3> DEFINE d == Search(s.namehash, k)
               e == Search(copy.namehash, k)
    <3> HIDE DEF d, e
    <3>0. mem \in Seq(Dimension) /\ Sound(mem, s) /\ Sound(mem, copy)
      BY <2>1
    <3>1. \/ d = NULL /\ \A p \in Filled(s) : mem[s.dims[p]].name # k
          \/ \E p \in Filled(s) : d = s.dims[p] /\ mem[s.dims[p]].name = k
      BY <3>0, SoundFinds DEF d
    <3>2. \/ e = NULL /\ \A p \in Filled(copy) : mem[copy.dims[p]].name # k
          \/ \E p \in Filled(copy) : e = copy.dims[p] /\ mem[copy.dims[p]].name = k
      BY <3>0, SoundFinds DEF e
    <3>3. CASE \A p \in Filled(s) : mem[s.dims[p]].name # k
      <4>1. d = NULL
        BY <3>1, <3>3
      <4>2. e = NULL
        BY <2>1, <3>2, <3>3
      <4> QED
        BY <4>1, <4>2 DEF d, e
    <3>4. CASE \E p \in Filled(s) : mem[s.dims[p]].name = k
      <4>1. PICK p \in Filled(s) : d = s.dims[p] /\ mem[s.dims[p]].name = k
        BY <3>1, <3>4
      <4>2. PICK q \in Filled(s) : e = copy.dims[q] /\ mem[s.dims[q]].name = k
        BY <2>1, <3>2, <3>4
      <4>3. p = q
        <5>1. k # NULL
          BY SchemaDocAssumption
        <5> QED
          BY <2>3, <4>1, <4>2, <5>1 DEF DistinctNames
      <4>4. d # NULL /\ Same(e, d)
        BY <2>1, <4>1, <4>2, <4>3
      <4> QED
        BY <4>4 DEF d, e
    <3> QED
      BY <3>3, <3>4
  <2> QED
    BY <2>1, <2>2, <2>3
<1> QED
  BY <1>1, DocHolds, PTL DEF DocStrong
=============================================================================
