----------------------------- MODULE RunLength -----------------------------
(***************************************************************************)
(* One dimension of a dimensional patch as lib/pc_bytes.c keeps it: a      *)
(* column of raw values under one of four encodings.  Run-length encoded   *)
(* columns are filtered, searched and aggregated without being decoded;    *)
(* sigbits and zlib columns are decoded first, so all that shows of them   *)
(* is the sequence of values they stand for.                               *)
(***************************************************************************)
EXTENDS Integers, SequencesExt

CONSTANT MaxRun   \* longest run a count byte can hold: 255

ASSUME MaxRunAssumption == MaxRun \in Nat \ {0}

Run(n, v) == [n |-> n, v |-> v]

(* The first k runs hold this many values.                                  *)
Upto(runs, k) ==
  LET sum[j \in 0 .. Len(runs)] == IF j = 0 THEN 0 ELSE sum[j - 1] + runs[j].n
  IN sum[k]

Total(runs) == Upto(runs, Len(runs))

(* Slip: any earlier run of the value is extended.                          *)
ExtendFirst(runs, v) ==
  IF runs # <<>> /\ (\E k \in DOMAIN runs : runs[k].v = v /\ runs[k].n < MaxRun)
  THEN LET k == CHOOSE k \in DOMAIN runs : runs[k].v = v /\ runs[k].n < MaxRun
       IN [runs EXCEPT ![k].n = @ + 1]
  ELSE Append(runs, Run(1, v))

(* A value joins the open run if it repeats it and the count byte has room. *)
Extend(runs, v) ==
  IF runs # <<>> /\ Last(runs).v = v /\ Last(runs).n < MaxRun
  THEN [runs EXCEPT ![Len(runs)] = Run(@.n + 1, v)]
  ELSE Append(runs, Run(1, v))

RunLengthEncode(vals) == FoldLeft(Extend, <<>>, vals)

RunLengthDecode(runs) ==
  FoldLeft(LAMBDA vals, r : vals \o [i \in 1 .. r.n |-> r.v], <<>>, runs)

(* pc_bytes_run_count, from which the dimension statistics choose.          *)
RunCount(vals) == 1 + Cardinality({i \in 2 .. Len(vals) : vals[i] # vals[i - 1]})

(* Slip: the walk stops at the run that ends where the value begins.        *)
RunOfLoose(runs, n) == Min({k \in DOMAIN runs : n <= Upto(runs, k)})

(* The run a value lies in (0-based index), by walking the counts.          *)
RunOf(runs, n) == CHOOSE k \in DOMAIN runs : Upto(runs, k - 1) <= n /\ n < Upto(runs, k)

-----------------------------------------------------------------------------
(* A column: enc names the encoding; body is a sequence of runs for "rle",  *)
(* and the sequence of values that the bytes encode otherwise.              *)
Column(enc, vals) ==
  [enc |-> enc, body |-> IF enc = "rle" THEN RunLengthEncode(vals) ELSE vals]

Values(col) == IF col.enc = "rle" THEN RunLengthDecode(col.body) ELSE col.body

ColumnLength(col) == IF col.enc = "rle" THEN Total(col.body) ELSE Len(col.body)

(* pc_bytes_to_ptr: value n, 0-based.                                       *)
ValueAt(col, n) ==
  IF col.enc = "rle" THEN col.body[RunOf(col.body, n)].v ELSE col.body[n + 1]

(* Slip: each run marks one point.                                          *)
BitmapPerRun(col, accepted) ==
  IF col.enc = "rle"
  THEN [i \in 1 .. Total(col.body) |-> i <= Len(col.body) /\ col.body[Min({i, Len(col.body)})].v \in accepted]
  ELSE [i \in DOMAIN col.body |-> col.body[i] \in accepted]

(* pc_bytes_bitmap: a run is tested once and marks all its points.          *)
Bitmap(col, accepted) ==
  IF col.enc = "rle"
  THEN [i \in 1 .. Total(col.body) |-> col.body[RunOf(col.body, i - 1)].v \in accepted]
  ELSE [i \in DOMAIN col.body |-> col.body[i] \in accepted]

(* The points a bitmap keeps among those of run k.                          *)
KeptOf(runs, map, k) ==
  Cardinality({i \in Upto(runs, k - 1) + 1 .. Upto(runs, k) : map[i]})

(* Keep the elements of a sequence that a bitmap marks.                     *)
Marked(seq, map) ==
  FoldLeftDomain(LAMBDA kept, i : IF map[i] THEN Append(kept, seq[i]) ELSE kept, <<>>, seq)

(* Slip: the read position is not moved past the points of a dropped run.   *)
RunLengthFilterSkewed(runs, map) ==
  FoldLeftDomain(LAMBDA kept, k :
      LET before == Total(kept)
          n == Cardinality({i \in before + 1 .. before + runs[k].n : map[i]})
      IN IF n > 0 THEN Append(kept, Run(n, runs[k].v)) ELSE kept, <<>>, runs)

(* Slip: a run none of whose points are kept stays, with count 0.           *)
RunLengthFilterEmpty(runs, map) ==
  [k \in DOMAIN runs |-> Run(KeptOf(runs, map, k), runs[k].v)]

(* Runs shrink in place; a run left without points goes, and neighbours     *)
(* that have become equal are not joined.                                   *)
RunLengthFilter(runs, map) ==
  FoldLeftDomain(LAMBDA kept, k :
      LET n == KeptOf(runs, map, k)
      IN IF n > 0 THEN Append(kept, Run(n, runs[k].v)) ELSE kept, <<>>, runs)

ColumnFilter(col, map) ==
  [col EXCEPT !.body = IF col.enc = "rle" THEN RunLengthFilter(@, map) ELSE Marked(@, map)]

(* The sum the filter gathers beside min and max: once per run kept for     *)
(* "rle", once per point otherwise.                                         *)
FilterSum(col, map) ==
  IF col.enc = "rle"
  THEN FoldLeft(LAMBDA sum, r : sum + r.v, 0, RunLengthFilter(col.body, map))
  ELSE FoldLeft(+, 0, Marked(col.body, map))

(* pc_bytes_minmax on the runs themselves.                                  *)
ColumnMin(col) == Min(IF col.enc = "rle" THEN {col.body[k].v : k \in DOMAIN col.body}
                                         ELSE ToSet(col.body))
ColumnMax(col) == Max(IF col.enc = "rle" THEN {col.body[k].v : k \in DOMAIN col.body}
                                         ELSE ToSet(col.body))

(* Slip: a run adds its value once.                                         *)
ColumnSumPerRun(col) == IF col.enc = "rle"
                        THEN FoldLeft(LAMBDA sum, r : sum + r.v, 0, col.body)
                        ELSE FoldLeft(+, 0, col.body)

ColumnSum(col) == IF col.enc = "rle"
                  THEN FoldLeft(LAMBDA sum, r : sum + r.n * r.v, 0, col.body)
                  ELSE FoldLeft(+, 0, col.body)
=============================================================================
