------------------------------ MODULE PatchRow ------------------------------
(***************************************************************************)
(* A pcpatch column of one row under the SQL functions that rewrite it     *)
(* (UPDATE t SET pa = f(pa)).  A patch holds the same points in one of     *)
(* three forms, and beside them what the code computes once and then       *)
(* carries along: npoints, bounds and the min / max / avg points.          *)
(***************************************************************************)
EXTENDS PointSchema, RunLength

CONSTANTS
  Encodings,  \* encodings a dimension may get, by statistics or by request
  WkbForms,   \* forms of patch that arrive as WKB
  Filter,     \* the comparisons asked for
  Def,        \* values of the def argument
  MaxPoints,  \* bound on the points of the row
  NewRaw,     \* per dimension, the raw values of new points
  NULL        \* SQL NULL

ASSUME PatchAssumption ==
  /\ WkbForms \subseteq {"none", "dimensional", "laz"}
  /\ \A f \in Filter : /\ f.op \in {"lt", "gt", "eq", "between"}
                      /\ f.lo \in Int /\ f.hi \in Int
  /\ Def # {} /\ Def \subseteq Int
  /\ MaxPoints \in Nat

VARIABLE row

vars == row

NewPoint(p) == {pt \in PointOf(p) : \A d \in Dims(p) : pt[d] \in NewRaw[d]}
NewPoints(p) == UNION {[1 .. n -> NewPoint(p)] : n \in 1 .. MaxPoints}

ColumnOf(d, pts) == [i \in DOMAIN pts |-> pts[i][d]]

(* The points a patch holds, decoded.                                       *)
Points(pa) ==
  IF pa.form = "dimensional"
  THEN [i \in 1 .. pa.npoints |-> [d \in DOMAIN pa.data |-> Values(pa.data[d])[i]]]
  ELSE pa.data

Extent(p, pts) ==
  [d \in Planar |-> [min |-> Min(ValuesOf(p, d, pts)), max |-> Max(ValuesOf(p, d, pts))]]

SumOf(p, d, pts) == FoldLeft(LAMBDA sum, a : sum + Scaled(p, d, a[d]), 0, pts)

(* min, max and avg are points of the schema, so their values are rounded   *)
(* to it.                                                                   *)
Stats(p, pts) ==
  [min |-> [d \in Dims(p) |-> RawOf(p, d, Min(ValuesOf(p, d, pts)), 1)],
   max |-> [d \in Dims(p) |-> RawOf(p, d, Max(ValuesOf(p, d, pts)), 1)],
   avg |-> [d \in Dims(p) |-> RawOf(p, d, SumOf(p, d, pts), Len(pts))]]

Uncompressed(p, pts, bounds, stats) ==
  [pcid |-> p, form |-> "none", data |-> pts, npoints |-> Len(pts),
   bounds |-> bounds, stats |-> stats]

(* An uncompressed patch with extent and statistics computed.               *)
Computed(p, pts) == Uncompressed(p, pts, Extent(p, pts), Stats(p, pts))

-----------------------------------------------------------------------------
(* Conversions carry npoints, bounds and stats along.                       *)
ToUncompressed(pa) == [pa EXCEPT !.form = "none", !.data = Points(pa)]
ToLazperf(pa) == [pa EXCEPT !.form = "laz", !.data = Points(pa)]
ToDimensional(pa, enc) ==
  [pa EXCEPT !.form = "dimensional",
             !.data = [d \in Dims(pa.pcid) |-> Column(enc[d], ColumnOf(d, Points(pa)))]]

(* pc_patch_serialize: what the row may become when the target compression  *)
(* is comp.  A patch already in that form is written as it is.              *)
Serialized(pa, comp) ==
  IF pa.form = comp THEN {pa}
  ELSE CASE comp = "none"        -> {ToUncompressed(pa)}
         [] comp = "laz"         -> {ToLazperf(pa)}
         [] comp = "dimensional" -> {ToDimensional(pa, enc) : enc \in [Dims(pa.pcid) -> Encodings]}

Stored(pa) == Serialized(pa, Schema[pa.pcid].comp)

Store(pa) == row' \in Stored(pa)

-----------------------------------------------------------------------------
Init == row = NULL

(* PC_Patch, PC_MakePatch: points of one schema.                            *)
FromPoints(p, pts) == row = NULL /\ Store(Computed(p, pts))

(* A patch read from WKB, its dimensions already encoded.  Statistics and   *)
(* extent are computed on the form it comes in; for laz the extent goes to  *)
(* a temporary copy and the bounds stay as allocated, zero.                 *)
Zero == [d \in Planar |-> [min |-> 0, max |-> 0]]

FromWkb(p, form, pts) ==
  /\ row = NULL
  /\ CASE form = "none" -> Store(Computed(p, pts))
       [] form = "laz"  -> Store(ToLazperf([Computed(p, pts) EXCEPT !.bounds = Zero]))
       [] form = "dimensional" ->
            \E enc \in [Dims(p) -> Encodings \cup {"none"}] :
              LET pa == ToDimensional(Computed(p, pts), enc)
              IN Store([pa EXCEPT !.bounds = [d \in Planar |->
                          [min |-> Scaled(p, d, ColumnMin(pa.data[d])),
                           max |-> Scaled(p, d, ColumnMax(pa.data[d]))]]])

Merge(b1, b2) ==
  [d \in Planar |-> [min |-> Min({b1[d].min, b2[d].min}), max |-> Max({b1[d].max, b2[d].max})]]

(* Slip: the statistics of the first patch are kept.                        *)
UnionOfKeepsStats(pa1, pa2) ==
  Uncompressed(pa1.pcid, Points(pa1) \o Points(pa2), Merge(pa1.bounds, pa2.bounds), pa1.stats)

(* Slip: the loop copies the first patch again.                             *)
UnionOfFirst(pa1, pa2) ==
  LET pts == Points(pa1) \o Points(pa1)
  IN Uncompressed(pa1.pcid, pts, Merge(pa1.bounds, pa2.bounds), Stats(pa1.pcid, pts))

(* PC_Union: points concatenated, bounds merged, statistics computed again. *)
UnionOf(pa1, pa2) ==
  LET pts == Points(pa1) \o Points(pa2)
  IN Uncompressed(pa1.pcid, pts, Merge(pa1.bounds, pa2.bounds), Stats(pa1.pcid, pts))

UnionPoint(a) ==
  /\ row # NULL /\ row.npoints < MaxPoints
  /\ LET other == Computed(row.pcid, <<a>>)
     IN Store(UnionOf(row, other)) \/ Store(UnionOf(other, row))

UnionSelf ==
  /\ row # NULL /\ 2 * row.npoints <= MaxPoints
  /\ Store(UnionOf(row, row))

-----------------------------------------------------------------------------
(* Slip: the statistics rule a filter out when they only touch its bound.   *)
MayPassTight(pa, d, f) ==
  LET min == Scaled(pa.pcid, d, pa.stats.min[d])
      max == Scaled(pa.pcid, d, pa.stats.max[d])
  IN CASE f.op = "gt"      -> max > f.lo
       [] f.op = "lt"      -> min < f.lo
       [] f.op = "eq"      -> min < f.lo /\ max > f.lo
       [] f.op = "between" -> min < f.hi /\ max > f.lo

(* pc_patch_filter_has_results: the statistics do not rule the filter out.  *)
MayPass(pa, d, f) ==
  LET min == Scaled(pa.pcid, d, pa.stats.min[d])
      max == Scaled(pa.pcid, d, pa.stats.max[d])
  IN CASE f.op = "gt"      -> max >= f.lo
       [] f.op = "lt"      -> min <= f.lo
       [] f.op = "eq"      -> min <= f.lo /\ max >= f.lo
       [] f.op = "between" -> min <= f.hi /\ max >= f.lo

(* Slip: the extent of the unfiltered patch is kept.                        *)
DimensionalFilterKeepsBounds(pa, map, n) ==
  LET p == pa.pcid
      kept == [d \in Dims(p) |-> ColumnFilter(pa.data[d], map)]
  IN [pa EXCEPT
        !.data = kept, !.npoints = n,
        !.stats = [min |-> [d \in Dims(p) |-> ColumnMin(kept[d])],
                   max |-> [d \in Dims(p) |-> ColumnMax(kept[d])],
                   avg |-> pa.stats.avg]]

(* Each column is filtered in its encoding.  The average is the gathered    *)
(* sum, scaled and offset once, over the number of points kept.             *)
DimensionalFilter(pa, map, n) ==
  LET p == pa.pcid
      kept == [d \in Dims(p) |-> ColumnFilter(pa.data[d], map)]
      Lo(d) == Scaled(p, d, ColumnMin(kept[d]))
      Hi(d) == Scaled(p, d, ColumnMax(kept[d]))
  IN [pa EXCEPT
        !.data = kept, !.npoints = n,
        !.bounds = [d \in Planar |-> [min |-> Lo(d), max |-> Hi(d)]],
        !.stats = [min |-> [d \in Dims(p) |-> RawOf(p, d, Lo(d), 1)],
                   max |-> [d \in Dims(p) |-> RawOf(p, d, Hi(d), 1)],
                   avg |-> [d \in Dims(p) |->
                              RawOf(p, d, Scaled(p, d, FilterSum(pa.data[d], map)), n)]]]

(* What PC_FilterLessThan and its kin may return on dimension d.            *)
Filtered(pa, d, f) ==
  LET p == pa.pcid
      accepted == {raw \in Raw(p, d) : Passes(f, Scaled(p, d, raw))}
      map == IF pa.form = "dimensional"
             THEN Bitmap(pa.data[d], accepted)
             ELSE [i \in DOMAIN pa.data |-> pa.data[i][d] \in accepted]
      n == Cardinality({i \in DOMAIN map : map[i]})
  IN IF ~MayPass(pa, d, f) \/ n = 0 THEN {NULL}
     ELSE Stored(IF pa.form = "dimensional" THEN DimensionalFilter(pa, map, n)
                                            ELSE Computed(p, Marked(pa.data, map)))

FilterRow(d, f) ==
  row # NULL /\ d \in Dims(row.pcid) /\ row' \in Filtered(row, d, f)

-----------------------------------------------------------------------------
(* PC_Range: NULL outside the patch, the patch itself when it asks for all. *)
Ranged(pa, first, count) ==
  LET n == Min({count, pa.npoints - (first - 1)})
  IN IF first < 1 \/ n <= 0 THEN {NULL}
     ELSE IF n = pa.npoints THEN Stored(pa)
     ELSE Stored(Computed(pa.pcid, SubSeq(Points(pa), first, first + n - 1)))

RangeRow(first, count) == row # NULL /\ row' \in Ranged(row, first, count)

(* PC_Sort keeps bounds and statistics.                                     *)
SortRow(keys) ==
  /\ row # NULL /\ keys \in SortKeys(row.pcid)
  /\ \E s \in Sortings(Points(row), keys) : Store([ToUncompressed(row) EXCEPT !.data = s])

(* PC_Compress uncompresses and compresses again, whatever the schema says. *)
Compress(comp) ==
  /\ row # NULL
  /\ row' \in Serialized(ToUncompressed(row), comp)

(* PC_Uncompress stores the patch uncompressed, whatever the schema says.   *)
UncompressRow == row # NULL /\ row' = ToUncompressed(row)

(* PC_SetPCId, same dimensions: the bytes are kept, or only recompressed.   *)
SetPcidFast(q) ==
  /\ row # NULL /\ SameDimensions(row.pcid, q)
  /\ LET pa == [row EXCEPT !.pcid = q]
     IN IF Schema[row.pcid].comp = Schema[q].comp THEN row' = pa ELSE Store(pa)

(* PC_SetPCId, other dimensions: raw values move by name, statistics too,   *)
(* and the bounds are read back from the new statistics.                    *)
SetPcidByName(q, def) ==
  /\ row # NULL /\ ~SameDimensions(row.pcid, q) /\ SharedDimsAgree(row.pcid, q)
  /\ LET p == row.pcid
         pts == [i \in 1 .. row.npoints |-> Renamed(Points(row)[i], p, q, def)]
         stats == [s \in {"min", "max", "avg"} |-> Renamed(row.stats[s], p, q, def)]
         bounds == [d \in Planar |-> [min |-> Scaled(q, d, stats.min[d]),
                                      max |-> Scaled(q, d, stats.max[d])]]
     IN Store(Uncompressed(q, pts, bounds, stats))

(* PC_Transform: values move by name; NULL across srids.                    *)
Transform(q, def) ==
  /\ row # NULL
  /\ LET p == row.pcid
     IN IF Schema[p].srid # Schema[q].srid THEN row' = NULL
        ELSE Store(Computed(q, [i \in 1 .. row.npoints |->
                                  Transformed(Points(row)[i], p, q, def)]))

-----------------------------------------------------------------------------
Next ==
  \/ \E p \in Pcid : \E pts \in NewPoints(p) :
       FromPoints(p, pts) \/ \E form \in WkbForms : FromWkb(p, form, pts)
  \/ row # NULL /\ \E a \in NewPoint(row.pcid) : UnionPoint(a)
  \/ UnionSelf
  \/ row # NULL /\ \E d \in Dims(row.pcid), f \in Filter : FilterRow(d, f)
  \/ \E first, count \in -1 .. MaxPoints + 1 : RangeRow(first, count)
  \/ row # NULL /\ \E keys \in SortKeys(row.pcid) : SortRow(keys)
  \/ row # NULL /\ \E comp \in {Schema[row.pcid].comp, "dimensional", "laz"} : Compress(comp)
  \/ UncompressRow
  \/ \E q \in Pcid : SetPcidFast(q) \/ \E def \in Def : SetPcidByName(q, def) \/ Transform(q, def)

Spec == Init /\ [][Next]_vars

-----------------------------------------------------------------------------
(* Every column stands for npoints values, in runs of 1 .. MaxRun: what     *)
(* pc_bytes_run_length_decode and is_sorted assert of what they read.       *)
ColumnsAligned ==
  row # NULL /\ row.form = "dimensional" =>
    \A d \in Dims(row.pcid) :
      /\ ColumnLength(row.data[d]) = row.npoints
      /\ row.data[d].enc = "rle" =>
           \A k \in DOMAIN row.data[d].body : row.data[d].body[k].n \in 1 .. MaxRun

(* A stored patch has points, in columns that are aligned or in a list, all *)
(* within their interpretation; its statistics are points of its schema.    *)
TypeOK ==
  row = NULL \/
  /\ ColumnsAligned
  /\ row.pcid \in Pcid
  /\ row.form \in {"none", "dimensional", "laz"}
  /\ row.npoints \in Nat \ {0}
  /\ \A d \in Dims(row.pcid) :
       /\ {row.stats.min[d], row.stats.max[d], row.stats.avg[d]}
            \subseteq Raw(row.pcid, d)
       /\ \A i \in 1 .. row.npoints : Points(row)[i][d] \in Raw(row.pcid, d)
  /\ DOMAIN row.bounds = Planar

(* The bounds in the header are the extent of the points: PC_Intersects and *)
(* PC_EnvelopeAsBinary read nothing else.                                   *)
BoundsExact == row # NULL => row.bounds = Extent(row.pcid, Points(row))

(* The stored min and max points are those of the points: filters decide on *)
(* them alone that nothing can pass.                                        *)
MinMaxExact ==
  row # NULL => LET st == Stats(row.pcid, Points(row))
                IN row.stats.min = st.min /\ row.stats.max = st.max

(* PC_PatchAvg returns the average of the points, rounded to the schema.    *)
AvgExact == row # NULL => row.stats.avg = Stats(row.pcid, Points(row)).avg
=============================================================================
