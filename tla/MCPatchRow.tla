----------------------------- MODULE MCPatchRow -----------------------------
(* The patch row on small schemas, and its refinement of PointRow.          *)
EXTENDS PatchRow

(* A signed and an unsigned type.                                           *)
Signed == [min |-> -2, max |-> 1]
Unsigned == [min |-> 0, max |-> 2]

Spatial(comp, offset) ==
  [comp |-> comp, srid |-> 1, order |-> <<"x", "z">>,
   interp |-> [x |-> Signed, z |-> Unsigned], scale |-> [d \in {"x", "z"} |-> 1],
   offset |-> [x |-> 0, z |-> offset]]

Flat(comp) ==
  [comp |-> comp, srid |-> 1, order |-> <<"x">>,
   interp |-> [x |-> Signed], scale |-> [x |-> 2], offset |-> [x |-> 1]]

(* One schema for each compression; 3 has another scale and offset and one  *)
(* dimension less, so a change of pcid takes the way by name.  The filter   *)
(* of a dimensional patch adds the offset once to a sum of many values, so  *)
(* the runs on averages keep 1 and 2 without one.                           *)
SchemasWith(offset) ==
  <<Spatial("none", offset), Spatial("dimensional", offset), Flat("laz")>>

Schemas == SchemasWith(1)
SchemasForAverages == SchemasWith(0)

NewRaws == [x |-> {-1, 1}, z |-> {0, 1}]

Comparisons ==
  [op : {"lt", "gt", "eq"}, lo : {1}, hi : {1}] \cup {[op |-> "between", lo |-> 0, hi |-> 2]}

(* The points as SQL shows them.                                            *)
Seen == INSTANCE PointRow WITH
          pcid   <- IF row = NULL THEN 0 ELSE row.pcid,
          points <- IF row = NULL THEN <<>> ELSE Points(row)

PointsOrNone(pa) == IF pa = NULL THEN <<>> ELSE Points(pa)

(* A filter returns the points whose values pass, in order, and PC_Range    *)
(* the window asked for, in every form of patch: neither the statistics     *)
(* that rule a filter out, nor the bitmaps over runs, lose or add a point.  *)
CallsExact ==
  row # NULL =>
    /\ \A d \in Dims(row.pcid), f \in Filter : \A pa \in Filtered(row, d, f) :
         PointsOrNone(pa) = Seen!Passing(d, f)
    /\ \A first, count \in -1 .. MaxPoints + 1 : \A pa \in Ranged(row, first, count) :
         PointsOrNone(pa) = Seen!Window(first, count)

(* Whatever the compression and the history of a row, each step of it is a  *)
(* step of some SQL function on a plain sequence of points.                 *)
ImplementsPoints == Seen!Spec
=============================================================================
