------------------------------ MODULE PointRow ------------------------------
(***************************************************************************)
(* What the SQL functions on a pcpatch column promise, without bytes,      *)
(* compression, bounds or statistics: a row is a sequence of points of one *)
(* schema, and each function is an operation on that sequence.             *)
(***************************************************************************)
EXTENDS PointSchema

CONSTANTS Filter, Def, MaxPoints

VARIABLES
  pcid,    \* pcid of the row, 0 when the column is NULL
  points   \* its points, in order

vars == <<pcid, points>>

Init == pcid = 0 /\ points = <<>>

Set(p, pts) == pcid' = (IF pts = <<>> THEN 0 ELSE p) /\ points' = pts

(* A new row of points, all of one schema.                                  *)
Insert ==
  /\ pcid = 0
  /\ pcid' \in Pcid
  /\ points' \in Seq(PointOf(pcid')) \ {<<>>}

(* One more point, after or before the others.                              *)
Join ==
  /\ pcid # 0
  /\ pcid' = pcid
  /\ points' \in Seq(PointOf(pcid))
  /\ Len(points') = Len(points) + 1
  /\ Front(points') = points \/ Tail(points') = points

Repeat == pcid # 0 /\ Set(pcid, points \o points)

Passing(d, f) ==
  FoldLeft(LAMBDA kept, a : IF Passes(f, Scaled(pcid, d, a[d])) THEN Append(kept, a) ELSE kept,
           <<>>, points)

Select == pcid # 0 /\ \E d \in Dims(pcid), f \in Filter : Set(pcid, Passing(d, f))

(* count points from the first-th one, or as many as there are.             *)
Window(first, count) ==
  IF first < 1 THEN <<>> ELSE SubSeq(points, first, Min({first + count - 1, Len(points)}))

Slice == pcid # 0 /\ \E first, count \in -1 .. MaxPoints + 1 :
  Set(pcid, Window(first, count))

Sort == pcid # 0 /\ \E keys \in SortKeys(pcid) : \E s \in Sortings(points, keys) : Set(pcid, s)

SetPcid == pcid # 0 /\ \E q \in Pcid, def \in Def :
  /\ SharedDimsAgree(pcid, q)
  /\ Set(q, [i \in DOMAIN points |-> Renamed(points[i], pcid, q, def)])

Transform == pcid # 0 /\ \E q \in Pcid, def \in Def :
  \/ /\ Schema[q].srid = Schema[pcid].srid
     /\ Set(q, [i \in DOMAIN points |-> Transformed(points[i], pcid, q, def)])
  \/ Schema[q].srid # Schema[pcid].srid /\ Set(q, <<>>)

Next == Insert \/ Join \/ Repeat \/ Select \/ Slice \/ Sort \/ SetPcid \/ Transform

Spec == Init /\ [][Next]_vars
=============================================================================
