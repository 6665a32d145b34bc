----------------------------- MODULE PatchQuery -----------------------------
(***************************************************************************)
(* Questions asked of a stored patch (PC_PointN, PC_IsSorted,              *)
(* PC_Intersects), answered from the form it is stored in and from its     *)
(* header, over every row that PatchRow can reach.                         *)
(***************************************************************************)
EXTENDS PatchRow

(* PC_PointN: negative n counts from the end.                               *)
PointN(pa, n) ==
  LET k == IF n < 0 THEN pa.npoints + n ELSE n - 1
  IN IF k < 0 \/ k >= pa.npoints THEN NULL
     ELSE IF pa.form = "dimensional"
          THEN [d \in DOMAIN pa.data |-> ValueAt(pa.data[d], k)]
          ELSE pa.data[k + 1]

(* pc_compare_dim: -1, 0 or 1.                                              *)
Compare(a, b, keys) ==
  IF ~Precedes(b, a, keys) THEN -1 ELSE IF Precedes(a, b, keys) THEN 0 ELSE 1

(* Neighbours must compare below strict, which is 0 or 1: the scan rejects  *)
(* a pair when cmp >= strict.                                               *)
UncompressedIsSorted(pts, keys, strict) ==
  \A i \in 1 .. Len(pts) - 1 : Compare(pts[i], pts[i + 1], keys) < strict

(* On runs the loop ends when the next value is the last one of the column, *)
(* so the last pair of runs is not looked at.                               *)
RunLengthIsSorted(runs, strict) ==
  \A k \in 1 .. Len(runs) - 2 :
    LET a == runs[k].v
        b == runs[k + 1].v
    IN (IF a < b THEN -1 ELSE IF a = b THEN 0 ELSE 1) < strict /\ ~(strict = 1 /\ runs[k].n > 1)

(* One dimension of a dimensional patch is scanned in its column.           *)
PatchIsSorted(pa, keys, strict) ==
  IF pa.form = "dimensional" /\ Len(keys) = 1 /\ pa.data[keys[1]].enc = "rle"
  THEN RunLengthIsSorted(pa.data[keys[1]].body, strict)
  ELSE UncompressedIsSorted(Points(pa), keys, strict)

(* Slip: boxes that touch at a corner are kept apart.                       *)
BoundsIntersectInside(b1, b2) ==
  \A d \in Planar : ~(b1[d].min >= b2[d].max \/ b2[d].min >= b1[d].max)

(* PC_Intersects.                                                           *)
BoundsIntersect(b1, b2) ==
  \A d \in Planar : ~(b1[d].min > b2[d].max \/ b2[d].min > b1[d].max)

-----------------------------------------------------------------------------
InOrder(pts, keys) == \A i \in 1 .. Len(pts) - 1 : Precedes(pts[i], pts[i + 1], keys)

(* PC_PointN finds in every form of a patch the point that decoding it      *)
(* would give, from either end, and NULL outside.                           *)
PointNAgrees ==
  row # NULL => \A n \in -row.npoints - 1 .. row.npoints + 1 :
    PointN(row, n) = CASE n \in 1 .. row.npoints   -> Points(row)[n]
                       [] n \in -row.npoints .. -1 -> Points(row)[row.npoints + 1 + n]
                       [] OTHER                    -> NULL

(* A patch that PC_IsSorted accepts, in either mode, is in order along the  *)
(* dimensions asked.                                                        *)
SortedMeansInOrder ==
  row # NULL => \A keys \in SortKeys(row.pcid), strict \in {0, 1} :
    PatchIsSorted(row, keys, strict) => InOrder(Points(row), keys)

(* PC_Intersects never denies a patch that shares a point with the row.     *)
SharedPointIntersects ==
  row # NULL => \A i \in 1 .. row.npoints :
    BoundsIntersect(row.bounds, Extent(row.pcid, <<Points(row)[i]>>))

(* What PC_Sort returns is sorted for PC_IsSorted in the mode that allows   *)
(* equal neighbours, whatever form the result is stored in.                 *)
SortedAfterSort ==
  [][\A keys \in (IF row = NULL THEN {} ELSE SortKeys(row.pcid)) :
       SortRow(keys) => PatchIsSorted(row', keys, 1)]_row

(* A patch in order stays in order, whatever form and encoding it takes:    *)
(* unless points are added, what PC_IsSorted accepts of the decoded points, *)
(* in either mode, only PC_Sort along other dimensions undoes.              *)
(* PC_Transform clamps and rounds, which makes values equal and lets the    *)
(* second dimension decide, but along one dimension it never turns two      *)
(* points around.                                                           *)
OrderSurvives ==
  [][row # NULL /\ row' # NULL /\ row'.npoints <= row.npoints =>
       \A keys \in SortKeys(row.pcid) \cap SortKeys(row'.pcid), strict \in {0, 1} :
         UncompressedIsSorted(Points(row), keys, strict) =>
           \/ UncompressedIsSorted(Points(row'), keys, strict)
           \/ \E other \in SortKeys(row.pcid) : SortRow(other)
           \/ /\ strict = 0 \/ Len(keys) = 2
              /\ \E q \in Pcid, def \in Def : Transform(q, def)]_row
=============================================================================
