----------------------------- MODULE RunColumn -----------------------------
(***************************************************************************)
(* The life of one column: encoded, filtered any number of times in its    *)
(* encoding, decoded and encoded again (compression changes, PC_Union of   *)
(* one patch).  pts is what the column should stand for.  Filtering leaves *)
(* runs that a fresh encoding would not produce: short neighbours with the *)
(* same value.                                                             *)
(***************************************************************************)
EXTENDS RunLength

CONSTANTS
  Val,      \* raw values
  Enc,      \* encodings
  MaxLen    \* bound on the length of a column

ASSUME ColumnAssumption == Val \subseteq Int /\ MaxLen \in Nat \ {0}

VARIABLES
  col,    \* the PCBYTES
  pts     \* the values it stands for

vars == <<col, pts>>

Vals == UNION {[1 .. n -> Val] : n \in 1 .. MaxLen}

Init == \E vals \in Vals, enc \in Enc : col = Column(enc, vals) /\ pts = vals

(* A filter keeps a non-empty set of points; empty results never reach the  *)
(* columns.                                                                 *)
FilterColumn(map) ==
  /\ \E i \in DOMAIN map : map[i]
  /\ col' = ColumnFilter(col, map)
  /\ pts' = Marked(pts, map)

Recode(enc) ==
  /\ col' = Column(enc, Values(col))
  /\ UNCHANGED pts

Next ==
  \/ \E map \in [DOMAIN pts -> BOOLEAN] : FilterColumn(map)
  \/ \E enc \in Enc : Recode(enc)

Spec == Init /\ [][Next]_vars

-----------------------------------------------------------------------------
(* Every run holds 1 .. MaxRun values, so no count byte wraps and is_sorted *)
(* may assert run > 0; there is at most one run per value, which is what    *)
(* pc_bytes_run_length_encode allocates for.                                *)
TypeOK ==
  /\ col.enc \in Enc
  /\ pts \in Vals
  /\ col.enc = "rle" => /\ \A k \in DOMAIN col.body : col.body[k].n \in 1 .. MaxRun
                        /\ Len(col.body) <= Len(pts)

(* Decoding returns the values, whatever filters ran on the encoded form.   *)
ValuesMatch == Values(col) = pts

(* pc_bytes_to_ptr (PC_PointN) finds each value without decoding the runs.  *)
PositionsMatch == \A n \in DOMAIN pts : ValueAt(col, n - 1) = pts[n]

(* A bitmap computed run by run marks the points a filter should keep.      *)
BitmapMatches ==
  \A accepted \in SUBSET Val :
    Bitmap(col, accepted) = [i \in DOMAIN pts |-> pts[i] \in accepted]

(* Minimum, maximum and sum of the runs are those of the points: the extent *)
(* and the statistics of a dimensional patch are computed from them.        *)
AggregatesMatch ==
  /\ ColumnMin(col) = Min(ToSet(pts))
  /\ ColumnMax(col) = Max(ToSet(pts))
  /\ ColumnSum(col) = FoldLeft(+, 0, pts)

(* Whatever filters ran on the encoded form, it answers like the values it  *)
(* stands for: decoded, looked into, compared, or summed up run by run.     *)
ColumnAnswers == ValuesMatch /\ PositionsMatch /\ BitmapMatches /\ AggregatesMatch
=============================================================================
