---------------------------- MODULE MCPatchQuery ----------------------------
(* The queries on the rows of MCPatchRow.                                   *)
EXTENDS MCPatchRow, PatchQuery

(* What a function answers without decoding the patch, from its statistics, *)
(* bounds, bitmaps and positions, is what the points say: PC_Filter,        *)
(* PC_Range, PC_PointN and PC_Intersects, for every row and every argument. *)
AnswersExact == CallsExact /\ PointNAgrees /\ SharedPointIntersects
=============================================================================
