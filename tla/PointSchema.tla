---------------------------- MODULE PointSchema ----------------------------
(***************************************************************************)
(* Schemas and the values of dimensions (lib/pc_schema.c, lib/pc_val.c).   *)
(* A point is a function from dimension names to raw integers; a value is  *)
(* raw * scale + offset.  Values are in units of the smallest scale, so    *)
(* scales are positive integers; floating point dimensions, which hold     *)
(* their values unrounded, are left out.                                   *)
(***************************************************************************)
EXTENDS Integers, SequencesExt

CONSTANTS
  Pcid,    \* registered pcids
  Schema,  \* Schema[p]: comp, srid, order, interp, scale, offset
  Planar   \* dimensions the header keeps an extent of: x and y

(* order lists the dimensions by position; interp[d], the least and the     *)
(* greatest raw value of the integer type of d, stands for the type.        *)
Dims(p) == ToSet(Schema[p].order)

Raw(p, d) == Schema[p].interp[d].min .. Schema[p].interp[d].max

ASSUME RegisteredAssumption == 0 \notin Pcid
ASSUME SchemaAssumption ==
  \A p \in Pcid :
    /\ Schema[p].comp \in {"none", "dimensional", "laz"}
    /\ Planar \subseteq Dims(p)
    /\ \A d \in Dims(p) : /\ Schema[p].interp[d] \in [min : Int, max : Nat]
                          /\ Schema[p].interp[d].min <= 0
                          /\ Schema[p].scale[d] \in Nat \ {0}
                          /\ Schema[p].offset[d] \in Int

PointOf(p) == {pt \in [Dims(p) -> UNION {Raw(p, d) : d \in Dims(p)}] :
                 \A d \in Dims(p) : pt[d] \in Raw(p, d)}

Scaled(p, d, raw) == raw * Schema[p].scale[d] + Schema[p].offset[d]

(* lround of a quotient: halves away from zero.                             *)
Lround(num, den) ==
  IF num >= 0 THEN (2 * num + den) \div (2 * den) ELSE -((den - 2 * num) \div (2 * den))

Clamp(v, type) == IF v < type.min THEN type.min ELSE IF v > type.max THEN type.max ELSE v

(* Slip: the value is not clamped to the interpretation.                    *)
RawOfUnclamped(p, d, num, den) ==
  Lround(num - Schema[p].offset[d] * den, Schema[p].scale[d] * den)

(* Slip: the value is cast to the interpretation and wraps around.          *)
RawOfWrapped(p, d, num, den) ==
  LET type == Schema[p].interp[d]
      v == Lround(num - Schema[p].offset[d] * den, Schema[p].scale[d] * den)
  IN type.min + ((v - type.min) % (type.max - type.min + 1))

(* pc_point_set_double of the value num / den: unscaled, clamped, rounded.  *)
RawOf(p, d, num, den) ==
  Clamp(Lround(num - Schema[p].offset[d] * den, Schema[p].scale[d] * den), Schema[p].interp[d])

SameDimensions(p, q) ==
  Schema[p].order = Schema[q].order /\ Schema[p].interp = Schema[q].interp

SharedDimsAgree(p, q) ==
  \A d \in Dims(p) \cap Dims(q) : Schema[p].interp[d] = Schema[q].interp[d]

(* The values a dimension takes in a sequence of points.                    *)
ValuesOf(p, d, pts) == {Scaled(p, d, pts[i][d]) : i \in DOMAIN pts}

(* A filter compares values strictly.                                       *)
Passes(f, v) == CASE f.op = "lt"      -> v < f.lo
                  [] f.op = "gt"      -> v > f.lo
                  [] f.op = "eq"      -> v = f.lo
                  [] f.op = "between" -> f.lo < v /\ v < f.hi

(* pc_compare_dim: lexicographic order of raw values along a list of        *)
(* dimensions.                                                              *)
Precedes(a, b, keys) ==
  \A k \in DOMAIN keys :
    (\A j \in 1 .. k - 1 : a[keys[j]] = b[keys[j]]) => a[keys[k]] <= b[keys[k]]

(* Slip: the comparison stops after the first dimension.                    *)
SortingsFirstKey(pts, keys) ==
  {s \in {[i \in DOMAIN pts |-> pts[f[i]]] : f \in Bijection(DOMAIN pts, DOMAIN pts)} :
     \A i \in 1 .. Len(s) - 1 : s[i][keys[1]] <= s[i + 1][keys[1]]}

(* What qsort may return: it is not stable, so points that compare equal    *)
(* come in any order.                                                       *)
Sortings(pts, keys) ==
  {s \in {[i \in DOMAIN pts |-> pts[f[i]]] : f \in Bijection(DOMAIN pts, DOMAIN pts)} :
     \A i \in 1 .. Len(s) - 1 : Precedes(s[i], s[i + 1], keys)}

SortKeys(p) == {<<d>> : d \in Dims(p)} \cup {<<d, e>> : d, e \in Dims(p)}

(* Point a of schema p under schema q: raw values move by name (PC_SetPCId) *)
(* or through the values they stand for (PC_Transform); def fills the rest. *)
Renamed(a, p, q, def) ==
  [d \in Dims(q) |-> IF d \in Dims(p) THEN a[d] ELSE RawOf(q, d, def, 1)]

Transformed(a, p, q, def) ==
  [d \in Dims(q) |-> RawOf(q, d, IF d \in Dims(p) THEN Scaled(p, d, a[d]) ELSE def, 1)]
=============================================================================
