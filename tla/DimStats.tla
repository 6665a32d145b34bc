------------------------------ MODULE DimStats ------------------------------
(***************************************************************************)
(* lib/pc_dimstats.c: the statistics from which the encoding of a          *)
(* dimension is chosen, and their three users.  A patch compressed without *)
(* statistics is its own sample.  A caller that passes one PCDIMSTATS to   *)
(* pc_patch_dimensional_compress patch after patch samples the first       *)
(* patches, and keeps the choice once it has seen MinSample points.        *)
(* PC_Compress samples its patch, overrides the choice and then pretends   *)
(* that the sample is complete.                                            *)
(*                                                                         *)
(* One dimension is followed, and pds is what its PCDIMSTAT and the two    *)
(* totals of the PCDIMSTATS hold between the calls.                        *)
(***************************************************************************)
EXTENDS RunColumn

CONSTANTS
  Dims,        \* dimensions: records of a size in bytes and double, a BOOLEAN
  SampleVal,   \* raw values of the patches compressed with shared statistics
  MinSample,   \* PCDIMSTATS_MIN_SAMPLE: 10000
  NULL

(* Raw values are words of this many bytes.                                 *)
Fits(size) == \E k \in 0 .. 8 * size : \A v \in Val : v \div 2 ^ k = 0

ASSUME DimsAssumption ==
  /\ Dims \subseteq [size : {1, 2, 4, 8}, double : BOOLEAN]
  /\ \A dim \in Dims : Fits(dim.size)
  /\ SampleVal \subseteq Val /\ Val \subseteq Nat
  /\ MinSample \in Nat \ {0}
  /\ {"rle", "sigbits", "zlib"} \subseteq Enc /\ "auto" \notin Enc

VARIABLE pds   \* NULL: no caller shares statistics

statsVars == <<col, pts, pds>>

(* pc_dimstats_make: zeroed memory, in which the encoding is PC_DIM_NONE.   *)
Made(dim) == [dim |-> dim, points |-> 0, patches |-> 0, runs |-> 0, bits |-> 0, choice |-> "none"]

(* pc_bytes_sigbits_count: the AND and the OR of the values are shifted     *)
(* right until they agree, which is when all the values do.                 *)
Agree(vals, k) == \A i, j \in DOMAIN vals : vals[i] \div 2 ^ k = vals[j] \div 2 ^ k

CommonBits(size, vals) ==
  8 * size - CHOOSE k \in 0 .. 8 * size :
               Agree(vals, k) /\ (k > 0 => ~ Agree(vals, k - 1))

(* Slip: the head of each encoded patch is not counted.                     *)
RecommendedHeadless(s) ==
  LET raw    == s.points * s.dim.size
      unique == 8 * s.dim.size - s.bits \div s.patches
  IN IF s.dim.double THEN "zlib"
     ELSE IF raw > 4 * s.runs * (s.dim.size + 1) THEN "rle"
     ELSE IF 10 * 8 * raw > 16 * s.points * unique THEN "sigbits"
     ELSE "zlib"

(* Sizes are in bits, and the ratios 1.6 and 4.0 multiplied out; the        *)
(* average of the common bits is an integer division.                       *)
Recommended(s) ==
  LET raw     == s.points * s.dim.size
      unique  == 8 * s.dim.size - s.bits \div s.patches
      sigbits == 8 * s.patches * 2 * s.dim.size + s.points * unique
  IN IF s.dim.double THEN "zlib"
     ELSE IF raw > 4 * s.runs * (s.dim.size + 1) THEN "rle"
     ELSE IF 10 * 8 * raw > 16 * sigbits THEN "sigbits"
     ELSE "zlib"

(* pc_dimstats_update with one more patch.                                  *)
Updated(s, vals) ==
  LET counted == [s EXCEPT !.points = @ + Len(vals),
                           !.patches = @ + 1,
                           !.runs = @ + RunCount(vals),
                           !.bits = @ + CommonBits(s.dim.size, vals)]
  IN [counted EXCEPT !.choice = Recommended(counted)]

(* Slip: every patch is sampled.                                            *)
SampledAlways(s, vals) == Updated(s, vals)

(* Still sampling, update stats.                                            *)
Sampled(s, vals) == IF s.points < MinSample THEN Updated(s, vals) ELSE s

(* Slip: the sample of one patch is not declared complete.                  *)
OverriddenOnly(s, enc) == [s EXCEPT !.choice = IF enc = "auto" THEN @ ELSE enc]

(* The configuration of PC_Compress names an encoding for the dimension or  *)
(* leaves it to the statistics, and makes sure to avoid stat updates.       *)
Overridden(s, enc) ==
  [s EXCEPT !.points = MinSample + 1, !.choice = IF enc = "auto" THEN @ ELSE enc]

-----------------------------------------------------------------------------
SharedInit == Init /\ pds = NULL

(* A filter of the patch, or a new encoding chosen by an earlier version.   *)
ColumnStep == pds = NULL /\ Next /\ UNCHANGED pds

(* pc_patch_dimensional_compress of a column of vals with statistics s; the *)
(* choice is read after the update.                                         *)
CompressWith(s, vals) ==
  /\ pts' = vals
  /\ col' = Column(Sampled(s, vals).choice, vals)

(* No statistics are passed: they are made, used and freed.                 *)
CompressAlone(dim) ==
  /\ pds = NULL
  /\ CompressWith(Made(dim), Values(col))
  /\ UNCHANGED pds

(* The caller passes the statistics it made for the first patch, and those  *)
(* the last call left for the next ones.                                    *)
CompressShared(dim, vals) ==
  LET s == IF pds = NULL THEN Made(dim) ELSE pds
  IN /\ pds # NULL => dim = pds.dim
     /\ CompressWith(s, vals)
     /\ pds' = Sampled(s, vals)

(* pc_dimstats_free.                                                        *)
Free ==
  /\ pds # NULL
  /\ pds' = NULL
  /\ UNCHANGED <<col, pts>>

(* PC_Compress(p, 'dimensional', ...).                                      *)
PcCompress(dim, enc) ==
  /\ pds = NULL
  /\ CompressWith(Overridden(Updated(Made(dim), Values(col)), enc), Values(col))
  /\ UNCHANGED pds

SampleVals == UNION {[1 .. n -> SampleVal] : n \in 1 .. MaxLen}

SharedNext ==
  \/ ColumnStep
  \/ Free
  \/ \E dim \in Dims :
       \/ CompressAlone(dim)
       \/ \E vals \in SampleVals : CompressShared(dim, vals)
       \/ \E enc \in Enc \cup {"auto"} : PcCompress(dim, enc)

SharedSpec == SharedInit /\ [][SharedNext]_statsVars

-----------------------------------------------------------------------------
(* The size the encoder gives a column of the recommended encoding: a count *)
(* byte and a value for each run, cut at MaxRun; a head of two words and    *)
(* the packed bits, rounded up to whole words.                              *)
EncodedSize(dim, enc, vals) ==
  LET n    == dim.size
      bits == 8 * n - CommonBits(n, vals)
      raw  == (bits * Len(vals)) \div 8 + 1 + 2 * n
  IN CASE enc = "rle"                 -> Len(RunLengthEncode(vals)) * (n + 1)
       [] enc = "sigbits" /\ n = 1    -> raw
       [] enc = "sigbits" /\ n = 2    -> raw + (raw % 2)
       [] enc = "sigbits" /\ n > 2    -> raw + (n - (raw % n))

(* An encoding chosen by estimated sizes must pay: whenever the statistics  *)
(* of a patch recommend run lengths or significant bits for it, the column  *)
(* that the encoder then writes, with its counts cut at MaxRun and its      *)
(* padding, is smaller than the bytes it replaces.                          *)
RecommendationShrinks ==
  \A dim \in [size : {1, 2, 4, 8}, double : {FALSE}] :
    LET enc == Updated(Made(dim), pts).choice
    IN Fits(dim.size) /\ enc # "zlib" => EncodedSize(dim, enc, pts) < dim.size * Len(pts)

(* The encoding a user names for PC_Compress is the one the column gets,    *)
(* although the function that compresses the patch samples it once more.    *)
OverrideSticks ==
  [][\A dim \in Dims, enc \in Enc : PcCompress(dim, enc) => col'.enc = enc]_statsVars

(* Shared statistics stay what one pass over a bounded sample counts: no    *)
(* patch without a run, no run without a point, no more common bits than    *)
(* the words have, so that the estimated unique bits are never negative;    *)
(* and sampling ends with the patch that reaches MinSample.                 *)
SampleBounded ==
  pds # NULL =>
    /\ pds.patches \in 1 .. pds.runs
    /\ pds.runs <= pds.points
    /\ pds.bits <= pds.patches * 8 * pds.dim.size
    /\ pds.points < MinSample + MaxLen
    /\ pds.choice # "none"
=============================================================================
