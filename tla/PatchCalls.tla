----------------------------- MODULE PatchCalls -----------------------------
(***************************************************************************)
(* The library functions that make, convert and take apart patches, as     *)
(* programs of Ownership.  d receives the result, s is the argument; the   *)
(* other names are the C functions' own variables.  Patches have points:   *)
(* none of these functions is called on an empty patch read from storage.  *)
(***************************************************************************)
EXTENDS Ownership

Forms == {"none", "dim", "laz"}     \* PC_NONE, PC_DIMENSIONAL, PC_LAZPERF
Nop == <<>>

(* Slip: the conversion is freed whether or not it is the input.            *)
FreeAnyway(v, s) == <<Free(v)>>

(* The pattern of every conversion that may return its input.               *)
FreeUnlessSame(v, s) == <<IfSame(v, s, Nop, <<Free(v)>>)>>

UncompressedMake(d, s) == <<Alloc(d, "none", s), OwnData(d, s)>>
EmptyPatch(d, s) == <<Alloc(d, "none", s)>>

-----------------------------------------------------------------------------
DimensionalDecompress(d, s) == <<Alloc(d, "dim", s), CloneStats(d, s), OwnData(d, s)>>

UncompressedFromDimensional(d, s) ==
  <<Alloc(d, "none", s), CloneStats(d, s), OwnData(d, s)>>
  \o DimensionalDecompress("pdl_uncompressed", s) \o <<Read("pdl_uncompressed"), Free("pdl_uncompressed")>>

UncompressedFromLazperf(d, s) == <<Read(s), Alloc(d, "none", s), CloneStats(d, s), OwnData(d, s)>>

LazperfFromUncompressed(d, s) == <<Read(s), Alloc(d, "laz", s), OwnData(d, s), CloneStats(d, s)>>

DimensionalFromUncompressed(d, s) == <<Alloc(d, "dim", s), CloneStats(d, s), OwnData(d, s)>>

(* Without statistics from the caller, its own are made and freed.          *)
DimensionalCompress(d, s, pds) ==
  (IF pds = NULL THEN <<Alloc("pds", "dimstats", s)>> ELSE <<Read(pds)>>)
  \o <<Alloc(d, "dim", s), CloneStats(d, s), OwnData(d, s)>>
  \o (IF pds = NULL THEN <<Free("pds")>> ELSE Nop)

Uncompress(d, s) ==
  <<ByType(s, [dim  |-> UncompressedFromDimensional(d, s),
               none |-> <<Alias(d, s)>>,
               laz  |-> UncompressedFromLazperf(d, s)])>>

(* From LAZ to dimensions the points in between (pcu) stay behind.          *)
Compress(d, s, pds) ==
  <<ByTarget(s,
      [dim  |-> <<ByType(s,
         [none |-> DimensionalFromUncompressed("pcdu", s) \o DimensionalCompress(d, "pcdu", pds) \o <<Free("pcdu")>>,
          dim  |-> DimensionalCompress(d, s, pds),
          laz  |-> UncompressedFromLazperf("pcu", s) \o DimensionalFromUncompressed("pal", "pcu")
                   \o DimensionalCompress(d, "pal", NULL) \o <<Free("pal")>>])>>,
       none |-> Uncompress(d, s),
       laz  |-> <<ByType(s,
         [none |-> LazperfFromUncompressed(d, s),
          dim  |-> UncompressedFromDimensional("pad", s) \o LazperfFromUncompressed(d, "pad") \o <<Free("pad")>>,
          laz  |-> <<Alias(d, s)>>])>>])>>

-----------------------------------------------------------------------------
UncompressedComputeExtent(s) ==
  <<Alloc("pt_extent", "point", s), Borrow("pt_extent", s), Read("pt_extent"), Free("pt_extent")>>

(* For LAZ the decompressed patch (pau) stays behind.                       *)
ComputeExtent(s) ==
  <<ByType(s, [none |-> UncompressedComputeExtent(s),
               dim  |-> <<Read(s)>>,
               laz  |-> UncompressedFromLazperf("pau", s) \o UncompressedComputeExtent("pau")])>>

UncompressedComputeStats(s) ==
  <<Alloc("dstats", "dstats", s), Read(s), NewStats(s), Free("dstats")>>

(* Dimensional patches take the statistics over, LAZ patches copy them.     *)
ComputeStats(s) ==
  <<ByType(s,
      [none |-> UncompressedComputeStats(s),
       dim  |-> UncompressedFromDimensional("pu", s) \o UncompressedComputeStats("pu")
                \o <<MoveStats(s, "pu"), Free("pu")>>,
       laz  |-> UncompressedFromLazperf("pu", s) \o UncompressedComputeStats("pu")
                \o <<CloneStats(s, "pu"), Free("pu")>>])>>

(* Reading WKB: the patch owns copies of the data in any form.              *)
PatchFromWkb(d, wkb, schema) ==
  <<Either(<< <<Alloc(d, "none", schema), OwnData(d, wkb)>>,
              <<Alloc(d, "dim", schema), OwnData(d, wkb)>>,
              <<Alloc(d, "laz", schema), OwnData(d, wkb)>> >>)>>
  \o ComputeExtent(d) \o ComputeStats(d)

PatchToWkb(d, s) == <<Read(s), Alloc(d, "bytes", NULL)>>

PatchToString(d, s) ==
  LET text(v) == <<Read(v), Alloc(d, "bytes", NULL)>>
  IN <<ByType(s, [none |-> text(s),
                  dim  |-> UncompressedFromDimensional("pts", s) \o text("pts") \o <<Free("pts")>>,
                  laz  |-> UncompressedFromLazperf("pts", s) \o text("pts") \o <<Free("pts")>>])>>

-----------------------------------------------------------------------------
PointDeserialize(d, s, schema) == <<Alloc(d, "point", schema), Borrow(d, s)>>
PointMake(d, schema) == <<Alloc(d, "point", schema), OwnData(d, schema)>>
PointSerialize(d, s) == <<Read(s), Alloc(d, "bytes", NULL)>>

(* A list of points is one block with its points; mem is its data.          *)
PointlistFromUncompressed(d, s) == <<Alloc(d, "points", s), Borrow(d, s)>>

PointlistFromDimensional(d, s) ==
  DimensionalDecompress("pdl_list", s)
  \o <<Alloc(d, "points", s), OwnData(d, "pdl_list"), Free("pdl_list")>>

PointlistFromLazperf(d, s) ==
  UncompressedFromLazperf("pu", s) \o PointlistFromUncompressed(d, "pu")
  \o <<MoveData(d, "pu"), Free("pu")>>

PointlistFromPatch(d, s) ==
  <<ByType(s, [none |-> PointlistFromUncompressed(d, s),
               dim  |-> PointlistFromDimensional(d, s),
               laz  |-> PointlistFromLazperf(d, s)])>>

PatchFromPointlist(d, pl) ==
  <<Read(pl), Alloc(d, "none", pl), OwnData(d, pl)>>
  \o UncompressedComputeExtent(d) \o UncompressedComputeStats(d)

(* One patch of the union: others than plain ones through a temporary.      *)
CopyPointsOf(s) ==
  <<ByType(s, [none |-> <<Read(s)>>,
               dim  |-> UncompressedFromDimensional("pu", s) \o <<Read("pu"), Free("pu")>>,
               laz  |-> UncompressedFromLazperf("pu", s) \o <<Read("pu"), Free("pu")>>])>>

PatchRange(d, s) ==
  <<Either(<< <<Null(d)>>, <<Alias(d, s)>>,
              UncompressedMake(d, s) \o Uncompress("pu", s) \o <<Read("pu")>> \o FreeUnlessSame("pu", s)
              \o UncompressedComputeExtent(d) \o UncompressedComputeStats(d) >>)>>

(* The point of a plain patch points into the patch's own data.             *)
PatchPointN(d, s) ==
  <<Either(<< <<Null(d)>>,
              <<ByType(s, [none |-> <<Alloc(d, "point", s), Borrow(d, s)>>,
                           dim  |-> <<Alloc(d, "point", s), OwnData(d, s)>>,
                           laz  |-> PointMake(d, s) \o UncompressedFromLazperf("pau", s)
                                    \o <<Read("pau"), Free("pau")>>])>> >>)>>

PatchSort(d, s) ==
  <<Alloc("dim", "list", NULL)>> \o Uncompress("pu", s) \o UncompressedMake(d, "pu")
  \o <<CloneStats(d, "pu"), Free("dim")>> \o FreeUnlessSame("pu", s)

PatchIsSorted(s) ==
  LET scan == UncompressedFromDimensional("pu", s) \o <<Read("pu"), Free("pu")>>
  IN <<Alloc("dim", "list", NULL),
       ByType(s, [none |-> <<Read(s)>>,
                  dim  |-> <<Either(<< scan, <<Read(s)>>,
                                       <<Alloc("dpcb", "bytes", NULL), Read(s), Free("dpcb")>> >>)>>,
                  laz  |-> UncompressedFromLazperf("pu", s) \o <<Read("pu"), Free("pu")>>]),
       Free("dim")>>

-----------------------------------------------------------------------------
UncompressedFilter(d, s) ==
  UncompressedMake(d, s) \o <<Read(s)>> \o UncompressedComputeExtent(d) \o UncompressedComputeStats(d)

DimensionalFilter(d, s) == <<Alloc(d, "dim", s), CloneStats(d, s), OwnData(d, s)>>

(* The points of s are in pts; the bitmap tells whether any is left.        *)
ThroughBitmap(d, s, pts, filtered, cleanup) ==
  <<Read(pts), Alloc("map", "bitmap", NULL),
    Either(<< <<Free("map")>> \o cleanup \o EmptyPatch(d, s), filtered \o <<Free("map")>> \o cleanup >>)>>

PatchFilter(d, s) ==
  <<Either(<< <<Read(s)>> \o EmptyPatch(d, s),
              <<ByType(s,
                 [none |-> ThroughBitmap(d, s, s, UncompressedFilter(d, s), Nop),
                  dim  |-> ThroughBitmap(d, s, s, DimensionalFilter(d, s), Nop),
                  laz  |-> UncompressedFromLazperf("pau", s)
                           \o ThroughBitmap(d, s, "pau", UncompressedFilter(d, "pau"), <<Free("pau")>>)])>> >>)>>

PatchSetSchema(d, s, schema) ==
  PointMake("dpt", schema) \o Uncompress("pain", s) \o UncompressedMake(d, schema)
  \o <<Read("pain"), Read("dpt"), NewStats(d), Read(s), Free("dpt")>> \o FreeUnlessSame("pain", s)

(* Schemas with different srids: a warning and no patch.                    *)
PatchTransform(d, s, schema) ==
  <<Either(<< <<Null(d)>>,
              Uncompress("pain", s) \o UncompressedMake(d, schema) \o <<Read("pain")>> \o FreeUnlessSame("pain", s)
              \o UncompressedComputeExtent(d) \o UncompressedComputeStats(d) >>)>>

-----------------------------------------------------------------------------
(* Stored bytes have the form of the patch they were made of.               *)
Encode(d, s) == <<NeedStats(s), ByType(s, [f \in Forms |-> <<Alloc(d, f, NULL)>>])>>

PatchSerialize(d, s, pds) ==
  <<NeedStats(s),
    ByTarget(s, [f \in Forms |->
      <<ByType(s, [g \in Forms |->
          IF f = g THEN <<Alias("converted", s)>> ELSE Compress("converted", s, pds)])>>])>>
  \o Encode(d, "converted") \o FreeUnlessSame("converted", s)

SerializeToUncompressed(d, s) ==
  Uncompress("converted", s) \o Encode(d, "converted") \o FreeUnlessSame("converted", s)

DeserializeAs(f, d, s, schema) ==
  <<Alloc(d, f, schema), BorrowStats(d, s)>> \o (IF f = "laz" THEN <<OwnData(d, s)>> ELSE <<Borrow(d, s)>>)

PatchDeserialize(d, s, schema) ==
  <<ByType(s, [f \in Forms |-> DeserializeAs(f, d, s, schema)])>>
=============================================================================
