------------------------------ MODULE SqlCalls ------------------------------
(***************************************************************************)
(* The SQL functions of the extension as programs of Ownership.  "row" is  *)
(* the stored value the statement is at, "ring" and "ring2" are schemas in *)
(* the cache of the call site, "state" is the state of an aggregate.       *)
(***************************************************************************)
EXTENDS PatchCalls

(* An argument is detoasted into a copy or used in place; a header slice is *)
(* always a copy.                                                           *)
Copied(v) == <<ByType("row", [f \in Forms |-> <<Alloc(v, f, NULL), Read("row")>>])>>
GetArg(v) == <<Either(<< <<Alias(v, "row")>>, Copied(v) >>)>>

(* Slip: pfree whatever the argument is.                                    *)
FreeArgument(v) == <<Free(v)>>

(* PG_FREE_IF_COPY.                                                         *)
FreeIfCopy(v) == FreeUnlessSame(v, "row")
FromPcid(v) == <<Alias(v, "ring")>>

GetPatch(patch, ser) == GetArg(ser) \o FromPcid("schema") \o PatchDeserialize(patch, ser, "schema")
GetPoint(pt, ser) == GetArg(ser) \o FromPcid("schema") \o PointDeserialize(pt, ser, "schema")
ReturnPatch(out, patch) == PatchSerialize(out, patch, NULL) \o <<Free(patch), Return(out)>>

(* Slip: the point is left behind.                                          *)
ReturnPointKept(out, pt) == PointSerialize(out, pt) \o <<Return(out)>>

ReturnPoint(out, pt) == PointSerialize(out, pt) \o <<Free(pt), Return(out)>>

-----------------------------------------------------------------------------
pcpoint_get_value ==
  GetPoint("pt", "serpt")
  \o <<Alloc("dim_str", "bytes", NULL), Read("pt"), Free("dim_str"), Free("pt"),
       Alloc("numeric", "bytes", NULL), Return("numeric")>>

pcpoint_get_values ==
  GetPoint("pt", "serpt")
  \o <<Alloc("elems", "bytes", NULL), Alloc("vals", "bytes", NULL), Read("pt"), Free("vals"),
       Alloc("result", "bytes", NULL), Free("pt"), Return("result")>>

pcpoint_in ==
  <<Alloc("wkb", "bytes", NULL)>> \o FromPcid("schema") \o <<Alloc("pt", "point", "schema"), OwnData("pt", "wkb"), Free("wkb")>>
  \o ReturnPoint("serpt", "pt")

pcpoint_from_double_array == FromPcid("schema") \o PointMake("pt", "schema") \o ReturnPoint("serpt", "pt")

(* pcpoint_out, pcpoint_as_text, pcpoint_as_bytea: through a buffer.        *)
pcpoint_out ==
  GetPoint("pt", "serpt")
  \o <<Read("pt"), Alloc("bytes", "bytes", NULL), Alloc("text", "bytes", NULL), Free("pt"), Free("bytes"), Return("text")>>

pcpatch_in ==
  <<Alloc("wkb", "bytes", NULL)>> \o FromPcid("schema") \o PatchFromWkb("patch", "wkb", "schema")
  \o <<Free("wkb")>> \o ReturnPatch("serpatch", "patch")

pcpatch_out ==
  GetPatch("patch", "serpatch") \o PatchToWkb("wkb", "patch")
  \o <<Alloc("hexwkb", "bytes", NULL), Free("wkb"), Free("patch"), Return("hexwkb")>>

pcpatch_as_text ==
  GetPatch("patch", "serpatch") \o PatchToString("str", "patch")
  \o <<Free("patch"), Alloc("txt", "bytes", NULL), Free("str"), Return("txt")>>

pcpatch_envelope_as_bytea ==
  Copied("serpatch") \o FromPcid("schema")
  \o <<Read("serpatch"), Alloc("bytes", "bytes", NULL), Alloc("wkb", "bytes", NULL), Free("bytes"), Return("wkb")>>

(* The statistics, read out of a slice that may first have been too short.  *)
StatsOf(ser) ==
  Copied(ser) \o FromPcid("schema") \o <<Either(<< Nop, Copied(ser) >>)>>
  \o <<Alloc("stats", "stats", "schema"), Borrow("stats", ser)>>

pcpatch_bounding_diagonal_as_bytea ==
  StatsOf("serpatch")
  \o <<Read("stats"), Alloc("bytes", "bytes", NULL), Free("stats"), Alloc("wkb", "bytes", NULL), Free("bytes"), Return("wkb")>>

pcpatch_get_stat ==
  StatsOf("serpa")
  \o <<Either(<< PointSerialize("serpt", "stats") \o <<Free("stats"), Return("serpt")>>,
                 <<Alloc("dim_str", "bytes", NULL), Read("stats"), Free("stats"), Free("dim_str"),
                   Alloc("numeric", "bytes", NULL), Return("numeric")>> >>)>>

(* Neither the patch nor its statistics are freed here.                     *)
pcpatch_summary ==
  Copied("serpa") \o FromPcid("schema")
  \o <<ByType("row", [f \in Forms |->
         IF f = "dim" THEN GetArg("serpa") \o PatchDeserialize("patch", "serpa", "schema") \o <<Read("patch")>>
         ELSE <<Either(<< Nop, Copied("serpa") >>)>>])>>
  \o <<Alloc("stats", "stats", "schema"), Borrow("stats", "serpa"), Read("stats"),
       Alloc("ret", "bytes", NULL), Return("ret")>>

pcpatch_enforce_typmod == GetArg("arg") \o <<Read("arg"), Return("arg")>>

-----------------------------------------------------------------------------
pcpatch_uncompress ==
  GetPatch("patch", "serpa") \o SerializeToUncompressed("serpa_out", "patch")
  \o <<Free("patch"), Return("serpa_out")>>

(* schema: the cached one; clone: the copy installed in the patch, with the *)
(* compression asked for.  The counters (stats) are not freed.              *)
pcpatch_compress ==
  LET clone == <<ByType("schema", [f \in Forms |-> <<Alloc("clone", f, NULL), Read("schema")>>])>>
      cloneAs(f) == <<Read("schema"), Alloc("clone", f, NULL)>>
      finish(stats) ==
        <<SetSchema("pa", "clone")>> \o PatchSerialize("serpa_out", "pa", stats)
        \o FreeUnlessSame("pa", "patch_in") \o <<Free("patch_in"), Free("clone"), Return("serpa_out")>>
  IN GetPatch("patch_in", "serpa") \o Uncompress("pa", "patch_in")
     \o <<Either(<< clone \o finish(NULL),
                    cloneAs("laz") \o finish(NULL),
                    cloneAs("dim") \o DimensionalFromUncompressed("pdl", "pa")
                      \o <<Alloc("stats", "dimstats", NULL), Read("clone"), Read("pdl")>>
                      \o FreeUnlessSame("pa", "patch_in") \o DimensionalCompress("pa", "pdl", "stats")
                      \o <<Free("pdl")>> \o finish("stats") >>)>>

pcpatch_pointn ==
  GetPatch("patch", "serpa") \o PatchPointN("pt", "patch")
  \o <<Free("patch"), IfNull("pt", <<ReturnNull>>, ReturnPoint("serpt", "pt"))>>

pcpatch_range ==
  GetPatch("patch", "serpa") \o PatchRange("patchout", "patch") \o FreeUnlessSame("patch", "patchout")
  \o <<IfNull("patchout", <<ReturnNull>>, ReturnPatch("serpaout", "patchout"))>>

(* Slip: an empty result is serialized like any other.                      *)
FilteredEmpty(patch) == ReturnPatch("serpatch_filtered", patch)

(* An empty result has no statistics: it is freed, never serialized.        *)
Filtered(patch) ==
  <<IfEmpty(patch, <<Free(patch), ReturnNull>>, ReturnPatch("serpatch_filtered", patch))>>

pcpatch_filter ==
  GetArg("serpatch") \o FromPcid("schema") \o <<Alloc("dim_name", "bytes", NULL)>>
  \o PatchDeserialize("patch", "serpatch", "schema") \o PatchFilter("patch_filtered", "patch")
  \o <<Free("patch")>> \o FreeIfCopy("serpatch") \o <<Free("dim_name")>> \o Filtered("patch_filtered")

(* Slip: the argument is freed before it is returned.                       *)
SortByNothingFreed == FreeIfCopy("serpatch") \o <<Return("serpatch")>>

(* Without names the argument itself is the result.                         *)
SortByNothing == <<Return("serpatch")>>

pcpatch_sort ==
  GetArg("serpatch")
  \o <<Either(<< SortByNothing,
         <<Alloc("dim_name", "list", NULL)>> \o FromPcid("schema")
           \o PatchDeserialize("patch", "serpatch", "schema") \o PatchSort("patch_sorted", "patch")
           \o <<Free("dim_name"), Free("patch")>> \o FreeIfCopy("serpatch")
           \o ReturnPatch("serpatch_sorted", "patch_sorted") >>)>>

pcpatch_is_sorted ==
  <<Alloc("dim_name", "list", NULL)>> \o GetPatch("patch", "serpatch") \o PatchIsSorted("patch")
  \o <<Free("dim_name"), Free("patch"), ReturnNull>>

(* Same dimensions: the bytes are copied, or only the schema is exchanged.  *)
pcpatch_setpcid ==
  LET copyBytes == <<Read("serpa"), ByType("serpa", [f \in Forms |-> <<Alloc("serpatch", f, NULL)>>]), Return("serpatch")>>
      otherForm == PatchDeserialize("paout", "serpa", "oschema") \o <<SetSchema("paout", "nschema")>>
                   \o ReturnPatch("serpatch", "paout")
  IN GetArg("serpa") \o FromPcid("oschema")
     \o <<Alias("nschema", "ring2"),
          Either(<< <<ByType("oschema", [f \in Forms |->
                        <<ByType("nschema", [g \in Forms |-> IF f = g THEN copyBytes ELSE otherForm])>>])>>,
                    PatchDeserialize("patch", "serpa", "oschema") \o PatchSetSchema("paout", "patch", "nschema")
                      \o FreeUnlessSame("patch", "paout") \o ReturnPatch("serpatch", "paout") >>)>>

pcpatch_transform ==
  GetPatch("patch", "serpa") \o <<Alias("nschema", "ring2")>> \o PatchTransform("paout", "patch", "nschema")
  \o <<Free("patch"), IfNull("paout", <<ReturnNull>>, ReturnPatch("serpatch", "paout"))>>
-----------------------------------------------------------------------------
(* Arrays: the points point into the array, which must outlive the list.    *)
PatchFromPointArray(pa, array) ==
  <<Either(<< <<Null(pa)>>,                                           \* empty array
              <<Alloc("pl", "points", "schema"), Null(pa)>>,          \* only NULLs
              <<Alloc("pl", "points", "schema"), Borrow("pl", array)>>
                \o PatchFromPointlist(pa, "pl") \o <<Free("pl")>> >>)>>

(* The elements of one array may be stored in different forms.              *)
DeserializeElement(d, array) ==
  <<Either(<< DeserializeAs("none", d, array, "schema"), DeserializeAs("dim", d, array, "schema"),
              DeserializeAs("laz", d, array, "schema") >>)>>

PatchFromPatchArray(pa, array) ==
  <<Either(<< <<Null(pa)>>,
              <<Alloc("palist", "list", NULL), Null(pa)>>,
              <<Alloc("palist", "list", NULL)>> \o DeserializeElement("pa1", array) \o DeserializeElement("pa2", array)
                \o UncompressedMake(pa, "pa1") \o CopyPointsOf("pa1") \o CopyPointsOf("pa2")
                \o UncompressedComputeStats(pa) \o <<Free("pa1"), Free("pa2"), Free("palist")>> >>)>>

PatchOrNull(pa) == <<IfNull(pa, <<ReturnNull>>, ReturnPatch("serpa", pa))>>

pcpatch_from_pcpoint_array == GetArg("array") \o FromPcid("schema") \o PatchFromPointArray("pa", "array") \o PatchOrNull("pa")
pcpatch_from_pcpatch_array == GetArg("array") \o FromPcid("schema") \o PatchFromPatchArray("pa", "array") \o PatchOrNull("pa")

(* The points own their data: they are made from numbers.                   *)
pcpatch_from_float_array ==
  GetArg("arrptr") \o FromPcid("schema")
  \o <<Alloc("pl", "points", "schema"), OwnData("pl", "arrptr")>> \o PatchFromPointlist("pa", "pl")
  \o <<Free("pl")>> \o PatchOrNull("pa")

-----------------------------------------------------------------------------
(* Slip: every call makes a holder of its own.                              *)
pointcloud_agg_transfnAnew ==
  <<Alloc("a", "abs_trans", NULL),
    IfNull("state", <<SwitchTo("agg"), Alloc("s", "array_state", NULL), SwitchTo("call"), Borrow("a", "s")>>,
                    <<Borrow("a", "state")>>),
    Read("a"), Read("row"), Return("a")>>

(* The array grows in aggcontext, its holder only where the call allocates. *)
pointcloud_agg_transfn ==
  <<IfNull("state", <<Alloc("a", "abs_trans", NULL), SwitchTo("agg"), Alloc("s", "array_state", NULL),
                      SwitchTo("call"), Borrow("a", "s")>>,
                    <<Alias("a", "state")>>),
    Read("a"), Read("row"), Return("a")>>

(* makeMdArrayResult copies and does not release the state.                 *)
pointcloud_agg_final(d, more) ==
  <<IfNull("state", <<ReturnNull>>,
           <<Read("state"), ByType("row", [f \in Forms |-> <<Alloc(d, f, NULL)>>])>> \o more)>>

pcpatch_agg_final_array == pointcloud_agg_final("result", <<Return("result")>>)
pcpoint_agg_final_pcpatch ==
  pointcloud_agg_final("array", FromPcid("schema") \o PatchFromPointArray("pa", "array") \o PatchOrNull("pa"))
pcpatch_agg_final_pcpatch ==
  pointcloud_agg_final("array", FromPcid("schema") \o PatchFromPatchArray("pa", "array") \o PatchOrNull("pa"))

-----------------------------------------------------------------------------
(* PC_Explode, first call: everything that later calls need is made in the  *)
(* multi-call context, the schema included.                                 *)
UnnestFirst ==
  <<SwitchTo("multi")>> \o GetArg("serpatch")
  \o <<ByType("ring", [f \in Forms |-> <<Alloc("schema", f, NULL)>>])>>
  \o PatchDeserialize("patch", "serpatch", "schema") \o <<Alloc("fctx", "fctx", NULL)>>
  \o PointlistFromPatch("pointlist", "patch") \o <<SwitchTo("call")>>

(* Any call: the point nextelem, serialized.                                *)
UnnestNext == <<Read("pointlist")>> \o PointSerialize("serpt", "pointlist") \o <<Return("serpt")>>
UnnestDone == <<ReturnNull>>
=============================================================================
