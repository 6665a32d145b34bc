-------------------------------- MODULE Wkb --------------------------------
(***************************************************************************)
(* Patches and points carried as WKB between machines of either byte       *)
(* order, into and out of columns that declare a pcid: how pc_patch_to_wkb *)
(* and pc_point_to_wkb lay out the bytes in the order of the machine that  *)
(* writes, how the input functions on another machine find and swap them,  *)
(* and which columns take the value.  A byte is a digit below Base and a   *)
(* word is its bytes.  Sigbits columns are left out.                       *)
(***************************************************************************)
EXTENDS RunLength

CONSTANTS
  Machine,
  Order,       \* machine_endian: 0 for XDR (big endian), 1 for NDR
  Pcid,
  Widths,      \* per pcid, the sizes in bytes of its dimensions
  Sample,      \* per pcid, the points it may hold
  Encodings,   \* encodings of a column
  CrossForms,  \* forms of patch read by a machine of the other order
  Typmod,      \* numbers declared as PcPatch(n) or PcPoint(n); -1 for none
  PcidRange,   \* a typmod has room for pcids below it
  Base,        \* number of values of a byte
  IntSize,     \* bytes of an integer in a header
  MaxPoints    \* bound on the points of a patch

ASSUME WkbAssumption ==
  /\ MaxRun < Base
  /\ CrossForms \subseteq {"none", "dimensional", "laz"}
  /\ Encodings \subseteq {"none", "rle", "zlib"}
  /\ -1 \in Typmod
  /\ PcidRange \in Nat
  /\ Pcid \subseteq 1 .. PcidRange - 1   \* CHECK of pointcloud_formats

VARIABLES
  held,     \* the patch or point in the memory of a machine, or None
  typmod,   \* of the column it lies in, -1 of an expression
  wkb,      \* the bytes on their way, or <<>>
  sent,     \* type, pcid and points meant by whoever wrote last
  outcome   \* of the last operation

vars == <<held, typmod, wkb, sent, outcome>>

None == [form |-> "nowhere"]

NDims(p) == Len(Widths[p])

(* The byte offset at which the first d dimensions of a point end.          *)
Past(p, d) ==
  LET past[k \in 0 .. NDims(p)] == IF k = 0 THEN 0 ELSE past[k - 1] + Widths[p][k]
  IN past[d]

Size(p) == Past(p, NDims(p))
Offset(p, d) == Past(p, d - 1)

(* What is left of an unsigned value as its low bytes are taken off, and    *)
(* whether that many bytes hold it.                                         *)
Rest(v, width) ==
  LET rest[k \in 0 .. width] == IF k = 0 THEN v ELSE rest[k - 1] \div Base
  IN rest

Fits(v, width) == Rest(v, width)[width] = 0

(* The bytes of such a value in memory, and the value of such bytes.        *)
Image(v, width, order) ==
  LET rest == Rest(v, width)
      big == [i \in 1 .. width |-> rest[width - i] % Base]
  IN IF order = 0 THEN big ELSE Reverse(big)

Word(bytes, order) ==
  LET big == IF order = 0 THEN bytes ELSE Reverse(bytes)
      word[k \in 0 .. Len(big)] == IF k = 0 THEN 0 ELSE word[k - 1] * Base + big[k]
  IN word[Len(big)]

Words(bytes, width, order) ==
  [i \in 1 .. Len(bytes) \div width |->
     Word(SubSeq(bytes, (i - 1) * width + 1, i * width), order)]

Images(vals, width, order) ==
  FlattenSeq([i \in DOMAIN vals |-> Image(vals[i], width, order)])

-----------------------------------------------------------------------------
(* What deflate or lazperf makes of bytes is opaque, and inflate or its     *)
(* like takes it back.                                                      *)
Deflated(bytes) == <<[deflated |-> bytes]>>
Inflated(bytes) == bytes[1].deflated

(* A column as bytes; a run is a count byte and a word.                     *)
Encode(enc, vals, width, order) ==
  CASE enc = "none" -> Images(vals, width, order)
    [] enc = "zlib" -> Deflated(Images(vals, width, order))
    [] enc = "rle"  -> LET runs == RunLengthEncode(vals)
                       IN FlattenSeq([k \in DOMAIN runs |->
                                        <<runs[k].n>> \o Image(runs[k].v, width, order)])

Decode(enc, bytes, width, order) ==
  CASE enc = "none" -> Words(bytes, width, order)
    [] enc = "zlib" -> Words(Inflated(bytes), width, order)
    [] enc = "rle"  ->
         RunLengthDecode([k \in 1 .. Len(bytes) \div (width + 1) |->
           LET at == (k - 1) * (width + 1) + 1
           IN Run(bytes[at], Word(SubSeq(bytes, at + 1, at + width), order))])

(* Points one after the other.                                              *)
PointBytes(p, pts, order) ==
  FlattenSeq([i \in DOMAIN pts |->
    FlattenSeq([d \in 1 .. NDims(p) |-> Image(pts[i][d], Widths[p][d], order)])])

(* A patch, or a single point, in the memory of machine m: the bytes of its *)
(* points, or of its columns under the encodings enc.                       *)
InMemory(m, p, pts, form, enc) ==
  [at |-> m, pcid |-> p, form |-> form, npoints |-> Len(pts),
   data |->
     CASE form \in {"none", "point"} -> PointBytes(p, pts, Order[m])
       [] form = "laz" -> Deflated(PointBytes(p, pts, Order[m]))
       [] form = "dimensional" ->
            [d \in 1 .. NDims(p) |->
              [enc   |-> enc[d],
               bytes |-> Encode(enc[d], [i \in DOMAIN pts |-> pts[i][d]], Widths[p][d], Order[m])]]]

(* The points machine pa.at makes of that memory.                           *)
PointsOf(pa) ==
  LET p == pa.pcid
      bytes == IF pa.form = "laz" THEN Inflated(pa.data) ELSE pa.data
      Value(i, d) ==
        IF pa.form = "dimensional"
        THEN Decode(pa.data[d].enc, pa.data[d].bytes, Widths[p][d], Order[pa.at])[i]
        ELSE LET at == (i - 1) * Size(p) + Offset(p, d)
             IN Word(SubSeq(bytes, at + 1, at + Widths[p][d]), Order[pa.at])
  IN [i \in 1 .. pa.npoints |-> [d \in 1 .. NDims(p) |-> Value(i, d)]]

TypeOf(pa) == IF pa.form = "point" THEN "PcPoint" ELSE "PcPatch"

Meant(pa) == [type |-> TypeOf(pa), pcid |-> pa.pcid, points |-> PointsOf(pa)]

-----------------------------------------------------------------------------
FormNumber(form) == CASE form = "none" -> 0 [] form = "dimensional" -> 1 [] form = "laz" -> 2
EncodingNumber(enc) == CASE enc = "none" -> 0 [] enc = "rle" -> 1 [] enc = "zlib" -> 3

PointHeaderSize == 1 + IntSize
HeaderSize == PointHeaderSize + 2 * IntSize

(* An integer of a header, in the order of the machine that holds the patch.*)
Field(pa, n) == Image(n, IntSize, Order[pa.at])

(* pc_bytes_serialize.                                                      *)
ColumnBytes(pa, d) ==
  <<EncodingNumber(pa.data[d].enc)>> \o Field(pa, Len(pa.data[d].bytes)) \o pa.data[d].bytes

(* Slip: the buffer is a byte longer than its columns.                      *)
BodyLoose(pa) ==
  CASE pa.form \in {"none", "point"} -> pa.data
    [] pa.form = "laz" -> Field(pa, Len(pa.data)) \o pa.data
    [] pa.form = "dimensional" ->
         Append(FlattenSeq([d \in DOMAIN pa.data |-> ColumnBytes(pa, d)]), 0)

Body(pa) ==
  CASE pa.form \in {"none", "point"} -> pa.data
    [] pa.form = "laz" -> Field(pa, Len(pa.data)) \o pa.data
    [] pa.form = "dimensional" -> FlattenSeq([d \in DOMAIN pa.data |-> ColumnBytes(pa, d)])

(* pc_patch_to_wkb for each form, pc_point_to_wkb.                          *)
ToWkb(pa) ==
  <<Order[pa.at]>> \o Field(pa, pa.pcid) \o
  (IF pa.form = "point" THEN <<>> ELSE Field(pa, FormNumber(pa.form)) \o Field(pa, pa.npoints)) \o
  Body(pa)

Swapped(buf, m) == buf[1] # Order[m]

(* Slip: the integer is taken as it lies.                                   *)
GetIntAsIs(buf, at, m) == Word(SubSeq(buf, at, at + IntSize - 1), Order[m])

(* wkb_get_int32: an integer of the buffer read by machine m.               *)
GetInt(buf, at, m) ==
  LET bytes == SubSeq(buf, at, at + IntSize - 1)
  IN Word(IF Swapped(buf, m) THEN Reverse(bytes) ELSE bytes, Order[m])

PcidOf(buf, m) == GetInt(buf, 2, m)
FormOf(buf, m) == GetInt(buf, 2 + IntSize, m)

NPointsOf(buf, m) == GetInt(buf, 2 + 2 * IntSize, m)

(* Slip: only the first point is swapped.                                   *)
FlipPointsFirst(p, bytes) ==
  LET Source(at) ==
        IF at > Size(p) THEN at
        ELSE LET d == CHOOSE d \in 1 .. NDims(p) : Offset(p, d) < at /\ at <= Offset(p, d) + Widths[p][d]
             IN 2 * Offset(p, d) + Widths[p][d] + 1 - at
  IN [at \in DOMAIN bytes |-> bytes[Source(at)]]

(* uncompressed_bytes_flip_endian: every value of every point reversed.     *)
FlipPoints(p, bytes) ==
  LET Source(at) ==
        LET within == ((at - 1) % Size(p)) + 1
            d == CHOOSE d \in 1 .. NDims(p) :
                   Offset(p, d) < within /\ within <= Offset(p, d) + Widths[p][d]
        IN at - within + 2 * Offset(p, d) + Widths[p][d] + 1 - within
  IN [at \in DOMAIN bytes |-> bytes[Source(at)]]

(* pc_bytes_flip_endian does nothing to uncompressed and deflated bytes,    *)
(* and asserts of runs that there are points.                               *)
FlipAsserts(enc, npoints) == enc = "rle" => npoints > 0

(* pc_bytes_serialized_size: the encoding byte, the size and the bytes.     *)
SerializedSize(size) == 1 + IntSize + size

(* pc_bytes_deserialize at got.at.  The flip comes before the npoints of    *)
(* the column is set, so it never gets to swap a run.                       *)
ReadColumn(buf, m, got) ==
  LET enc == CHOOSE enc \in {"none", "rle", "zlib"} : EncodingNumber(enc) = buf[got.at]
      size == GetInt(buf, got.at + 1, m)
      bytes == SubSeq(buf, got.at + 1 + IntSize, got.at + IntSize + size)
  IN [at   |-> got.at + SerializedSize(size),
      cols |-> Append(got.cols, [enc |-> enc, bytes |-> bytes]),
      dies |-> got.dies \/ (Swapped(buf, m) /\ ~FlipAsserts(enc, 0))]

(* Column by column.                                                        *)
Columns(buf, p, m) ==
  LET walk[d \in 0 .. NDims(p)] ==
        IF d = 0 THEN [at |-> HeaderSize + 1, cols |-> <<>>, dies |-> FALSE]
        ELSE ReadColumn(buf, m, walk[d - 1])
  IN walk[NDims(p)]

(* The points of an uncompressed body, in the order of machine m.           *)
InOrder(buf, p, body, m) == IF Swapped(buf, m) THEN FlipPoints(p, body) ELSE body

(* The buffer of a LAZ patch, of the size that follows the header.          *)
LazBuffer(buf, m) ==
  SubSeq(buf, HeaderSize + IntSize + 1, HeaderSize + IntSize + GetInt(buf, HeaderSize + 1, m))

-----------------------------------------------------------------------------
(* A schema has dimensions (pc_schema_is_valid), its points have a value of *)
(* each that fits its bytes, and an integer of a header holds the pcids,    *)
(* the numbers of the forms and the sizes of columns up to MaxPoints.       *)
ASSUME LayoutAssumption ==
  /\ Base \in Nat \ {0, 1} /\ IntSize \in Nat \ {0} /\ MaxPoints \in Nat \ {0}
  /\ Order \in [Machine -> {0, 1}]
  /\ \A p \in Pcid :
       /\ Widths[p] \in Seq(Nat \ {0}) /\ Widths[p] # <<>>
       /\ \A pt \in Sample[p] :
            pt \in [1 .. NDims(p) -> Nat] /\ \A d \in 1 .. NDims(p) : Fits(pt[d], Widths[p][d])
       /\ Fits(p, IntSize)
       /\ \A d \in 1 .. NDims(p) : \A n \in 0 .. MaxPoints * (Widths[p][d] + 1) : Fits(n, IntSize)

(* Slip: the mask keeps too few bits.                                       *)
PcidFromTypmodShort(t) == IF t = -1 THEN 0 ELSE t % (PcidRange \div 2)

PcidFromTypmod(t) == IF t = -1 THEN 0 ELSE t % PcidRange

(* pcid_consistent, asked by the input functions: 0 takes every pcid.       *)
Consistent(p, t) == PcidFromTypmod(t) = 0 \/ p = PcidFromTypmod(t)

(* pcpatch_enforce_typmod and pcpoint_enforce_typmod, asked on assignment   *)
(* to a column of another typmod, unless that has none: 0 takes no pcid.    *)
Enforced(p, from, to) == to = -1 \/ to = from \/ p = PcidFromTypmod(to)

Init == held = None /\ typmod = -1 /\ wkb = <<>> /\ sent = <<>> /\ outcome = "made"

Form(p) ==
  {<<"none", <<>> >>, <<"laz", <<>> >>} \cup ({"dimensional"} \X [1 .. NDims(p) -> Encodings])

PointsIn(p) == UNION {[1 .. n -> Sample[p]] : n \in 1 .. MaxPoints}

(* The value of an expression.                                              *)
Computed(pa) == held' = pa /\ typmod' = -1

Make(m, p, pts, f) ==
  /\ held = None /\ wkb = <<>>
  /\ Computed(InMemory(m, p, pts, f[1], f[2]))
  /\ outcome' = "made"
  /\ UNCHANGED <<wkb, sent>>

(* The patch is compressed otherwise on the machine it is on.               *)
Converted(pa, f) == InMemory(pa.at, pa.pcid, PointsOf(pa), f[1], f[2])

Convert(f) ==
  /\ held # None /\ held.form # "point"
  /\ Computed(Converted(held, f))
  /\ UNCHANGED <<wkb, sent, outcome>>

(* Slip: the number of points of the patch is kept.                         *)
PointOfKeepsCount(pa, n) ==
  [InMemory(pa.at, pa.pcid, <<PointsOf(pa)[n]>>, "point", <<>>) EXCEPT !.npoints = pa.npoints]

PointOf(pa, n) == InMemory(pa.at, pa.pcid, <<PointsOf(pa)[n]>>, "point", <<>>)

(* PC_PointN, PC_Explode.                                                   *)
PointN(n) ==
  /\ held # None /\ held.form # "point" /\ n \in 1 .. held.npoints
  /\ Computed(PointOf(held, n))
  /\ outcome' = "made"
  /\ UNCHANGED <<wkb, sent>>

(* PC_Patch of a point.                                                     *)
PatchOfPoint(f) ==
  /\ held # None /\ held.form = "point"
  /\ Computed(Converted(held, f))
  /\ outcome' = "made"
  /\ UNCHANGED <<wkb, sent>>

(* The value is stored in a column of typmod t.  A refused one stays where  *)
(* it is.                                                                   *)
Assign(t) ==
  /\ held # None
  /\ typmod' = IF Enforced(held.pcid, typmod, t) THEN t ELSE typmod
  /\ UNCHANGED <<held, wkb, sent, outcome>>

(* pcpatch_out, pcpoint_out; the value is freed.                            *)
Write ==
  /\ held # None
  /\ wkb' = ToWkb(held)
  /\ sent' = Meant(held)
  /\ held' = None /\ typmod' = -1
  /\ UNCHANGED outcome

Fail(why) == held' = None /\ typmod' = -1 /\ outcome' = why

(* A patch is stored in the form the schema of that machine asks for.       *)
Stored(pa, f) == IF pa.form \in {"point", f[1]} THEN pa ELSE Converted(pa, f)

(* The input function has parsed the WKB for a column of typmod t.          *)
Arrive(pa, t) ==
  \/ /\ Consistent(pa.pcid, t)
     /\ \E f \in Form(pa.pcid) : held' = Stored(pa, f)
     /\ typmod' = t
     /\ outcome' = "read"
  \/ ~Consistent(pa.pcid, t) /\ Fail("inconsistent")

(* pcpatch_in on machine m: refused when the schema is unknown or the       *)
(* length of uncompressed points is not what the header says.               *)
ReadPatch(m, t) ==
  /\ wkb # <<>> /\ sent.type = "PcPatch"
  /\ Swapped(wkb, m) => FormOf(wkb, m) \in {FormNumber(form) : form \in CrossForms}
  /\ LET p == PcidOf(wkb, m)
         n == NPointsOf(wkb, m)
         body == SubSeq(wkb, HeaderSize + 1, Len(wkb))
         Patch(form, data) == [at |-> m, pcid |-> p, form |-> form, npoints |-> n, data |-> data]
     IN \/ /\ p \notin Pcid \/ FormOf(wkb, m) \notin {0, 1, 2}
           /\ Fail("refused")
        \/ /\ p \in Pcid /\ FormOf(wkb, m) = 0
           /\ IF Len(body) # n * Size(p) THEN Fail("refused")
              ELSE Arrive(Patch("none", InOrder(wkb, p, body, m)), t)
        \/ /\ p \in Pcid /\ FormOf(wkb, m) = 1
           /\ IF Columns(wkb, p, m).dies THEN Fail("died")
              ELSE Arrive(Patch("dimensional", Columns(wkb, p, m).cols), t)
        \/ /\ p \in Pcid /\ FormOf(wkb, m) = 2
           /\ Arrive(Patch("laz", LazBuffer(wkb, m)), t)
  /\ wkb' = <<>>
  /\ UNCHANGED sent

(* pcpoint_in on machine m.                                                 *)
ReadPoint(m, t) ==
  /\ wkb # <<>> /\ sent.type = "PcPoint"
  /\ LET p == PcidOf(wkb, m)
         body == SubSeq(wkb, PointHeaderSize + 1, Len(wkb))
     IN IF p \notin Pcid \/ Len(body) # Size(p) THEN Fail("refused")
        ELSE Arrive([at |-> m, pcid |-> p, form |-> "point", npoints |-> 1,
                     data |-> InOrder(wkb, p, body, m)], t)
  /\ wkb' = <<>>
  /\ UNCHANGED sent

Next ==
  \/ \E m \in Machine, p \in Pcid : \E pts \in PointsIn(p), f \in Form(p) : Make(m, p, pts, f)
  \/ held # None /\ \E f \in Form(held.pcid) : Convert(f) \/ PatchOfPoint(f)
  \/ \E n \in 1 .. MaxPoints : PointN(n)
  \/ \E t \in Typmod : Assign(t)
  \/ Write
  \/ \E m \in Machine, t \in Typmod : ReadPatch(m, t) \/ ReadPoint(m, t)

Spec == Init /\ [][Next]_vars

-----------------------------------------------------------------------------
(* A patch in memory has as many bytes, or values in each column, as its    *)
(* npoints says.                                                            *)
TypeOK ==
  /\ outcome \in {"made", "read", "refused", "died", "inconsistent"}
  /\ typmod \in Typmod
  /\ held # None =>
       /\ held.at \in Machine /\ held.pcid \in Pcid
       /\ CASE held.form \in {"none", "point"} -> Len(held.data) = held.npoints * Size(held.pcid)
            [] held.form = "laz" -> Len(Inflated(held.data)) = held.npoints * Size(held.pcid)
            [] held.form = "dimensional" ->
                 \A d \in DOMAIN held.data :
                   Len(Decode(held.data[d].enc, held.data[d].bytes, Widths[held.pcid][d], Order[held.at]))
                     = held.npoints

(* Every machine finds the parts of a WKB: it reads the same pcid, form and *)
(* number of points from the header, and walking the columns of a           *)
(* dimensional patch, or adding up the sizes in one of LAZ, ends at the     *)
(* last byte, so that nothing is cut and nothing is read past the end.      *)
HeaderPortable == \A m1, m2 \in Machine :
  /\ PcidOf(wkb, m1) = PcidOf(wkb, m2) /\ PcidOf(wkb, m1) \in Pcid
  /\ sent.type = "PcPatch" =>
       FormOf(wkb, m1) = FormOf(wkb, m2) /\ NPointsOf(wkb, m1) = NPointsOf(wkb, m2)

BodyFilled == \A m \in Machine :
  /\ FormOf(wkb, m) = 1 => Columns(wkb, PcidOf(wkb, m), m).at = Len(wkb) + 1
  /\ FormOf(wkb, m) = 2 => HeaderSize + IntSize + GetInt(wkb, HeaderSize + 1, m) = Len(wkb)

PartsFoundEverywhere ==
  wkb # <<>> => HeaderPortable /\ (sent.type = "PcPatch" => BodyFilled)

(* Whatever path it took, a patch or point read from WKB has the schema and *)
(* points its writer had, and no WKB is refused but for the column it is    *)
(* read into: its byte order is there "to allow portability between         *)
(* architectures" (doc/concepts/binary.rst).                                *)
WhatWasSentArrives ==
  /\ outcome \notin {"refused", "died"}
  /\ outcome = "read" /\ held # None => Meant(held) = sent

(* A column that declares a pcid holds only values of that pcid, whether    *)
(* they were read into it, computed and assigned, or moved from another     *)
(* column (pc_typmod_in, pcid_consistent, pcpatch_enforce_typmod); and what *)
(* any column holds its own input function takes back, though the two       *)
(* checks differ, so that a dump restores.                                  *)
ColumnHoldsItsPcid ==
  held # None =>
    /\ typmod \in Pcid => held.pcid = typmod
    /\ Consistent(held.pcid, typmod)
=============================================================================
