CONSTANTS
  Pcid = {1, 2, 3}
  Schema <- SchemasForAverages
  Planar = {"x"}
  MaxRun = 2
  Encodings = {"sigbits", "zlib"}
  WkbForms = {"none"}
  Filter <- Comparisons
  Def = {1}
  MaxPoints = 3
  NewRaw <- NewRaws
  NULL = NULL
SPECIFICATION Spec
INVARIANT AvgExact
PROPERTY SortedAfterSort
