CONSTANTS
  Pcid = {1, 2, 3}
  Schema <- Schemas
  Planar = {"x"}
  MaxRun = 2
  Encodings = {"rle"}
  WkbForms = {"none", "dimensional"}
  Filter <- Comparisons
  Def = {1}
  MaxPoints = 3
  NewRaw <- NewRaws
  NULL = NULL
SPECIFICATION Spec
INVARIANT SortedMeansInOrder
