CONSTANTS
  Machine = {"pc", "mainframe"}
  Order <- TwoOrders
  Pcid = {1, 2}
  Widths <- TwoWidths
  Sample <- TwoSamples
  Encodings = {"none", "rle", "zlib"}
  CrossForms = {"none"}
  Typmod <- SomeTypmods
  PcidRange = 4
  Base = 4
  IntSize = 2
  MaxRun = 2
  MaxPoints = 3
SPECIFICATION Spec
INVARIANTS TypeOK PartsFoundEverywhere WhatWasSentArrives ColumnHoldsItsPcid
