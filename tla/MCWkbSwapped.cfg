CONSTANTS
  Machine = {"pc", "mainframe"}
  Order <- TwoOrders
  Pcid = {1, 2}
  Widths <- TwoWidths
  Sample <- TwoSamples
  Encodings = {"zlib"}
  CrossForms = {"none", "dimensional"}
  Typmod <- SomeTypmods
  PcidRange = 4
  Base = 4
  IntSize = 2
  MaxRun = 2
  MaxPoints = 3
SPECIFICATION Spec
INVARIANT WhatWasSentArrives
