CONSTANTS
  Key = {"x", "lon", "y", "intensity"}
  Hash <- FourHashes
  Primes <- TwoPrimes
  NULL = NULL
  Axis <- FourAxes
  Bytes <- ThreeSizes
  MaxDims = 3
  Word = 256
SPECIFICATION Spec
INVARIANTS TypeOK NoHole ReturnedUsable LayoutTiles LookupFinds CloneFaithful
CHECK_DEADLOCK FALSE
