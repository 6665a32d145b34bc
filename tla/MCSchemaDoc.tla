---------------------------- MODULE MCSchemaDoc ----------------------------
(* Names, of which two stand for x and three share a chain of the first     *)
(* table, and interpretations for TLC.                                      *)
EXTENDS SchemaDoc

FourHashes == [x |-> 0, lon |-> 4, y |-> 2, intensity |-> 1]
FourAxes   == [x |-> "x", lon |-> "x", y |-> "y", intensity |-> "none"]
ThreeSizes == [uint8_t |-> 1, uint16_t |-> 2, unknown |-> 255]
TwoPrimes  == <<2, 3>>
=============================================================================
