----------------------------- MODULE MCDimStats -----------------------------
(* Dimensions for TLC: integers of eight bytes, and doubles.                  *)
EXTENDS DimStats

TwoDims == {[size |-> 8, double |-> FALSE], [size |-> 8, double |-> TRUE]}
=============================================================================
