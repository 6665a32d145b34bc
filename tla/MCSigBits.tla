----------------------------- MODULE MCSigBits -----------------------------
(* Significant-bits removal with bytes of two bits: words of 2, 4 and 8     *)
(* bits, of which the last are as wide as an int.                           *)
EXTENDS SigBits

Word(n) == {b \in 0 .. 7 : (n \div 2 ^ b) % 2 = 1}

Values ==
  [s \in {1, 2, 4} |-> {Word(n) : n \in CASE s = 1 -> 0 .. 3
                                          [] s = 2 -> {0, 1, 6, 7, 9, 15}
                                          [] s = 4 -> {0, 37, 39, 128, 255}}]
=============================================================================
