------------------------------- MODULE MCWkb -------------------------------
(* Two machines of opposite order and two schemas whose points are equally  *)
(* long, with the wide dimension last or first.                             *)
EXTENDS Wkb

TwoOrders == [m \in Machine |-> IF m = "pc" THEN 1 ELSE 0]

TwoWidths == <<<<1, 2>>, <<2, 1>>>>

TwoSamples == <<{<<1, 1>>, <<2, 4>>, <<1, 6>>}, {<<1, 1>>, <<4, 2>>}>>

(* No typmod, PcPatch(0), a pcid, and a number that is masked to it.        *)
SomeTypmods == {-1, 0, 2, 6}
=============================================================================
