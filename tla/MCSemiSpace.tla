---------------------------- MODULE MCSemiSpace ----------------------------
(* Instances of SemiSpace for TLC *)
EXTENDS SemiSpace

CONSTANTS frame, global

OneStackRoot  == {frame}
OneStaticRoot == {global}
Ids == 1..4
SmallObjects == {0, 1}
NoRoot == {}
Objects == {0, 1, 2}
NoIds == {}
=============================================================================
