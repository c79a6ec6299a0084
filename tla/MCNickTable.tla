----------------------------- MODULE MCNickTable -----------------------------
(* NickTable for TLC: three ids, two of which collide.                      *)
EXTENDS NickTable, TLC

CONSTANTS id1, id2, id3, crcA, crcB

MCIds == {id1, id2, id3}
MCCrcs == {crcA, crcB}
Collide == id1 :> crcA @@ id2 :> crcB @@ id3 :> crcB

\* Three CRCs without a collision.
CONSTANT crcC
MCCrcs3 == {crcA, crcB, crcC}
Distinct == id1 :> crcA @@ id2 :> crcB @@ id3 :> crcC

Symmetry == Permutations(Addrs) \cup Permutations(Nicks)
=============================================================================
