--------------------------- MODULE MCMediaLibrary ---------------------------
(***************************************************************************)
(* Instances of MediaLibrary for TLC: a.jpg and a.png, where both exist,   *)
(* share a description, b.jpg has its own.                                 *)
(***************************************************************************)
EXTENDS MediaLibrary, TLC

CONSTANTS aJpg, aPng, bJpg, a, b, c1, c2, u1, u2

MCAssetOf == [n \in Names |-> IF n = bJpg THEN b ELSE a]
MCLegacy == [n \in {} |-> c1]
MCLegacyPicture == [n \in {aJpg} |-> c1]

(* Threads are interchangeable, and contents too.                            *)
Symmetry == Permutations(Uploaders) \cup Permutations(Contents)
=============================================================================
