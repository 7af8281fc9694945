------------------------------ MODULE MCReview ------------------------------
(***************************************************************************)
(* Instances of Review for TLC.                                            *)
(***************************************************************************)
EXTENDS Review, TLC

CONSTANTS v1, r1, r2

Request(platform, topic, body, chars, extra, media) ==
  [platform |-> platform, topic |-> topic, body |-> body, chars |-> chars,
   extra |-> extra, media |-> media, options |-> TRUE]

Photo == [kind |-> "image", license |-> "owned", measured |-> TRUE]
Clip == [kind |-> "video", license |-> "licensed", measured |-> TRUE]

(* Two blocks; nothing; a warning; a platform whose posts need a title that  *)
(* no generated post has; media handed in whose license is pending.          *)
MCRequests ==
  [boasting |-> Request("youtube", {"guarantee"}, {}, 400, <<>>, <<Clip>>),
   clean    |-> Request("linkedin", {}, {}, 700, <<"#oemparts">>, <<Photo>>),
   detailed |-> Request("facebook", {}, {"spec"}, 200, <<"#ndt">>, <<>>),
   untitled |-> Request("reddit", {}, {}, 300, <<>>, <<>>),
   foreign  |-> Request("vk", {"blocked_term"}, {}, 600, <<>>, <<[Photo EXCEPT !.license = "pending"]>>)]

(* Threads are interchangeable. *)
Symmetry == Permutations(Reviewers)
=============================================================================
