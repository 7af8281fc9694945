------------------------------ MODULE MCRecall ------------------------------
(***************************************************************************)
(* Instances of Recall for TLC: a slot for a finished picture of machining *)
(* and one for anything rough.  A picture fits the first, a film of the    *)
(* same category fits the second better than the picture does, and a       *)
(* picture of another category fits neither.                               *)
(***************************************************************************)
EXTENDS Recall, TLC

CONSTANTS part, turning, ladle, d1, u1, u2

MCInfo ==
  [a \in Assets |->
    CASE a = part -> [process |-> "machining", kind |-> "image",
                      keywords |-> {"lathe", "finished"}, text |-> {"lathe"}]
      [] a = turning -> [process |-> "machining", kind |-> "video",
                         keywords |-> {"rough"}, text |-> {"lathe"}]
      [] a = ladle -> [process |-> "workshop", kind |-> "image", keywords |-> {"pouring"}, text |-> {}]]

MCSlot ==
  << [processes |-> {"machining"}, keywords |-> {"lathe", "finished"}, kind |-> "image"],
     [processes |-> {}, keywords |-> {"rough", "lathe"}, kind |-> "any"] >>

Symmetry == Permutations(Users)
=============================================================================
