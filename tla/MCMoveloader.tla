--------------------------- MODULE MCMoveloader ---------------------------
(* Blocks that prefer any of the slots and describe two different images.  *)
EXTENDS Moveloader

CONSTANTS a, b

MCContent == {a, b}
MCPayload ==
  {payload \in [preferred_image : Slot, images : [Slot -> MCContent]] :
     payload.images[0] # payload.images[1]}
=============================================================================
