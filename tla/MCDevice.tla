------------------------------ MODULE MCDevice ------------------------------
(* Two slots with one image, the first of which is preferred.              *)
EXTENDS Device

CONSTANT a

MCContent == {a}
MCPayload == [preferred_image : {0}, images : [Slot -> MCContent]]
=============================================================================
