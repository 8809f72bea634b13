---------------------------- MODULE ImageChoice ----------------------------
(***************************************************************************)
(* What a boot promises about the slot it starts, whatever a slot holds:   *)
(* the one a trial has asked for, once, or else the preferred one if it    *)
(* verifies, or else the first one that does.  What is chosen is started   *)
(* or nothing is.  There is no search, no copy and no retry.               *)
(***************************************************************************)
EXTENDS Naturals

CONSTANTS
  Slots,      \* the image slots, numbers
  NoSlot      \* none of them

VARIABLES
  preferred,  \* the slot that the durable metadata prefers
  verified,   \* the slots that agree with the durable metadata
  asked,      \* the slot a trial has been asked for
  chosen,     \* the slot this boot has settled on
  running     \* the slot that has been started

Init ==
  /\ verified \in SUBSET Slots
  /\ asked = NoSlot /\ chosen = NoSlot /\ running = NoSlot

Flash == <<preferred, verified>>

(* A trial takes the request away with it and asks nothing of the slot. *)
Try ==
  /\ chosen = NoSlot /\ running = NoSlot
  /\ asked \in Slots
  /\ chosen' = asked /\ asked' = NoSlot
  /\ UNCHANGED Flash /\ UNCHANGED running

Choose ==
  /\ chosen = NoSlot /\ running = NoSlot
  /\ asked = NoSlot
  /\ chosen' \in verified
  /\ \/ chosen' = preferred
     \/ preferred \notin verified /\ \A i \in verified : chosen' <= i
  /\ UNCHANGED Flash /\ UNCHANGED <<asked, running>>

Start ==
  /\ chosen # NoSlot /\ running = NoSlot
  /\ running' = chosen
  /\ UNCHANGED Flash /\ UNCHANGED <<asked, chosen>>

(* The running OS replaces images and metadata, or asks for a trial. *)
Update ==
  /\ running # NoSlot
  /\ verified' \in SUBSET Slots
  /\ UNCHANGED <<asked, chosen, running>>

Ask ==
  /\ running # NoSlot
  /\ asked' \in Slots \cup {NoSlot}
  /\ UNCHANGED Flash /\ UNCHANGED <<chosen, running>>

(* A request may be lost with the power, the flash is not. *)
Restart ==
  /\ chosen' = NoSlot /\ running' = NoSlot
  /\ asked' \in {asked, NoSlot}
  /\ UNCHANGED Flash

Next == Try \/ Choose \/ Start \/ Update \/ Ask \/ Restart

Spec == Init /\ [][Next]_<<preferred, verified, asked, chosen, running>>
=============================================================================
