--------------------------- MODULE AtomicMetadata ---------------------------
(***************************************************************************)
(* What the two metadata pages and their repair promise together: one      *)
(* block that changes in a single step, only towards a higher version, and *)
(* that every boot reads as it is.  There are no pages, no torn writes and *)
(* no resets that lose anything durable.                                   *)
(***************************************************************************)
EXTENDS Naturals

CONSTANTS Metadata, NoMeta

VARIABLES
  current,   \* the durable block, NoMeta when there is none
  handed     \* the block the running boot works with, NoMeta before it has one

Init ==
  /\ current \in Metadata \cup {NoMeta}
  /\ handed = NoMeta

(* A boot picks the durable block up. *)
HandOver ==
  /\ current # NoMeta
  /\ handed' = current
  /\ UNCHANGED current

(* The running OS makes a newer block durable. *)
Publish(m) ==
  /\ current # NoMeta => m.version > current.version
  /\ current' = m
  /\ UNCHANGED handed

(* A reset forgets what the boot was working with, and nothing else. *)
Restart ==
  /\ handed' = NoMeta
  /\ UNCHANGED current

Next == HandOver \/ Restart \/ (\E m \in Metadata : Publish(m))

Spec == Init /\ [][Next]_<<current, handed>>
=============================================================================
