---------------------------- MODULE BootPromise ----------------------------
(***************************************************************************)
(* What the bootloader promises to the operating systems it starts: there  *)
(* is one image on offer, every permanent boot starts exactly that one,    *)
(* and nobody but a running OS can replace it, by another image that is    *)
(* complete.  An image can be tried once without being on offer.  There    *)
(* is no flash, no metadata and no CRC.                                    *)
(***************************************************************************)
CONSTANTS
  Content,    \* complete images
  Torn,       \* what is left of an image that was not completely written
  NoImage     \* nothing is on offer, or nothing has been started

VARIABLES
  offer,      \* what the next permanent boot starts
  running,    \* what has been started since the last reset
  trial       \* a trial has been asked for

Init ==
  /\ offer \in Content \cup {NoImage}
  /\ running = NoImage
  /\ trial = FALSE

OsRuns == running \in Content

Boot ==
  /\ running = NoImage /\ ~trial
  /\ offer # NoImage
  /\ running' = offer
  /\ UNCHANGED <<offer, trial>>

(* Without a promise about what is tried *)
Try ==
  /\ running = NoImage /\ trial
  /\ running' \in Content \cup {Torn}
  /\ trial' = FALSE
  /\ UNCHANGED offer

Ask == OsRuns /\ trial' \in BOOLEAN /\ UNCHANGED <<offer, running>>

Replace ==
  /\ OsRuns
  /\ offer' \in Content
  /\ UNCHANGED <<running, trial>>

Restart ==
  /\ running' = NoImage
  /\ trial' \in {trial, FALSE}
  /\ UNCHANGED offer

Next == Boot \/ Try \/ Ask \/ Replace \/ Restart

Spec == Init /\ [][Next]_<<offer, running, trial>>
=============================================================================
