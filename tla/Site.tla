-------------------------------- MODULE Site --------------------------------
(***************************************************************************)
(* What the pages of the library share: that one of them is open.  The     *)
(* feeds page, the search page, the queue page and the audio player keep   *)
(* no state in common, so one behaviour uses one of them.                  *)
(***************************************************************************)
EXTENDS Integers, Sequences, FiniteSets, SequencesExt

VARIABLE site   \* the page in use

Sites == {"feeds", "search", "queue", "player"}
None == "none"
=============================================================================
