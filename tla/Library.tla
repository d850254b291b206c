------------------------------ MODULE Library ------------------------------
(***************************************************************************)
(* The pages of the library as one specification.  They share no state, so *)
(* a behaviour stays on the page it begins with, and the others keep one   *)
(* initial state.                                                          *)
(***************************************************************************)
EXTENDS FeedsPage, SearchPage, QueuePage, Player

libraryVars == <<site, feedVars, searchVars, queueVars, playerVars>>

LibraryInit ==
    /\ site \in Sites
    /\ FeedsInit /\ SearchInit /\ QueueInit /\ PlayerInit
    /\ site # "feeds" => stored = [f \in Feeds |-> Absent]
    /\ site # "queue" => episodes = [e \in Episodes |-> Row("done", FALSE, None, FALSE)]

OnFeeds == site = "feeds" /\ FeedsNext /\ UNCHANGED <<site, searchVars, queueVars, playerVars>>
OnSearch == site = "search" /\ SearchNext /\ UNCHANGED <<site, feedVars, queueVars, playerVars>>
OnQueue == site = "queue" /\ QueueNext /\ UNCHANGED <<site, feedVars, searchVars, playerVars>>
OnPlayer == site = "player" /\ PlayerNext /\ UNCHANGED <<site, feedVars, searchVars, queueVars>>

LibraryNext == OnFeeds \/ OnSearch \/ OnQueue \/ OnPlayer
LibrarySpec == LibraryInit /\ [][LibraryNext]_libraryVars
=============================================================================
