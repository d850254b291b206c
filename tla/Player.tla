------------------------------- MODULE Player -------------------------------
(***************************************************************************)
(* The audio player at the foot of every page: the state that the context  *)
(* keeps ("player"), the audio element of the browser ("audio", external)  *)
(* and the state of the bar that shows both ("bar").                       *)
(*                                                                         *)
(* A recording stands for its address.  Time passes in steps; a recording  *)
(* lasts Length of them.                                                   *)
(***************************************************************************)
EXTENDS Site

CONSTANTS
    Recordings,     \* the episodes that can be opened; the file may be missing
    Length,
    MaxOpenings     \* bounds how often an episode is opened

ASSUME PlayerAssumption == None \notin Recordings /\ {Length, MaxOpenings} \subseteq Nat

VARIABLES player, audio, bar, openings

playerVars == <<player, audio, bar, openings>>

Times == 0 .. Length
ClosedPlayer == [episode |-> None, src |-> None, start |-> 0, isPlaying |-> FALSE]
NoAudio == [there |-> FALSE, src |-> None, ready |-> FALSE, paused |-> TRUE, muted |-> FALSE,
            time |-> 0]
NewBar == [time |-> 0, length |-> 0, collapsed |-> FALSE, muted |-> FALSE, failed |-> FALSE]

Unavailable == bar.failed \/ player.src = None

\* Loading a source pauses; without one nothing is loaded.
Loaded(element, src) ==
    [element EXCEPT !.there = TRUE, !.src = src, !.ready = FALSE, !.paused = TRUE, !.time = 0]

Changes(next) == next.src # player.src \/ next.start # player.start

\* Mutant: an episode without a file leaves the audio alone.
OpenWhenGiven(next) ==
    /\ audio' = IF next.src # None /\ Changes(next) THEN Loaded(audio, next.src)
                ELSE [audio EXCEPT !.there = TRUE]
    /\ bar' = [bar EXCEPT !.failed = FALSE]

\* The effects that follow a change of the source or of the time to start from.
Open(next) ==
    IF Changes(next)
    THEN /\ audio' = Loaded(audio, next.src)
         /\ bar' = IF next.src = None /\ player.src # None THEN NewBar
                   ELSE [bar EXCEPT !.failed = FALSE]
    ELSE audio' = [audio EXCEPT !.there = TRUE] /\ UNCHANGED bar

-----------------------------------------------------------------------------
\* What the pages and the bar do.

PlayEpisode(r, file, start) ==
    /\ openings < MaxOpenings
    /\ openings' = openings + 1
    /\ player' = [episode |-> r, src |-> IF file THEN r ELSE None, start |-> start,
                  isPlaying |-> file]
    /\ Open(player')

\* The button needs a source that did not fail, the space bar only a source.
TogglePlayPause ==
    /\ player.src # None
    /\ audio' = [audio EXCEPT !.paused = ~@]
    /\ player' = [player EXCEPT !.isPlaying = audio.paused]
    /\ UNCHANGED <<bar, openings>>

ClosePlayer ==
    /\ player.episode # None
    /\ player' = ClosedPlayer
    /\ audio' = NoAudio
    /\ bar' = IF player.src = None THEN bar ELSE [NewBar EXCEPT !.failed = bar.failed]
    /\ UNCHANGED openings

\* Metadata, time and the end: the bar follows the element, isPlaying does not.
LoadedMetadata ==
    /\ audio.src # None /\ ~audio.ready /\ ~bar.failed
    /\ LET time == IF player.start > 0 THEN player.start ELSE audio.time
       IN /\ bar' = [bar EXCEPT !.time = time, !.length = Length]
          /\ \E refused \in BOOLEAN :
               audio' = [audio EXCEPT !.ready = TRUE, !.time = time,
                                      !.paused = @ /\ refused]
    /\ UNCHANGED <<player, openings>>

TimePasses ==
    /\ audio.ready /\ ~audio.paused /\ audio.time < Length
    /\ audio' = [audio EXCEPT !.time = @ + 1, !.paused = @ \/ audio.time + 1 = Length]
    /\ bar' = [bar EXCEPT !.time = audio.time + 1]
    /\ UNCHANGED <<player, openings>>

AudioFails ==
    /\ audio.src # None /\ ~audio.ready /\ ~bar.failed
    /\ bar' = [bar EXCEPT !.failed = TRUE]
    /\ UNCHANGED <<player, audio, openings>>

SeekTo(time) ==
    /\ ~Unavailable /\ bar.length > 0
    /\ audio' = [audio EXCEPT !.time = time]
    /\ bar' = [bar EXCEPT !.time = time]
    /\ UNCHANGED <<player, openings>>

\* The buttons and the arrow keys: never before the start nor past what the bar knows.
Skip(seconds) ==
    /\ player.src # None
    /\ LET ahead == audio.time + seconds
           time == IF ahead < 0 THEN 0 ELSE IF ahead > bar.length THEN bar.length ELSE ahead
       IN audio' = [audio EXCEPT !.time = time] /\ bar' = [bar EXCEPT !.time = time]
    /\ UNCHANGED <<player, openings>>

ToggleMute ==
    /\ player.episode # None /\ ~Unavailable /\ ~bar.collapsed
    /\ audio' = [audio EXCEPT !.muted = ~@]
    /\ bar' = [bar EXCEPT !.muted = ~audio.muted]
    /\ UNCHANGED <<player, openings>>

Collapse ==
    /\ player.episode # None
    /\ bar' = [bar EXCEPT !.collapsed = ~@]
    /\ UNCHANGED <<player, audio, openings>>

PlayerInit ==
    /\ player = ClosedPlayer /\ audio = NoAudio /\ bar = NewBar
    /\ openings = 0

PlayerNext ==
    \/ \E r \in Recordings, file \in BOOLEAN, start \in Times : PlayEpisode(r, file, start)
    \/ TogglePlayPause \/ ClosePlayer \/ ToggleMute \/ Collapse
    \/ LoadedMetadata \/ TimePasses \/ AudioFails
    \/ \E time \in Times : SeekTo(time)
    \/ \E seconds \in {-1, 1} : Skip(seconds)
=============================================================================
