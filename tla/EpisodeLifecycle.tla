-------------------------- MODULE EpisodeLifecycle --------------------------
(***************************************************************************)
(* What the pipeline promises about each episode, without the queue, the   *)
(* worker and the files: it enters, goes through the stages in order, and  *)
(* comes to rest; a transient error repeats the stage it hit, at most      *)
(* RetryMax times in the episode's life.  What else may happen to it, only *)
(* the death of a process can cause.                                       *)
(***************************************************************************)
EXTENDS Naturals

CONSTANTS
    Episode,
    RetryMax

VARIABLES
    stage,          \* where each episode is
    tries,          \* automatic retries spent on it
    deaths          \* of the worker or of an API request, so far

Stages == {"download", "transcribe", "diarize", "chunk", "embed", "infer", "archive"}

\* Where an episode may go, nothing having died.  A feed's episode is queued as it is
\* stored, one added by hand a moment later, and an upload has nothing to download; one
\* stranded at the start goes on where it was.  The archive job can still fail after it
\* has committed "done" (the event, the unlink): the episode is then failed.
MayFollow ==
    [absent     |-> {"entered", "download"},
     entered    |-> {"download", "transcribe"},
     stranded   |-> Stages,
     download   |-> {"transcribe", "failed"},
     transcribe |-> {"diarize", "no_speech", "failed"},
     diarize    |-> {"chunk", "failed"},
     chunk      |-> {"embed", "failed"},
     embed      |-> {"infer", "failed"},
     infer      |-> {"archive", "failed"},
     archive    |-> {"done", "failed"},
     done       |-> {"failed"},
     no_speech  |-> {},
     failed     |-> {},
     deleted    |-> {}]

Proceed(e) ==
    /\ \E next \in MayFollow[stage[e]] : stage' = [stage EXCEPT ![e] = next]
    /\ UNCHANGED <<tries, deaths>>

\* A transient error repeats the stage it hit, at the price of a retry.
Repeat(e) ==
    /\ stage[e] \in Stages \cup {"done"}
    /\ tries[e] < RetryMax
    /\ stage' = [stage EXCEPT ![e] = IF @ = "done" THEN "archive" ELSE @]
    /\ tries' = [tries EXCEPT ![e] = @ + 1]
    /\ UNCHANGED deaths

Delete(e) ==
    /\ stage[e] \notin {"absent", "deleted"}
    /\ stage' = [stage EXCEPT ![e] = "deleted"]
    /\ tries' = [tries EXCEPT ![e] = 0]
    /\ UNCHANGED deaths

Die == deaths' = deaths + 1 /\ UNCHANGED <<stage, tries>>

\* The claim a dead worker left is failed later on, whatever has become of the episode
\* since; and an episode failed that way goes on if its next job was already queued.
Aftermath(e) ==
    /\ deaths > 0
    /\ \E next \in CASE stage[e] = "no_speech" -> {"failed"}
                      [] stage[e] = "failed" -> Stages
                      [] OTHER -> {} :
          stage' = [stage EXCEPT ![e] = next]
    /\ UNCHANGED <<tries, deaths>>

LifeInit ==
    /\ stage \in [Episode -> {"absent", "stranded"}]
    /\ tries = [e \in Episode |-> 0]
    /\ deaths = 0

LifeNext ==
    \/ \E e \in Episode :
        \/ Proceed(e) \/ Repeat(e)
        \/ Delete(e)
        \/ Aftermath(e)
    \/ Die

LifeSpec == LifeInit /\ [][LifeNext]_<<stage, tries, deaths>>
=============================================================================
