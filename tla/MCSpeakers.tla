----------------------------- MODULE MCSpeakers -----------------------------
(***************************************************************************)
(* Small instances of the speaker panel for TLC; the cfg files give the    *)
(* other constants.                                                        *)
(***************************************************************************)
EXTENDS SpeakerProperties

TwoSpeakers == <<0, 1, 0>>
OneSpeaker == <<0, 0, 0>>
\* The other speakers were absorbed, and the last segment overlaps no turn.
Gap == <<2, 2, NoLabel>>
SomeEpisodes == {TwoSpeakers, OneSpeaker, Gap}
SomeAgain == {OneSpeaker}
=============================================================================
