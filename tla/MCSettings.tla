----------------------------- MODULE MCSettings -----------------------------
(***************************************************************************)
(* Small instances of the Settings page for TLC.                           *)
(***************************************************************************)
EXTENDS SettingsProperties

KeepOne == <<1, 0, 0>>
KeepTwo == <<2, 0, 0>>
NoDaily == <<0, 1, 0>>
SomeRetentions == {KeepOne, KeepTwo, NoDaily}
=============================================================================
