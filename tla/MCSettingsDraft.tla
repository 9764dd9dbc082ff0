--------------------------- MODULE MCSettingsDraft ---------------------------
(* Two calls that persist events and store their drafts, and a consumer. *)
EXTENDS SettingsDraft, MCIntradayState
===============================================================================
