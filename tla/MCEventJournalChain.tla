-------------------------- MODULE MCEventJournalChain --------------------------
(* The scope of MCEventJournal's chain, refined. *)
EXTENDS EventJournalChain, MCEventJournal
===============================================================================
