----------------------------- MODULE MCReplayRunner -----------------------------
(***************************************************************************)
(* Instances of ReplayRunner for TLC.                                      *)
(***************************************************************************)
EXTENDS ReplayRunner

MCEvents == Invoices \cup Payments
MCRanges == {MCEvents}
==============================================================================
