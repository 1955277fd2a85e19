----------------------------- MODULE MCPollApp -----------------------------
(***************************************************************************)
(* Instance of PollApp for TLC: one program over both drivers.             *)
(***************************************************************************)
EXTENDS PollApp
=============================================================================
