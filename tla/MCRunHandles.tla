--------------------------- MODULE MCRunHandles ---------------------------
(***************************************************************************)
(* RunHandles for TLC.                                                     *)
(***************************************************************************)
EXTENDS RunHandles

MCPublishers == Runs \union {Background}
MCSubs == Runs \union Observers
=============================================================================
