----------------------------- MODULE MCTimeout ------------------------------
(***************************************************************************)
(* A sampling timeout and the disconnect timeout, with durations below,    *)
(* at and above the limits of the app-timer.                               *)
(***************************************************************************)
EXTENDS Timeout
=============================================================================
