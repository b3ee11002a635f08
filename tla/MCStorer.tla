------------------------------ MODULE MCStorer ------------------------------
(***************************************************************************)
(* A dynamic partition with CRC, with a clock that is set back twice.      *)
(***************************************************************************)
EXTENDS Storer

MCStamp == <<2, 1, 2, 2, 1, 2>>
=============================================================================
