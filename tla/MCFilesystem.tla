---------------------------- MODULE MCFilesystem ----------------------------
(***************************************************************************)
(* A dynamic partition with CRC in EEPROM, as the scan chunks have it.     *)
(***************************************************************************)
EXTENDS Filesystem
=============================================================================
