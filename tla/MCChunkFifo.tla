---------------------------- MODULE MCChunkFifo -----------------------------
(***************************************************************************)
(* The chunk FIFO with two chunks (three slots), as sampling_init sizes    *)
(* the accelerometer and battery FIFOs, and enough completed chunks for    *)
(* the positions to wrap twice.                                            *)
(***************************************************************************)
EXTENDS ChunkFifo
=============================================================================
