---------------------------- MODULE MCMessageFramer ----------------------------
(* Instances of MessageFramer: reads of up to two bytes. *)
EXTENDS MessageFramer, SequencesExt

MCChunks == SeqOf(Byte, 2)
================================================================================
