---------------------------- MODULE MCChunkUpload ----------------------------
(* ChunkUpload for TLC. *)
EXTENDS ChunkUpload

=============================================================================
