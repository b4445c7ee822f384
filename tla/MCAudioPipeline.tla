-------------------------- MODULE MCAudioPipeline ---------------------------
(* Requests of every size up to a block, and a ring with no sample to spare. *)
EXTENDS AudioPipeline

MCRequests == 1 .. FrameSize * Channels
=============================================================================
