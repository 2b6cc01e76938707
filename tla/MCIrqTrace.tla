----------------------------- MODULE MCIrqTrace -----------------------------
(* Two places for the buffer, which has room for two frames and a bit; a    *)
(* frame is not a whole number of batches nor a batch of frames.            *)
EXTENDS IrqTrace

CONSTANTS a, b

TwoChunks == {a, b}
=============================================================================
