------------------------- MODULE MCRingBufferReader -------------------------
(* Two callers, so that every pair of calls can overlap; two polling       *)
(* threads, one of which may be waiting for its join.                      *)
EXTENDS RingBufferReader
=============================================================================
