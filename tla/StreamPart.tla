----------------------------- MODULE StreamPart -----------------------------
(* RtspStream as a part of a whole.                                        *)
EXTENDS StreamState

Str == INSTANCE RtspStream
=============================================================================
