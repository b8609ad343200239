---------------------------- MODULE EncoderPart -----------------------------
(* IdrControl as a part of a whole.                                        *)
EXTENDS IdrState

Enc == INSTANCE IdrControl
=============================================================================
