----------------------------- MODULE UsersPart ------------------------------
(* RtspUsers as a part of a whole.                                         *)
EXTENDS UserState

Usr == INSTANCE RtspUsers
=============================================================================
