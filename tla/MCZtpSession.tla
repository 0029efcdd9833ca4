---------------------------- MODULE MCZtpSession ----------------------------
(***************************************************************************)
(* Instances of ZtpSession for TLC: two connections, enough to interleave  *)
(* the end of one with the start of the next.                              *)
(***************************************************************************)
EXTENDS ZtpSession, TLC

CONSTANTS first, second

MCRelays == {first, second}
MCSymmetry == Permutations(MCRelays)
=============================================================================
