--------------------------- MODULE MCBootHandoff ---------------------------
(***************************************************************************)
(* Instances of BootHandoff for TLC.  Two networks can be joined and one   *)
(* cannot: enough to replace one entry by another and to send wrong        *)
(* settings in between.                                                    *)
(***************************************************************************)
EXTENDS BootHandoff

CONSTANTS home, depot, wrong

MCNetworks == {home, depot, wrong}
MCJoinable == {home, depot}
=============================================================================
