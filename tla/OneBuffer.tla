----------------------------- MODULE OneBuffer -----------------------------
(***************************************************************************)
(* What the reassembly buffer of a GATT service promises: two threads      *)
(* share one buffer without a lock because at any time exactly one of      *)
(* them owns it.  The producer fills it with pieces of one sender's        *)
(* message and gives it away; the consumer empties it before it gives it   *)
(* back.                                                                   *)
(***************************************************************************)

CONSTANT Senders

VARIABLES owner,      \* "producer" or "consumer"
          content     \* the senders whose pieces the buffer holds

vars == <<owner, content>>

Init ==
  /\ owner = "producer"
  /\ content = {}

\* A further piece, of the message that is already there.
Fill(s) ==
  /\ owner = "producer"
  /\ content \subseteq {s}
  /\ content' = {s}
  /\ UNCHANGED owner

\* The sender is gone: its incomplete message is dropped.
Drop ==
  /\ owner = "producer"
  /\ content' = {}
  /\ UNCHANGED owner

HandOver ==
  /\ owner = "producer"
  /\ owner' = "consumer"
  /\ UNCHANGED content

Empty ==
  /\ owner = "consumer"
  /\ content' = {}
  /\ UNCHANGED owner

GiveBack ==
  /\ owner = "consumer"
  /\ content = {}
  /\ owner' = "producer"
  /\ UNCHANGED content

\* The machine restarts.
Restart ==
  /\ owner' = "producer"
  /\ content' = {}

Next ==
  \/ \E s \in Senders : Fill(s)
  \/ Drop \/ HandOver \/ Empty \/ GiveBack \/ Restart

Spec == Init /\ [][Next]_vars
=============================================================================
