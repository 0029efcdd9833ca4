---------------------------- MODULE Provisioner ----------------------------
(***************************************************************************)
(* What the three provisioners share: the networks somebody may send, and  *)
(* the one entry of the credential store that a joined network replaces.   *)
(***************************************************************************)

CONSTANTS
  Networks,    \* networks, with a password, somebody may send
  Good,        \* those that let the device in
  NoNetwork    \* no network

ASSUME NetworksAssumption == Good \subseteq Networks /\ NoNetwork \notin Networks

VARIABLE stored    \* the entry of the credential store

StoreOK == stored \in Networks \cup {NoNetwork}

\* wifi_credentials_delete_all(), then wifi_credentials_set_personal().  What a
\* power cut in between does is BootHandoff's.
Stores(n) == stored' = n
StoreFails == stored' = NoNetwork
=============================================================================
