----------------------------- MODULE TwoImages -----------------------------
(***************************************************************************)
(* What the boot hand-off promises, without saying how: a device with two  *)
(* images of which the one that boots is always the one durably chosen.    *)
(* The application alone moves the choice to the provisioner, the          *)
(* provisioner alone moves it back, a reset changes neither the choice nor *)
(* the credentials, and only the image in charge touches the credentials.  *)
(***************************************************************************)

CONSTANTS Credentials,   \* values the credential slot may hold
          NoCredentials  \* the empty slot

Images == {"app", "prov"}

VARIABLES choice,       \* the image the next boot launches
          awake,        \* the image that runs, or "none" during a boot
          credentials   \* the durable Wi-Fi credentials

vars == <<choice, awake, credentials>>

Init ==
  /\ choice = "app"
  /\ awake = "none"
  /\ credentials = NoCredentials

\* The bootloader launches the chosen image.
Boot ==
  /\ awake = "none"
  /\ awake' = choice
  /\ UNCHANGED <<choice, credentials>>

\* A reset, wanted or not, is visible only in that nothing runs.
Stop ==
  /\ awake' = "none"
  /\ UNCHANGED <<choice, credentials>>

\* The application hands over; a cut during the write may already have it.
HandOver ==
  /\ awake = "app"
  /\ choice' = "prov"
  /\ awake' \in {"app", "none"}
  /\ UNCHANGED credentials

\* The provisioner hands back.
HandBack ==
  /\ awake = "prov"
  /\ choice' = "app"
  /\ UNCHANGED <<awake, credentials>>

\* The erase gesture.
Forget ==
  /\ awake = "app"
  /\ choice = "app"
  /\ credentials' = NoCredentials
  /\ UNCHANGED <<choice, awake>>

\* The provisioner replaces the credentials: first out with the old ...
Discard ==
  /\ awake = "prov"
  /\ choice = "prov"
  /\ credentials' = NoCredentials
  /\ UNCHANGED <<choice, awake>>

\* ... then in with the new.
Learn ==
  /\ awake = "prov"
  /\ choice = "prov"
  /\ credentials = NoCredentials
  /\ credentials' \in Credentials
  /\ UNCHANGED <<choice, awake>>

\* A technician flashes new images: the device stops, and the choice is what
\* the new provisioner makes of it.
Service ==
  /\ awake' = "none"
  /\ choice' \in Images
  /\ UNCHANGED credentials

Next ==
  \/ Boot \/ Stop \/ HandOver \/ HandBack \/ Forget \/ Discard \/ Learn \/ Service

Spec == Init /\ [][Next]_vars
=============================================================================
