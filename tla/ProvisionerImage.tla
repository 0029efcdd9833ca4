-------------------------- MODULE ProvisionerImage --------------------------
(***************************************************************************)
(* The provisioner image with its three transports: which one a build has  *)
(* is chosen when it is made, and fills the same credential store.         *)
(***************************************************************************)
EXTENDS SoftAp, Improv, BundleApply

VARIABLE transport    \* CONFIG_APP_WIFI_PROV_SOFTAP, CONFIG_APP_PROV_ZTP or neither

imageVars == <<stored, testVars, apVars, improvVars, bundleVars, transport>>

\* A device with no network, or one that let it in when it was stored.
ImageInit ==
  /\ transport \in {"softap", "improv", "ztp"}
  /\ stored \in Good \cup {NoNetwork}
  /\ TestInit /\ ApInit /\ ImprovInit /\ BundleInit
  /\ transport # "improv" => needsAuth /\ operator

Others(t) ==
  /\ transport = t /\ UNCHANGED transport
  /\ t # "softap" => UNCHANGED <<testVars, apVars>>
  /\ t # "improv" => UNCHANGED improvVars
  /\ t # "ztp" => UNCHANGED bundleVars

ImageNext ==
  \/ Others("softap") /\ ApNext
  \/ Others("improv") /\ ImprovNext
  \/ Others("ztp") /\ BundleNext

\* Main is never starved; the controller and the work queue answer.  Nothing is
\* assumed of clients, presses or networks.
Fairness ==
  /\ WF_imageVars(Others("improv") /\ ImprovMain)
  /\ WF_imageVars(Others("improv") /\ Background)

ImageSpec == ImageInit /\ [][ImageNext]_imageVars /\ Fairness

(* Every transport and what they share have their types. *)
ImageTypeOK ==
  StoreOK /\ TestTypeOK /\ ApTypeOK /\ ImprovTypeOK /\ BundleTypeOK

(* WindowAdvertises, where there is a window over Bluetooth. *)
ImprovAdvertises == transport = "improv" => WindowAdvertises
=============================================================================
