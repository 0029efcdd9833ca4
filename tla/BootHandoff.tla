---------------------------- MODULE BootHandoff ----------------------------
(***************************************************************************)
(* The hand-off between the application and the Wi-Fi provisioner.         *)
(*                                                                         *)
(* Two images share one flash.  MCUboot picks one at every boot from the   *)
(* boot request, a small record the application writes and the             *)
(* provisioner clears; the provisioner leaves Wi-Fi credentials in the     *)
(* store the application reads.  Only flash survives a reset, and a reset  *)
(* (power cut, watchdog, crash) may fall between any two flash operations. *)
(*                                                                         *)
(* The three provisioning protocols (Improv, ZTP, SoftAP) share the frame  *)
(* modelled here: window, test, replace credentials, clear, reboot.  What  *)
(* is particular to one of them has a module of its own.                   *)
(***************************************************************************)

CONSTANTS
  Networks,      \* networks somebody may send settings for
  Joinable,      \* those whose settings let the device join
  NoNetwork,     \* the empty credential slot
  ProvImages,    \* what may be found in prov_partition
  BakedBuilds,   \* do the applications flashed carry compile-time credentials?
  FlashFaults    \* "fail": an operation returns an error; "torn": a power cut
                 \* leaves the record without its reason word

ASSUME NetworksAssumption ==
  /\ Joinable \subseteq Networks
  /\ NoNetwork \notin Networks

ASSUME FlashAssumption ==
  /\ ProvImages \subseteq {"absent", "invalid", "valid"}
  /\ BakedBuilds \subseteq BOOLEAN
  /\ FlashFaults \subseteq {"fail", "torn"}

VARIABLES
  (* flash *)
  request,          \* bootreq_partition
  stored,           \* the one wifi_credentials entry
  provImage,        \* prov_partition
  baked,            \* does the flashed application carry credentials?
  (* the running image *)
  running,          \* "mcuboot", "app" or "prov"
  pc,               \* where its flow of control is
  (* memory, lost at a reset *)
  handoff,          \* application: why it is handing over
  returnOnExpiry,   \* provisioner: return_on_expiry
  candidate         \* provisioner: the settings under test

flash == <<request, stored, provImage, baked>>
memory == <<handoff, returnOnExpiry, candidate>>
vars == <<flash, running, pc, memory>>

NoRequest == "none"
Requests == {"NO_CREDENTIALS", "OPERATOR", "torn"}
Handoffs == {"none", "boot", "pattern", "erase"}

PcOf(image) ==
  CASE image = "mcuboot" -> {"select"}
    [] image = "app"  -> {"init", "station", "offline", "erased", "erasing",
                          "writing", "ack", "reboot"}
    [] image = "prov" -> {"start", "window", "testing", "replace", "store",
                          "grace", "idle", "exit", "reboot"}

TypeOK ==
  /\ request \in Requests \cup {NoRequest}
  /\ stored \in Networks \cup {NoNetwork}
  /\ provImage \in ProvImages
  /\ baked \in BakedBuilds
  /\ running \in {"mcuboot", "app", "prov"}
  /\ pc \in PcOf(running)
  /\ handoff \in Handoffs
  /\ returnOnExpiry \in BOOLEAN
  /\ candidate \in Networks \cup {NoNetwork}

-----------------------------------------------------------------------------
(* Helpers *)

\* app_wifi_creds_resolve() as the application is built: store, then Kconfig.
CredsResolve == stored # NoNetwork \/ baked

\* A step of the running image that stays in it.
Goto(label) == running' = running /\ pc' = label

\* Every reset, wanted or not: memory is gone and MCUboot runs next.
Reset ==
  /\ running' = "mcuboot"
  /\ pc' = "select"
  /\ handoff' = "none"
  /\ returnOnExpiry' = FALSE
  /\ candidate' = NoNetwork

\* Outcomes of erasing a value in flash: an error may leave it in place.
Erased(old, empty) == {empty} \cup IF "fail" \in FlashFaults THEN {old} ELSE {}

\* A device as it leaves the factory (flash.sh --erase-all).
Init ==
  /\ request = NoRequest
  /\ stored = NoNetwork
  /\ provImage \in ProvImages
  /\ baked \in BakedBuilds
  /\ running = "mcuboot"
  /\ pc = "select"
  /\ handoff = "none"
  /\ returnOnExpiry = FALSE
  /\ candidate = NoNetwork

-----------------------------------------------------------------------------
(* MCUboot: boot_go_hook *)

ProvisionerRequested == request # NoRequest

BootProvisioner ==
  /\ running = "mcuboot"
  /\ ProvisionerRequested
  /\ provImage = "valid"            \* header loads and signature validates
  /\ running' = "prov"
  /\ pc' = "start"
  /\ UNCHANGED <<flash, memory>>

BootApplication ==
  /\ running = "mcuboot"
  /\ ~ (ProvisionerRequested /\ provImage = "valid")
  /\ running' = "app"
  /\ pc' = "init"
  /\ UNCHANGED <<flash, memory>>

-----------------------------------------------------------------------------
(* Application *)

\* Fault: the application does not look for a provisioner before it asks.
ProvisionerAssumed == TRUE

\* boot_request_provisioner_present: the image magic only, not the signature.
ProvisionerPresent == provImage # "absent"

\* The label of an application that is not handing over.
Serving == IF CredsResolve THEN "station" ELSE "offline"

\* app_net_init: without credentials, a hand-over if there is a provisioner.
AppInit ==
  /\ running = "app" /\ pc = "init"
  /\ IF CredsResolve \/ ~ ProvisionerPresent
     THEN Goto(Serving) /\ UNCHANGED handoff
     ELSE Goto("erasing") /\ handoff' = "boot"
  /\ UNCHANGED <<flash, returnOnExpiry, candidate>>

\* The connectivity watchdog's last resort, APP_NET_REBOOT_TIMEOUT_S without a
\* connection (no request is set).  With credentials it takes an access point
\* or a gateway that stays away ...
LastResortReboot ==
  /\ running = "app" /\ pc = "station"
  /\ Reset
  /\ UNCHANGED flash

\* ... without them it is a matter of time: the watchdog's tick is scheduled
\* before app_net_init() looks for credentials, and never asks for them.
OfflineReboot ==
  /\ running = "app" /\ pc = "offline"
  /\ Reset
  /\ UNCHANGED flash

\* GESTURE_PROVISION
ProvisionGesture ==
  /\ running = "app" /\ pc \in {"station", "offline"}
  /\ ProvisionerPresent
  /\ Goto("erasing")
  /\ handoff' = "pattern"
  /\ UNCHANGED <<flash, returnOnExpiry, candidate>>

\* GESTURE_ERASE, up to the return of wifi_credentials_delete_all()
EraseGesture ==
  /\ running = "app" /\ pc \in {"station", "offline"}
  /\ stored' \in Erased(stored, NoNetwork)
  /\ Goto("erased")
  /\ handoff' = "erase"
  /\ UNCHANGED <<request, provImage, baked, returnOnExpiry, candidate>>

\* GESTURE_ERASE, the rest: with no provisioner, restart without credentials.
EraseHandOver ==
  /\ running = "app" /\ pc = "erased"
  /\ Goto(IF ProvisionerPresent THEN "erasing" ELSE "reboot")
  /\ UNCHANGED <<flash, memory>>

\* Why the provisioner is asked for: see request_provisioner()'s callers.
Reason ==
  IF handoff = "boot" \/ (handoff = "erase" /\ ~ CredsResolve)
  THEN "NO_CREDENTIALS" ELSE "OPERATOR"

\* boot_request_set: flatten ...
EraseRequest ==
  /\ running = "app" /\ pc = "erasing"
  /\ request' = NoRequest
  /\ Goto("writing")
  /\ UNCHANGED <<stored, provImage, baked, memory>>

\* ... then write; a gesture is acknowledged on the LED first.
WriteRequest ==
  /\ running = "app" /\ pc = "writing"
  /\ request' = Reason
  /\ Goto(IF handoff = "boot" THEN "reboot" ELSE "ack")
  /\ UNCHANGED <<stored, provImage, baked, memory>>

\* Either half of boot_request_set returns an error: only the erase gesture
\* reboots all the same.
RequestFails ==
  /\ "fail" \in FlashFaults
  /\ running = "app" /\ pc \in {"erasing", "writing"}
  /\ request' \in {request, NoRequest}
  /\ Goto(IF handoff = "erase" THEN "reboot" ELSE Serving)
  /\ handoff' = "none"
  /\ UNCHANGED <<stored, provImage, baked, returnOnExpiry, candidate>>

\* Fault: the gesture is acknowledged but the device does not restart.
AckWithoutReboot ==
  /\ running = "app" /\ pc = "ack"
  /\ Goto("station")
  /\ UNCHANGED <<flash, memory>>

\* ack_and_reboot: the acknowledgement has been shown.
AckShown ==
  /\ running = "app" /\ pc = "ack"
  /\ Goto("reboot")
  /\ UNCHANGED <<flash, memory>>

-----------------------------------------------------------------------------
(* Provisioner *)

\* Fault: the provisioner takes the request down when it starts.
ProvStartConsumes ==
  /\ running = "prov" /\ pc = "start"
  /\ returnOnExpiry' = (request = "OPERATOR")
  /\ request' = NoRequest
  /\ Goto("window")
  /\ UNCHANGED <<stored, provImage, baked, handoff, candidate>>

\* improv_run / ztp_run / softap_run up to the open window.
ProvStart ==
  /\ running = "prov" /\ pc = "start"
  /\ returnOnExpiry' = (request = "OPERATOR")
  /\ Goto("window")
  /\ UNCHANGED <<flash, handoff, candidate>>

\* bt_enable() or ap_start() failed: reboot, and the request stays set.
ProvRadioFails ==
  /\ running = "prov" /\ pc = "start"
  /\ Goto("reboot")
  /\ UNCHANGED <<flash, memory>>

\* Fault: settings are stored without a test.
ReceiveUntested(n) ==
  /\ running = "prov" /\ pc = "window"
  /\ candidate' = n
  /\ Goto("replace")
  /\ UNCHANGED <<flash, handoff, returnOnExpiry>>

\* Settings for a network arrive; app_net_try_credentials() starts.
ReceiveSettings(n) ==
  /\ running = "prov" /\ pc = "window"
  /\ candidate' = n
  /\ Goto("testing")
  /\ UNCHANGED <<flash, handoff, returnOnExpiry>>

\* ZTP only: a bundle without a wifi.v2 module is applied.
BundleWithoutWifi ==
  /\ running = "prov" /\ pc = "window"
  /\ Goto("grace")
  /\ UNCHANGED <<flash, memory>>

TestPasses ==
  /\ running = "prov" /\ pc = "testing"
  /\ candidate \in Joinable
  /\ Goto("replace")
  /\ UNCHANGED <<flash, memory>>

\* A test may fail on a good network too: it is out of range, or times out.
TestFails ==
  /\ running = "prov" /\ pc = "testing"
  /\ candidate' = NoNetwork
  /\ Goto("window")
  /\ UNCHANGED <<flash, handoff, returnOnExpiry>>

\* wifi_credentials_delete_all(), whose result is ignored
DeleteOld ==
  /\ running = "prov" /\ pc = "replace"
  /\ stored' \in Erased(stored, NoNetwork)
  /\ Goto("store")
  /\ UNCHANGED <<request, provImage, baked, memory>>

\* Fault: the new entry is stored but the boot request goes with the old one.
StoreNewForgets ==
  /\ running = "prov" /\ pc = "store"
  /\ stored' = candidate
  /\ candidate' = NoNetwork
  /\ request' = NoRequest
  /\ Goto("grace")
  /\ UNCHANGED <<provImage, baked, handoff, returnOnExpiry>>

\* wifi_credentials_set_personal() into the one slot.  ZTP goes back to its
\* window when the Cumulocity settings that follow cannot be stored.
StoreNew ==
  /\ running = "prov" /\ pc = "store"
  /\ stored \in {NoNetwork, candidate}
  /\ stored' = candidate
  /\ candidate' = NoNetwork
  /\ running' = running
  /\ pc' \in {"grace"} \cup IF "fail" \in FlashFaults THEN {"window"} ELSE {}
  /\ UNCHANGED <<request, provImage, baked, handoff, returnOnExpiry>>

StoreFails ==
  /\ "fail" \in FlashFaults
  /\ running = "prov" /\ pc = "store"
  /\ candidate' = NoNetwork
  /\ Goto("window")
  /\ UNCHANGED <<flash, handoff, returnOnExpiry>>

\* The client has read its result, or RESULT_GRACE_MS have passed.
GraceOver ==
  /\ running = "prov" /\ pc = "grace"
  /\ Goto("exit")
  /\ UNCHANGED <<flash, memory>>

\* Fault: the end of the window forgets how the provisioner was entered.
WindowExpiresByStore ==
  /\ running = "prov" /\ pc = "window"
  /\ Goto(IF stored # NoNetwork THEN "exit" ELSE "idle")
  /\ UNCHANGED <<flash, memory>>

\* Fault: the end of the window enters the application without a reset.
WindowExpiresInPlace ==
  /\ running = "prov" /\ pc = "window"
  /\ Goto(IF returnOnExpiry \/ stored # NoNetwork THEN "station" ELSE "idle")
  /\ UNCHANGED <<flash, memory>>

\* The window ends.  The provisioner resolves from the store alone: it is
\* built without compile-time credentials.
WindowExpires ==
  /\ running = "prov" /\ pc = "window"
  /\ Goto(IF returnOnExpiry \/ stored # NoNetwork THEN "exit" ELSE "idle")
  /\ UNCHANGED <<flash, memory>>

\* sw0 opens a new window in Improv and ZTP; SoftAP opens one by itself.
NewWindow ==
  /\ running = "prov" /\ pc = "idle"
  /\ Goto("window")
  /\ UNCHANGED <<flash, memory>>

\* Fault: the provisioner leaves the request set when it reboots.
ClearForgotten ==
  /\ running = "prov" /\ pc = "exit"
  /\ Goto("reboot")
  /\ UNCHANGED <<flash, memory>>

\* reboot_now: boot_request_clear(), and the reboot whatever it returned
ClearRequest ==
  /\ running = "prov" /\ pc = "exit"
  /\ request' \in Erased(request, NoRequest)
  /\ Goto("reboot")
  /\ UNCHANGED <<stored, provImage, baked, memory>>

-----------------------------------------------------------------------------
(* Resets and maintenance *)

\* boot_request_reboot
Reboot ==
  /\ pc = "reboot"
  /\ Reset
  /\ UNCHANGED flash

\* Power cut, crash or liveness-watchdog reset; one that falls into the write
\* of the boot request may keep its magic and target but not its reason.
PowerCut ==
  /\ running # "mcuboot"
  /\ request' \in {request} \cup
       IF pc = "writing" /\ "torn" \in FlashFaults THEN {"torn"} ELSE {}
  /\ Reset
  /\ UNCHANGED <<stored, provImage, baked>>

\* flash.sh, with or without --app-only, keeps storage and bootreq.
Reflash ==
  /\ provImage' \in ProvImages
  /\ baked' \in BakedBuilds
  /\ Reset
  /\ UNCHANGED <<request, stored>>

-----------------------------------------------------------------------------

MCUboot == BootProvisioner \/ BootApplication

\* What the two images do of their own accord.
Application ==
  \/ AppInit \/ OfflineReboot \/ EraseHandOver \/ EraseRequest
  \/ WriteRequest \/ RequestFails \/ AckShown

Provisioner ==
  \/ ProvStart \/ TestPasses \/ TestFails \/ DeleteOld \/ StoreNew \/ StoreFails
  \/ GraceOver \/ WindowExpires \/ ClearRequest

\* What somebody, the access point or the radio does to them.
Environment ==
  \/ LastResortReboot \/ ProvisionGesture \/ EraseGesture
  \/ ProvRadioFails \/ BundleWithoutWifi
  \/ \E n \in Networks : ReceiveSettings(n)
  \/ PowerCut \/ Reflash

OwnSteps == MCUboot \/ Application \/ Provisioner \/ NewWindow \/ Reboot

Next == OwnSteps \/ Environment

\* Nothing in MCUboot or in an image's own flow waits for ever: flash and
\* radio operations return, and the window, the test and the grace period are
\* timed, as is the life of an application without credentials.  No fairness is
\* assumed of the environment, nor of a new window: only SoftAP opens one unasked.
Fairness == WF_vars(MCUboot) /\ WF_vars(Application) /\ WF_vars(Provisioner) /\ WF_vars(Reboot)

Spec == Init /\ [][Next]_vars
FairSpec == Spec /\ Fairness

-----------------------------------------------------------------------------
(* Properties *)

(* boot_request.h: only the provisioner clears the request, so a reset or a
   power cut at any point inside it, up to the reboot it asked for itself,
   comes back into the provisioner. *)
RequestHeldInProvisioner ==
  running = "prov" /\ pc # "reboot" => request # NoRequest

(* The provisioner goes idle, off the air until somebody presses sw0, only on a
   device whose store is empty and whose operator was not promised a return to
   the application: return_on_expiry, read once at the start, must still agree
   with the flash record when the window ends. *)
IdleIsJustified ==
  pc = "idle" => stored = NoNetwork /\ request # "OPERATOR"

(* What the application finds in the store it can join with: whatever fails,
   and wherever power is cut, untested settings are never left there. *)
OnlyVerifiedStored == stored \in Joinable \cup {NoNetwork}

(* boot-layout: only the application sets the request, and only the provisioner
   clears it.  Needs flash that works and a provisioner that is valid or absent:
   an application that keeps finding an invalid one rewrites its request. *)
RequestOwnership ==
  [][/\ request = NoRequest /\ request' # NoRequest => running = "app"
     /\ request # NoRequest /\ request' = NoRequest => running = "prov"]_vars

(* No automatic fallback: a device that serves cannot be found in the
   provisioner after a power cut, because no request is left over from an
   earlier hand-over when a usable provisioner is there to honour it. *)
NoStaleRequest ==
  running = "app" /\ pc \notin {"ack", "reboot"} /\ provImage = "valid"
    => request = NoRequest

\* The environment stops disturbing the device.  (Its steps cannot be counted
\* out: a power cut looks like a reboot the device wanted.)
LeftAlone == <>[][OwnSteps]_vars

(* A device left alone, by its operator and by its access point, comes to one
   kind of rest and never moves between its images again: it serves with
   credentials, or it waits for settings in a provisioner that owes nobody a
   return.  Only a device without credentials to which no provisioner was ever
   flashed finds no rest, and it cannot: nothing is left that could help it,
   and the application restarts itself every APP_NET_REBOOT_TIMEOUT_S, though
   prov_handoff.h has it stay offline. *)
Serves == running = "app" /\ pc = "station" /\ CredsResolve
Waits == pc \in {"window", "idle"} /\ ~ returnOnExpiry /\ stored = NoNetwork
Stranded == running # "prov" /\ provImage = "absent" /\ ~ CredsResolve
SettlesWhenLeftAlone ==
  LeftAlone => <>[]Serves \/ <>[]Waits \/ <>[]Stranded

(* Entered with the button pattern, the end of the window returns to the
   application, whatever was tried and failed in between. *)
OperatorReturns ==
  LeftAlone => (running = "prov" /\ returnOnExpiry ~> running = "app")

(* improv.c and ztp.c: entered with the button pattern, the application still
   has working credentials, so the end of the window returns to it. *)
OperatorHasCredentials == pc = "window" /\ returnOnExpiry => CredsResolve

-----------------------------------------------------------------------------
(* Refinement: the durable choice is a request a valid provisioner honours. *)

Promise == INSTANCE TwoImages WITH
  Credentials <- Networks,
  NoCredentials <- NoNetwork,
  choice <- IF request # NoRequest /\ provImage = "valid" THEN "prov" ELSE "app",
  awake <- IF running = "mcuboot" THEN "none" ELSE running,
  credentials <- stored

(* The image that boots is always the one durably chosen, and each image stays
   within its rights: see TwoImages. *)
KeepsPromise == Promise!Spec
=============================================================================
