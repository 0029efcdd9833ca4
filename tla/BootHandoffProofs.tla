------------------------- MODULE BootHandoffProofs -------------------------
(***************************************************************************)
(* Proofs about BootHandoff, for all networks, builds and image states.    *)
(* The first half holds under every flash fault; the second half, about    *)
(* who owns the boot request, assumes SoundDevice.                         *)
(***************************************************************************)
EXTENDS BootHandoff, TLAPS

(* The inductive invariant: besides the properties themselves, the promise
   read at the start agrees with the record for as long as the provisioner
   runs, and only a tested candidate reaches the store. *)
PromiseAgrees ==
  running = "prov" /\ pc \notin {"start", "reboot"}
    => (returnOnExpiry <=> request = "OPERATOR")

CandidateTested ==
  running = "prov" /\ pc \in {"replace", "store"} => candidate \in Joinable

IInv ==
  /\ TypeOK
  /\ RequestHeldInProvisioner
  /\ PromiseAgrees
  /\ IdleIsJustified
  /\ CandidateTested
  /\ OnlyVerifiedStored

LEMMA InitIInv == Init => IInv
  BY NetworksAssumption, FlashAssumption
  DEF Init, IInv, TypeOK, PcOf, Requests, NoRequest, Handoffs,
      RequestHeldInProvisioner, PromiseAgrees, IdleIsJustified,
      CandidateTested, OnlyVerifiedStored

(* A reset keeps the invariant whatever happens to provImage, baked and the
   reason word of the request. *)
LEMMA ResetKeepsIInv ==
  ASSUME IInv, Reset,
         request' \in Requests \cup {NoRequest},
         stored' = stored,
         provImage' \in ProvImages, baked' \in BakedBuilds
  PROVE  IInv'
  BY DEF Reset, IInv, TypeOK, PcOf, Handoffs, RequestHeldInProvisioner,
         PromiseAgrees, IdleIsJustified, CandidateTested, OnlyVerifiedStored

LEMMA NextIInv == IInv /\ [Next]_vars => IInv'
<1> SUFFICES ASSUME IInv, [Next]_vars PROVE IInv'
  OBVIOUS
<1> USE NetworksAssumption DEF IInv, TypeOK, PcOf, Goto, flash, memory,
        Requests, NoRequest, Handoffs, RequestHeldInProvisioner,
        PromiseAgrees, IdleIsJustified, CandidateTested, OnlyVerifiedStored
<1>1. CASE MCUboot
  BY <1>1 DEF MCUboot, BootProvisioner, BootApplication, ProvisionerRequested
<1>2. CASE Application
  <2>1. CASE AppInit
    BY <2>1 DEF AppInit, Serving
  <2>2. CASE EraseHandOver
    BY <2>2 DEF EraseHandOver
  <2>3. CASE EraseRequest
    BY <2>3 DEF EraseRequest
  <2>4. CASE WriteRequest
    BY <2>4 DEF WriteRequest, Reason
  <2>5. CASE RequestFails
    BY <2>5 DEF RequestFails, Serving
  <2>6. CASE AckShown
    BY <2>6 DEF AckShown
  <2>7. CASE OfflineReboot
    BY <2>7, ResetKeepsIInv DEF OfflineReboot
  <2>8. QED
    BY <1>2, <2>1, <2>2, <2>3, <2>4, <2>5, <2>6, <2>7 DEF Application
<1>3. CASE Provisioner
  <2>1. CASE ProvStart
    BY <2>1 DEF ProvStart
  <2>2. CASE TestPasses
    BY <2>2 DEF TestPasses
  <2>3. CASE TestFails
    BY <2>3 DEF TestFails
  <2>4. CASE DeleteOld
    BY <2>4 DEF DeleteOld, Erased
  <2>5. CASE StoreNew
    BY <2>5 DEF StoreNew
  <2>6. CASE StoreFails
    BY <2>6 DEF StoreFails
  <2>7. CASE GraceOver
    BY <2>7 DEF GraceOver
  <2>8. CASE WindowExpires
    BY <2>8 DEF WindowExpires
  <2>9. CASE ClearRequest
    BY <2>9 DEF ClearRequest, Erased
  <2>10. QED
    BY <1>3, <2>1, <2>2, <2>3, <2>4, <2>5, <2>6, <2>7, <2>8, <2>9
    DEF Provisioner
<1>4. CASE Reboot
  BY <1>4, ResetKeepsIInv DEF Reboot
<1>5. CASE Environment
  <2>1. CASE LastResortReboot
    BY <2>1, ResetKeepsIInv DEF LastResortReboot
  <2>2. CASE ProvisionGesture
    BY <2>2 DEF ProvisionGesture
  <2>3. CASE EraseGesture
    BY <2>3 DEF EraseGesture, Erased
  <2>4. CASE ProvRadioFails
    BY <2>4 DEF ProvRadioFails
  <2>5. CASE BundleWithoutWifi
    BY <2>5 DEF BundleWithoutWifi
  <2>6. ASSUME NEW n \in Networks, ReceiveSettings(n) PROVE IInv'
    BY <2>6 DEF ReceiveSettings
  <2>7. CASE PowerCut
    BY <2>7, ResetKeepsIInv DEF PowerCut
  <2>8. CASE Reflash
    BY <2>8, ResetKeepsIInv DEF Reflash
  <2>9. QED
    BY <1>5, <2>1, <2>2, <2>3, <2>4, <2>5, <2>6, <2>7, <2>8
    DEF Environment
<1>6. CASE NewWindow
  BY <1>6 DEF NewWindow
<1>7. CASE UNCHANGED vars
  BY <1>7 DEF vars
<1>8. QED
  BY <1>1, <1>2, <1>3, <1>4, <1>5, <1>6, <1>7 DEF Next, OwnSteps

THEOREM Invariance == Spec => []IInv
  BY InitIInv, NextIInv, PTL DEF Spec

(* Every variable keeps its type, and control stays inside the running image. *)
THEOREM TypeCorrect == Spec => []TypeOK
<1>1. IInv => TypeOK
  BY DEF IInv
<1>2. QED
  BY <1>1, Invariance, PTL

(* A reset or a power cut inside the provisioner comes back into it. *)
THEOREM RequestHeld == Spec => []RequestHeldInProvisioner
<1>1. IInv => RequestHeldInProvisioner
  BY DEF IInv
<1>2. QED
  BY <1>1, Invariance, PTL

(* The provisioner never idles with credentials or against the operator. *)
THEOREM IdleJustified == Spec => []IdleIsJustified
<1>1. IInv => IdleIsJustified
  BY DEF IInv
<1>2. QED
  BY <1>1, Invariance, PTL

(* Settings that were never joined with are never in the store. *)
THEOREM VerifiedStored == Spec => []OnlyVerifiedStored
<1>1. IInv => OnlyVerifiedStored
  BY DEF IInv
<1>2. QED
  BY <1>1, Invariance, PTL

-----------------------------------------------------------------------------
(* A device whose flash works and whose provisioner, if any, is valid.     *)

SoundDevice == "fail" \notin FlashFaults /\ "invalid" \notin ProvImages

(* A hand-over and a running provisioner both need a provisioner, and there is
   one: a record can only be left over where MCUboot would have honoured it. *)
ValidWhenUsed ==
  \/ running = "app" /\ pc \in {"erasing", "writing", "ack"}
  \/ running = "prov"
  => provImage = "valid"

SoundInv == IInv /\ NoStaleRequest /\ ValidWhenUsed

LEMMA InitSoundInv == Init => SoundInv
  BY InitIInv DEF SoundInv, Init, NoStaleRequest, ValidWhenUsed

LEMMA NextSoundInv ==
  ASSUME SoundDevice
  PROVE  SoundInv /\ [Next]_vars => SoundInv'
<1> SUFFICES ASSUME SoundInv, [Next]_vars PROVE NoStaleRequest' /\ ValidWhenUsed'
  BY NextIInv DEF SoundInv
<1> USE FlashAssumption DEF SoundDevice, SoundInv, IInv, TypeOK, PcOf, Goto,
        flash, memory, Requests, NoRequest, NoStaleRequest, ValidWhenUsed
<1>1. CASE MCUboot
  BY <1>1 DEF MCUboot, BootProvisioner, BootApplication, ProvisionerRequested
<1>2. CASE Application
  BY <1>2 DEF Application, AppInit, OfflineReboot, Reset, EraseHandOver,
              EraseRequest, WriteRequest, RequestFails, AckShown,
              ProvisionerPresent, Serving
<1>3. CASE Provisioner
  BY <1>3 DEF Provisioner, ProvStart, TestPasses, TestFails, DeleteOld, StoreNew,
              StoreFails, GraceOver, WindowExpires, ClearRequest
<1>4. CASE Reboot
  BY <1>4 DEF Reboot, Reset
<1>5. CASE Environment
  <2>1. CASE ProvisionGesture \/ EraseGesture
    BY <2>1 DEF ProvisionGesture, EraseGesture, ProvisionerPresent
  <2>2. CASE LastResortReboot \/ PowerCut \/ Reflash
    BY <2>2 DEF LastResortReboot, PowerCut, Reflash, Reset
  <2>3. CASE ProvRadioFails \/ BundleWithoutWifi
    BY <2>3 DEF ProvRadioFails, BundleWithoutWifi
  <2>4. CASE \E n \in Networks : ReceiveSettings(n)
    BY <2>4 DEF ReceiveSettings
  <2>5. QED
    BY <1>5, <2>1, <2>2, <2>3, <2>4 DEF Environment
<1>6. CASE NewWindow
  BY <1>6 DEF NewWindow
<1>7. CASE UNCHANGED vars
  BY <1>7 DEF vars
<1>8. QED
  BY <1>1, <1>2, <1>3, <1>4, <1>5, <1>6, <1>7 DEF Next, OwnSteps

(* A device that serves is not sent to the provisioner by a power cut. *)
THEOREM NoAutomaticFallback ==
  ASSUME SoundDevice
  PROVE  Spec => []NoStaleRequest
<1>1. SoundInv => NoStaleRequest
  BY DEF SoundInv
<1>2. QED
  BY <1>1, InitSoundInv, NextSoundInv, PTL DEF Spec

-----------------------------------------------------------------------------
(* Only the application sets the request, only the provisioner clears it. *)
Owned ==
  /\ request = NoRequest /\ request' # NoRequest => running = "app"
  /\ request # NoRequest /\ request' = NoRequest => running = "prov"

LEMMA StepOwned ==
  ASSUME SoundDevice, SoundInv, [Next]_vars
  PROVE  [Owned]_vars
<1> USE DEF SoundDevice, SoundInv, IInv, TypeOK, PcOf, flash, Owned
<1>1. CASE MCUboot \/ NewWindow \/ Reboot \/ UNCHANGED vars
  BY <1>1 DEF MCUboot, BootProvisioner, BootApplication, NewWindow, Reboot, vars
<1>2. CASE Application
  BY <1>2 DEF Application, AppInit, OfflineReboot, EraseHandOver,
              EraseRequest, WriteRequest, RequestFails, AckShown, NoStaleRequest, ValidWhenUsed
<1>3. CASE Provisioner
  <2>1. running = "prov"
    BY <1>3 DEF Provisioner, ProvStart, TestPasses, TestFails, DeleteOld, StoreNew,
                StoreFails, GraceOver, WindowExpires, ClearRequest
  <2>2. request' = request \/ request' = NoRequest
    BY <1>3 DEF Provisioner, ProvStart, TestPasses, TestFails, DeleteOld, StoreNew,
                StoreFails, GraceOver, WindowExpires, ClearRequest, Erased, memory
  <2>3. QED
    BY <2>1, <2>2
<1>4. CASE Environment
  BY <1>4 DEF Environment, LastResortReboot, ProvisionGesture,
              EraseGesture, ProvRadioFails, BundleWithoutWifi,
              ReceiveSettings, PowerCut, Reflash, NoRequest
<1>5. QED
  BY <1>1, <1>2, <1>3, <1>4 DEF Next, OwnSteps

(* boot-layout: who sets and who clears the boot request. *)
THEOREM Ownership ==
  ASSUME SoundDevice
  PROVE  Spec => RequestOwnership
<1>1. SoundInv /\ [Next]_vars => [Owned]_vars
  BY StepOwned
<1>2. Spec => [][Owned]_vars
  BY <1>1, InitSoundInv, NextSoundInv, PTL DEF Spec
<1>3. QED
  BY <1>2 DEF RequestOwnership, Owned

-----------------------------------------------------------------------------
(* BootHandoff implements TwoImages.                                       *)

LEMMA InitPromise == Init => Promise!Init
  BY DEF Init, Promise!Init

LEMMA StepPromise ==
  ASSUME SoundDevice, SoundInv, SoundInv', [Next]_vars
  PROVE  [Promise!Next]_Promise!vars
<1> USE FlashAssumption
    DEF SoundDevice, SoundInv, IInv, TypeOK, PcOf, Goto, flash, memory,
        Requests, Promise!Next, Promise!vars
<1>1. CASE MCUboot
  BY <1>1 DEF MCUboot, BootProvisioner, BootApplication, ProvisionerRequested,
              Promise!Boot
<1>2. CASE AppInit \/ EraseHandOver \/ AckShown \/ RequestFails
  BY <1>2 DEF AppInit, EraseHandOver, AckShown, RequestFails
<1>3. CASE EraseRequest
  BY <1>3 DEF EraseRequest, NoStaleRequest, ValidWhenUsed
<1>4. CASE WriteRequest
  BY <1>4 DEF WriteRequest, Reason, NoRequest, ValidWhenUsed, Promise!HandOver
<1>5. CASE ProvStart \/ TestPasses \/ TestFails \/ StoreFails \/ GraceOver \/ WindowExpires
  BY <1>5 DEF ProvStart, TestPasses, TestFails, StoreFails, GraceOver, WindowExpires
<1>6. CASE DeleteOld
  BY <1>6 DEF DeleteOld, Erased, RequestHeldInProvisioner, ValidWhenUsed,
              Promise!Discard
<1>7. CASE StoreNew
  BY <1>7, NetworksAssumption
  DEF StoreNew, RequestHeldInProvisioner, ValidWhenUsed, CandidateTested,
      Promise!Learn
<1>8. CASE ClearRequest
  BY <1>8 DEF ClearRequest, Erased, ValidWhenUsed, Promise!HandBack
<1>9. CASE Reboot \/ LastResortReboot \/ OfflineReboot
  BY <1>9 DEF Reboot, LastResortReboot, OfflineReboot, Reset, Promise!Stop
<1>10. CASE ProvisionGesture
  BY <1>10 DEF ProvisionGesture
<1>11. CASE EraseGesture
  BY <1>11 DEF EraseGesture, Erased, NoStaleRequest, Promise!Forget
<1>12. CASE ProvRadioFails \/ BundleWithoutWifi \/ NewWindow
  BY <1>12 DEF ProvRadioFails, BundleWithoutWifi, NewWindow
<1>13. CASE \E n \in Networks : ReceiveSettings(n)
  BY <1>13 DEF ReceiveSettings
<1>14. CASE PowerCut
  <2>1. CASE request' = request
    BY <1>14, <2>1 DEF PowerCut, Reset, Promise!Stop
  <2>2. CASE pc = "writing" /\ request' = "torn"
    BY <1>14, <2>2 DEF PowerCut, Reset, NoRequest, ValidWhenUsed, Promise!HandOver
  <2>3. QED
    BY <1>14, <2>1, <2>2 DEF PowerCut
<1>15. CASE Reflash
  BY <1>15 DEF Reflash, Reset, Promise!Service, Promise!Images
<1>16. CASE UNCHANGED vars
  BY <1>16 DEF vars
<1>17. QED
  BY <1>1, <1>2, <1>3, <1>4, <1>5, <1>6, <1>7, <1>8, <1>9, <1>10, <1>11,
     <1>12, <1>13, <1>14, <1>15, <1>16
  DEF Next, OwnSteps, Application, Provisioner, Environment

(* The image that boots is always the one durably chosen, whatever is cut,
   flashed or pressed, and each image stays within its rights. *)
THEOREM Refinement ==
  ASSUME SoundDevice
  PROVE  Spec => KeepsPromise
<1>1. SoundInv /\ SoundInv' /\ [Next]_vars => [Promise!Next]_Promise!vars
  BY StepPromise
<1>2. Spec => []SoundInv
  BY InitSoundInv, NextSoundInv, PTL DEF Spec
<1>3. Spec => Promise!Spec
  BY <1>1, <1>2, InitPromise, PTL DEF Spec, Promise!Spec
<1>4. QED
  BY <1>3 DEF KeepsPromise
=============================================================================
