-------------------------- MODULE ProvisionerProofs --------------------------
(***************************************************************************)
(* Proofs about the provisioner image and the transports in it, for all    *)
(* networks, bundles and lengths of the event queue: who may provision the *)
(* device and what becomes of settings (Improv), what a test of            *)
(* credentials lets be stored and when it gives up (SoftAP), and that all  *)
(* of it, with what BundleApplyProofs shows of a bundle, holds in every    *)
(* build.                                                                  *)
(***************************************************************************)
EXTENDS ProvisionerImage, BundleApplyProofs, FiniteSetTheorems

-----------------------------------------------------------------------------
(* Authorisation                                                           *)

LEMMA AuthorisedInitial == ImprovInit => AuthorisedByPress
BY DEF ImprovInit, AuthorisedByPress, IdleState

\* The client and the controller cannot authorise anybody,
LEMMA AuthorisedOutside ==
  ASSUME AuthorisedByPress,
         \/ \E n \in Networks : ReceiveSettings(n)
         \/ ImprovPress \/ AuthorisationEnds \/ ImprovDeadline \/ Background
         \/ (Connects \/ Disconnects) /\ UNCHANGED <<stored, curState, work, clock, late, build>>
  PROVE  AuthorisedByPress'
BY DEF AuthorisedByPress, ReceiveSettings, ImprovPress, AuthorisationEnds, ImprovDeadline,
       Background, work, clock, build

\* ... and the main thread only upon a press, for a while.
LEMMA AuthorisedMain == ASSUME AuthorisedByPress, ImprovMain PROVE AuthorisedByPress'
<1> USE DEF AuthorisedByPress, AtMain, Gets, work, clock, build
<1>1. CASE (\E n \in Networks : TakeSettings(n)) \/ PressReopens \/ PressAuthorises
  BY <1>1 DEF TakeSettings, PressReopens, PressAuthorises
<1>2. CASE Grant \/ SettingsPass \/ SettingsFail
  BY <1>2 DEF Grant, SettingsPass, SettingsFail
<1>3. CASE StoreSettings
  BY <1>3 DEF StoreSettings, IdleState
<1>4. CASE Announce \/ ResultRead \/ TimesOut \/ Revoke
  BY <1>4 DEF Announce, ResultRead, TimesOut, Revoke
<1>5. CASE WindowGoesOn \/ ImprovReturns \/ CloseWindow \/ ImprovIdles
  BY <1>5 DEF WindowGoesOn, ImprovReturns, CloseWindow, ImprovIdles
<1>6. CASE ImprovLeaves
  BY <1>6 DEF ImprovLeaves, IdleState
<1>7. QED
  BY <1>1, <1>2, <1>3, <1>4, <1>5, <1>6 DEF ImprovMain

(* Where a press is required, nobody is authorised without one, or for longer
   than its period, whatever tests and writes fail. *)
THEOREM Authorisation == ImprovSpec => []AuthorisedByPress
<1>1. AuthorisedByPress /\ [ImprovNext]_<<stored, improvVars>> => AuthorisedByPress'
  <2> SUFFICES ASSUME AuthorisedByPress, [ImprovNext]_<<stored, improvVars>>
               PROVE  AuthorisedByPress'
    OBVIOUS
  <2>1. CASE UNCHANGED <<stored, improvVars>>
    BY <2>1 DEF improvVars, work, clock, build, AuthorisedByPress
  <2>2. CASE ImprovNext
    BY <2>2, AuthorisedOutside, AuthorisedMain DEF ImprovNext
  <2>3. QED
    BY <2>1, <2>2
<1>2. QED
  BY <1>1, AuthorisedInitial, PTL DEF ImprovSpec

-----------------------------------------------------------------------------
(* Settings                                                                *)

QueueOK == provQueue \in Seq(Networks \cup {Press})

SettingsInv == QueueOK /\ AcceptedIsWorkedOn

LEMMA SettingsInitial == ImprovInit => SettingsInv
BY DEF ImprovInit, SettingsInv, QueueOK, AcceptedIsWorkedOn, IdleState

\* What is put into the queue stays behind what is there.
LEMMA Queued ==
  ASSUME QueueOK, NEW m \in Networks \cup {Press}, provQueue' = Append(provQueue, m)
  PROVE  /\ QueueOK'
         /\ Len(provQueue) + 1 \in 1 .. Len(provQueue') /\ provQueue'[Len(provQueue) + 1] = m
         /\ \A i \in 1 .. Len(provQueue) : i \in 1 .. Len(provQueue') /\ provQueue'[i] = provQueue[i]
BY DEF QueueOK

\* A press that is taken leaves the settings in the queue.
LEMMA PressTaken ==
  ASSUME QueueOK, Gets(Press)
  PROVE  QueueOK' /\ (SettingsWaiting # {} => SettingsWaiting' # {})
<1>1. QueueOK'
  BY DEF Gets, QueueOK
<1>2. ASSUME NEW i \in SettingsWaiting PROVE SettingsWaiting' # {}
  <2>1. i \in 1 .. Len(provQueue) /\ provQueue[i] \in Networks /\ provQueue[1] = Press
    BY <1>2 DEF SettingsWaiting, Gets, QueueOK
  <2>2. i # 1
    BY <2>1, PressAssumption
  <2>3. i - 1 \in 1 .. Len(provQueue') /\ provQueue'[i - 1] = provQueue[i]
    BY <2>1, <2>2 DEF Gets, QueueOK
  <2>4. QED
    BY <2>1, <2>3 DEF SettingsWaiting
<1>3. QED
  BY <1>1, <1>2

LEMMA SettingsOutside ==
  ASSUME SettingsInv,
         \/ \E n \in Networks : ReceiveSettings(n)
         \/ ImprovPress \/ AuthorisationEnds \/ ImprovDeadline \/ Background
         \/ (Connects \/ Disconnects) /\ UNCHANGED <<stored, curState, work, clock, late, build>>
  PROVE  SettingsInv'
<1> USE DEF SettingsInv
<1>1. ASSUME NEW n \in Networks, ReceiveSettings(n) PROVE SettingsInv'
  <2>1. QueueOK' /\ SettingsWaiting' # {}
    BY <1>1, Queued DEF ReceiveSettings, SettingsWaiting
  <2>2. QED
    BY <2>1 DEF AcceptedIsWorkedOn
<1>2. CASE ImprovPress
  <2>1. QueueOK' /\ (SettingsWaiting # {} => SettingsWaiting' # {})
    BY <1>2, Queued DEF ImprovPress, SettingsWaiting
  <2>2. QED
    BY <1>2, <2>1 DEF ImprovPress, AcceptedIsWorkedOn
<1>3. CASE \/ AuthorisationEnds \/ ImprovDeadline \/ Background
           \/ (Connects \/ Disconnects) /\ UNCHANGED <<stored, curState, work, clock, late, build>>
  BY <1>3 DEF AuthorisationEnds, ImprovDeadline, Background, work, AcceptedIsWorkedOn,
         SettingsWaiting, QueueOK
<1>4. QED
  BY <1>1, <1>2, <1>3

LEMMA SettingsMain == ASSUME SettingsInv, ImprovMain PROVE SettingsInv'
<1> USE DEF SettingsInv, AtMain, work
<1>1. ASSUME NEW n \in Networks, TakeSettings(n) PROVE SettingsInv'
  BY <1>1 DEF TakeSettings, Gets, QueueOK, AcceptedIsWorkedOn
<1>2. CASE PressReopens \/ PressAuthorises
  <2>1. QueueOK' /\ (SettingsWaiting # {} => SettingsWaiting' # {})
    BY <1>2, PressTaken DEF PressReopens, PressAuthorises
  <2>2. UNCHANGED <<curState, late>> /\ improvPc = "loop"
    BY <1>2 DEF PressReopens, PressAuthorises, Gets
  <2>3. QED
    BY <2>1, <2>2 DEF AcceptedIsWorkedOn
<1>3. CASE Grant \/ SettingsPass \/ SettingsFail \/ StoreSettings \/ Announce
  BY <1>3 DEF Grant, SettingsPass, SettingsFail, StoreSettings, Announce, IdleState,
         AcceptedIsWorkedOn, SettingsWaiting, QueueOK
<1>4. CASE ResultRead \/ TimesOut \/ Revoke \/ WindowGoesOn \/ ImprovReturns
           \/ CloseWindow \/ ImprovIdles
  BY <1>4 DEF ResultRead, TimesOut, Revoke, WindowGoesOn, ImprovReturns, CloseWindow,
         ImprovIdles, AcceptedIsWorkedOn, SettingsWaiting, QueueOK
<1>5. CASE ImprovLeaves
  BY <1>5 DEF ImprovLeaves, IdleState, AcceptedIsWorkedOn, QueueOK
<1>6. QED
  BY <1>1, <1>2, <1>3, <1>4, <1>5 DEF ImprovMain

(* Settings that were accepted wait or are worked on: no press, failure or full
   queue leaves "provisioning" without them, except the end of the window. *)
THEOREM AcceptedSettings == ImprovSpec => []AcceptedIsWorkedOn
<1>1. SettingsInv /\ [ImprovNext]_<<stored, improvVars>> => SettingsInv'
  <2> SUFFICES ASSUME SettingsInv, [ImprovNext]_<<stored, improvVars>> PROVE SettingsInv'
    OBVIOUS
  <2>1. CASE UNCHANGED <<stored, improvVars>>
    BY <2>1 DEF improvVars, work, SettingsInv, AcceptedIsWorkedOn, SettingsWaiting, QueueOK
  <2>2. CASE ImprovNext
    BY <2>2, SettingsOutside, SettingsMain DEF ImprovNext
  <2>3. QED
    BY <2>1, <2>2
<1>2. SettingsInv => AcceptedIsWorkedOn
  BY DEF SettingsInv
<1>3. QED
  BY <1>1, <1>2, SettingsInitial, PTL DEF ImprovSpec

-----------------------------------------------------------------------------
(* The failures in the event queue                                         *)

Told(queue) == {i \in 1 .. Len(queue) : queue[i] # "up"}

Events == {"up", "refused", "gone"}

LEMMA ToldFinite ==
  ASSUME NEW queue \in Seq(Events)
  PROVE  /\ IsFiniteSet(Told(queue)) /\ Cardinality(Told(queue)) \in Nat
         /\ Cardinality(Told(queue)) <= Len(queue)
<1>1. IsFiniteSet(1 .. Len(queue)) /\ Cardinality(1 .. Len(queue)) = Len(queue)
  <2>1. Len(queue) \in Nat
    OBVIOUS
  <2>2. QED
    BY <2>1, FS_Interval
<1>2. Told(queue) \in SUBSET (1 .. Len(queue))
  BY DEF Told
<1>3. QED
  BY <1>1, <1>2, FS_Subset, FS_CardinalityType

\* A failure that is queued counts once, an address does not.
LEMMA ToldMore ==
  ASSUME NEW queue \in Seq(Events), NEW e \in Events
  PROVE  Cardinality(Told(Append(queue, e))) = Cardinality(Told(queue)) + IF e = "up" THEN 0 ELSE 1
<1> DEFINE n == Len(queue) + 1
           more == Append(queue, e)
<1>1. /\ Len(more) = n /\ n \in Nat /\ more[n] = e
      /\ \A i \in 1 .. Len(queue) : more[i] = queue[i]
  OBVIOUS
<1>2. \A i \in 1 .. n : i = n \/ i \in 1 .. Len(queue)
  BY <1>1
<1> HIDE DEF more
<1>3. CASE e = "up"
  <2>1. Told(more) = Told(queue)
    BY <1>1, <1>2, <1>3 DEF Told
  <2>2. Cardinality(Told(queue)) \in Nat
    BY ToldFinite
  <2>3. QED
    BY <2>1, <2>2, <1>3 DEF more
<1>4. CASE e # "up"
  <2>1. Told(more) = Told(queue) \cup {n} /\ n \notin Told(queue)
    BY <1>1, <1>2, <1>4 DEF Told
  <2>2. IsFiniteSet(Told(queue))
    BY ToldFinite
  <2>3. Cardinality(Told(queue) \cup {n}) = Cardinality(Told(queue)) + 1
    BY <2>1, <2>2, FS_AddElement
  <2>4. QED
    BY <2>1, <2>3, <1>4 DEF more
<1>5. QED
  BY <1>3, <1>4

\* A handler that takes a failure leaves one fewer.
LEMMA ToldLess ==
  ASSUME NEW queue \in Seq(Events), queue # <<>>
  PROVE  Cardinality(Told(queue)) =
           Cardinality(Told(Tail(queue))) + IF Head(queue) = "up" THEN 0 ELSE 1
<1> DEFINE rear == Tail(queue)
           later == {i \in Told(queue) : i # 1}
           shift == [i \in Told(rear) |-> i + 1]
<1>1. /\ rear \in Seq(Events) /\ Len(rear) = Len(queue) - 1 /\ Len(queue) \in Nat
      /\ Head(queue) = queue[1] /\ Len(queue) >= 1
      /\ \A i \in 1 .. Len(rear) : rear[i] = queue[i + 1]
  OBVIOUS
<1> HIDE DEF rear
<1>2. IsFiniteSet(Told(queue)) /\ IsFiniteSet(Told(rear))
      /\ Cardinality(Told(rear)) \in Nat
  BY <1>1, ToldFinite
<1>3. Cardinality(later) = Cardinality(Told(rear)) /\ IsFiniteSet(later)
  <2>1. \A i \in Told(rear) : i \in 1 .. Len(rear) /\ i + 1 \in later
    BY <1>1 DEF Told
  <2>2. \A j \in later : j - 1 \in Told(rear) /\ j = (j - 1) + 1
    <3>1. SUFFICES ASSUME NEW j \in later PROVE j - 1 \in Told(rear) /\ j = (j - 1) + 1
      OBVIOUS
    <3>2. j \in 1 .. Len(queue) /\ queue[j] # "up" /\ j # 1
      BY DEF Told
    <3>3. j - 1 \in 1 .. Len(rear) /\ j = (j - 1) + 1
      BY <3>2, <1>1
    <3>4. rear[j - 1] = queue[j]
      BY <3>3, <1>1
    <3>5. QED
      BY <3>2, <3>3, <3>4 DEF Told
  <2>3. shift \in Bijection(Told(rear), later)
    <3>1. shift \in Surjection(Told(rear), later)
      BY <2>1, <2>2 DEF Surjection
    <3>2. shift \in Injection(Told(rear), later)
      BY <2>1 DEF Injection, IsInjective
    <3>3. QED
      BY <3>1, <3>2 DEF Bijection
  <2> HIDE DEF shift, later
  <2>4. ExistsBijection(Told(rear), later)
    BY <2>3 DEF ExistsBijection
  <2>5. QED
    BY <2>4, <1>2, FS_Bijection
<1>4. CASE Head(queue) = "up"
  <2>1. later = Told(queue)
    BY <1>1, <1>4 DEF Told
  <2> HIDE DEF later
  <2>2. QED
    BY <1>2, <1>3, <1>4, <2>1 DEF rear
<1>5. CASE Head(queue) # "up"
  <2>1. Told(queue) = later \cup {1} /\ 1 \notin later
    BY <1>1, <1>5 DEF Told
  <2> HIDE DEF later
  <2>2. Cardinality(later \cup {1}) = Cardinality(later) + 1
    BY <1>3, <2>1, FS_AddElement
  <2>3. QED
    BY <1>2, <1>3, <1>5, <2>1, <2>2 DEF rear
<1>6. QED
  BY <1>4, <1>5

LEMMA WaitingIsTold == FailuresWaiting = Cardinality(Told(events))
BY DEF FailuresWaiting, Told

-----------------------------------------------------------------------------
(* A test of credentials                                                   *)

Tests == [pc : {"off", "top", "wait", "look", "pause", "passed", "failed"},
          creds : Networks \cup {NoNetwork}, active : BOOLEAN, sem : BOOLEAN,
          result : {"ok", "refused"}, attempts : 0 .. Attempts]

InTest == test.pc \in {"top", "wait", "look", "pause", "passed"}

\* While a test runs the driver is at work for its network or for none.
OwnNetwork ==
  /\ assoc.state = "idle" => assoc.net = NoNetwork
  /\ InTest => assoc.state # "leaving" /\ (assoc.state # "idle" => assoc.net = test.creds)

\* Failures the test has used: those that had it try again, one it has been
\* told of, and one that it is about to try again for.
Used ==
  (test.attempts - 1) + (IF test.sem /\ test.result = "refused" THEN 1 ELSE 0)
                      + (IF test.pc = "pause" THEN 1 ELSE 0)

\* Every failure used, or that waits, has been one.
Counted ==
  test.pc \in {"top", "wait", "look", "pause"} =>
    failures >= Cardinality(Told(events)) + Used

\* Each attempt fails once at most: the one under way has yet to.
Coming == IF assoc.state \in {"joining", "up"} /\ assoc.net = test.creds THEN 1 ELSE 0

Bounded ==
  /\ test.pc # "off" => /\ test.attempts >= 1 /\ test.creds \in Networks
                        /\ failures + Coming <= MaxEvents + test.attempts
  /\ test.pc = "pause" => test.attempts < Attempts

TestInv == TestTypeOK /\ OwnNetwork /\ Counted /\ Bounded

TestActs ==
  \/ World \/ Testing \/ Passes \/ Fails \/ TestReset
  \/ \E n \in Networks : Start(n)

USE DEF At, Goto, OnlyTest, Accepts, Connect, Idle, Attempts

LEMMA QueueEmpty == <<>> \in Seq(Events) /\ Len(<<>>) = 0 /\ Cardinality(Told(<<>>)) = 0
<1>1. <<>> \in Seq(Events) /\ Len(<<>>) = 0
  OBVIOUS
<1>2. Told(<<>>) = {}
  BY <1>1 DEF Told
<1>3. QED
  BY <1>1, <1>2, FS_EmptySet

\* A failure is queued, or lost with a full queue.
LEMMA Raised ==
  ASSUME TestTypeOK, NEW e \in Events, Raise(e)
  PROVE  /\ events' \in Seq(Events) /\ Len(events') <= MaxEvents
         /\ Cardinality(Told(events)) \in Nat /\ Cardinality(Told(events')) \in Nat
         /\ Cardinality(Told(events')) <= Cardinality(Told(events)) + IF e = "up" THEN 0 ELSE 1
<1>1. events \in Seq(Events) /\ Len(events) <= MaxEvents /\ MaxEvents \in Nat
  BY TestAssumption DEF TestTypeOK, Events
<1>2. Cardinality(Told(events)) \in Nat
  BY <1>1, ToldFinite
<1>3. CASE events' = events
  BY <1>1, <1>2, <1>3
<1>4. CASE events' = Append(events, e) /\ Len(events) < MaxEvents
  <2>1. events' \in Seq(Events) /\ Len(events') = Len(events) + 1
    BY <1>1, <1>4
  <2>2. Cardinality(Told(events')) = Cardinality(Told(events)) + IF e = "up" THEN 0 ELSE 1
    BY <1>1, <1>4, ToldMore
  <2>3. QED
    BY <1>1, <1>2, <1>4, <2>1, <2>2
<1>5. QED
  BY <1>3, <1>4 DEF Raise

\* A handler takes the first event.
LEMMA Handled ==
  ASSUME TestTypeOK, Handle
  PROVE  /\ events' \in Seq(Events) /\ Len(events') <= MaxEvents
         /\ Head(events) \in Events
         /\ Cardinality(Told(events)) \in Nat /\ Cardinality(Told(events')) \in Nat
         /\ Cardinality(Told(events)) =
              Cardinality(Told(events')) + IF Head(events) = "up" THEN 0 ELSE 1
<1>1. events \in Seq(Events) /\ Len(events) <= MaxEvents /\ events # <<>> /\ MaxEvents \in Nat
      /\ events' = Tail(events)
  BY TestAssumption DEF TestTypeOK, Events, Handle
<1>2. events' \in Seq(Events) /\ Len(events') = Len(events) - 1 /\ Head(events) \in Events
      /\ Len(events) \in Nat
  BY <1>1
<1>3. Cardinality(Told(events)) \in Nat /\ Cardinality(Told(events')) \in Nat
  BY <1>1, <1>2, ToldFinite
<1>4. QED
  BY <1>1, <1>2, <1>3, ToldLess

LEMMA TestInitial == TestInit => TestInv
BY QueueEmpty, TestAssumption
   DEF TestInit, TestInv, TestTypeOK, OwnNetwork, InTest, Counted, Bounded, Off, Events

LEMMA TestResetKeeps == TestReset => TestInv'
BY QueueEmpty, TestAssumption
   DEF TestReset, TestInv, TestTypeOK, OwnNetwork, InTest, Counted, Bounded, Off, Events

\* What the network and its driver do
LEMMA DriverKeeps ==
  ASSUME TestInv, Associates \/ Leaves \/ GetsAddress \/ LosesAddress
  PROVE  TestInv'
<1> USE TestAssumption, NetworksAssumption DEF TestInv
<1>1. CASE Associates \/ LosesAddress
  BY <1>1 DEF Associates, LosesAddress, TestTypeOK, OwnNetwork, InTest, Counted, Used, Bounded,
         Coming
<1>2. CASE Leaves
  <2>1. events' \in Seq(Events) /\ Len(events') <= MaxEvents
    BY <1>2, Raised DEF Leaves, Events
  <2>2. ~ InTest /\ UNCHANGED <<addr, test, failures>> /\ assoc' = Idle
        /\ assoc.state = "leaving"
    BY <1>2 DEF Leaves, OwnNetwork
  <2>3. QED
    BY <2>1, <2>2 DEF TestTypeOK, OwnNetwork, InTest, Counted, Bounded, Coming, Events
<1>3. CASE GetsAddress
  <2>1. /\ events' \in Seq(Events) /\ Len(events') <= MaxEvents
        /\ Cardinality(Told(events')) <= Cardinality(Told(events)) + 0
        /\ Cardinality(Told(events)) \in Nat /\ Cardinality(Told(events')) \in Nat
    BY <1>3, Raised DEF GetsAddress, Events
  <2>2. UNCHANGED <<assoc, test, failures>> /\ addr' = assoc.net
    BY <1>3 DEF GetsAddress
  <2>3. Used \in Int
    BY DEF TestTypeOK, Used
  <2>4. Counted'
    BY <2>1, <2>2, <2>3 DEF Counted, TestTypeOK, Used
  <2>5. QED
    BY <2>1, <2>2, <2>4 DEF TestTypeOK, OwnNetwork, InTest, Bounded, Coming, Events
<1>4. QED
  BY <1>1, <1>2, <1>3

LEMMA FailureKeeps == ASSUME TestInv, Refuses \/ Drops PROVE TestInv'
<1> USE TestAssumption, NetworksAssumption DEF TestInv
<1>1. /\ events' \in Seq(Events) /\ Len(events') <= MaxEvents
      /\ Cardinality(Told(events')) <= Cardinality(Told(events)) + 1
      /\ Cardinality(Told(events)) \in Nat /\ Cardinality(Told(events')) \in Nat
  BY Raised DEF Refuses, Drops, Events
<1>2. /\ UNCHANGED <<addr, test>> /\ assoc' = Idle /\ assoc.state \in {"joining", "up"}
      /\ Refusal
  BY DEF Refuses, Drops
<1>3. TestTypeOK'
  BY <1>1, <1>2 DEF TestTypeOK, Events, Refusal, Bounded, Coming
<1>4. OwnNetwork'
  BY <1>2 DEF OwnNetwork, InTest
<1>5. Used \in Int /\ UNCHANGED Used
  BY <1>2 DEF TestTypeOK, Used
<1>6. Counted'
  <2>1. SUFFICES ASSUME test.pc \in {"top", "wait", "look", "pause"}
                 PROVE  failures' >= Cardinality(Told(events')) + Used
    BY <1>2, <1>5 DEF Counted
  <2>2. failures' = failures + 1 /\ failures \in Int
    BY <1>2, <2>1 DEF OwnNetwork, InTest, Refusal, TestTypeOK
  <2>3. QED
    BY <1>1, <1>5, <2>1, <2>2 DEF Counted
<1>7. Bounded'
  BY <1>2 DEF TestTypeOK, Bounded, Coming, Refusal
<1>8. QED
  BY <1>3, <1>4, <1>6, <1>7

LEMMA HandlerKeeps == ASSUME TestInv, Handle PROVE TestInv'
<1> USE TestAssumption, NetworksAssumption DEF TestInv
<1>1. /\ events' \in Seq(Events) /\ Len(events') <= MaxEvents
      /\ Head(events) \in Events
      /\ Cardinality(Told(events)) \in Nat /\ Cardinality(Told(events')) \in Nat
      /\ Cardinality(Told(events)) =
           Cardinality(Told(events')) + IF Head(events) = "up" THEN 0 ELSE 1
  BY Handled
<1>2. /\ UNCHANGED <<assoc, addr, failures>>
      /\ Done(IF Head(events) = "up" THEN "ok" ELSE "refused")
  BY DEF Handle
<1>3. TestTypeOK'
  BY <1>1, <1>2 DEF TestTypeOK, Events, Done
<1>4. /\ test'.pc = test.pc /\ test'.creds = test.creds /\ test'.attempts = test.attempts
      /\ test'.sem /\ test'.result = "refused" =>
           \/ test.sem /\ test.result = "refused"
           \/ Head(events) # "up"
  BY <1>2 DEF TestTypeOK, Done
<1>5. OwnNetwork' /\ Bounded'
  BY <1>2, <1>4 DEF OwnNetwork, InTest, Bounded, Coming
<1>6. /\ Used \in Int /\ Used' \in Int
      /\ Used' <= Used + IF Head(events) = "up" THEN 0 ELSE 1
  BY <1>4 DEF TestTypeOK, Used
<1>7. Counted'
  BY <1>1, <1>2, <1>4, <1>6 DEF Counted, TestTypeOK
<1>8. QED
  BY <1>3, <1>5, <1>7

\* What the thread that tests does
LEMMA StartKeeps == ASSUME TestInv, NEW n \in Networks, Start(n) PROVE TestInv'
<1> USE TestAssumption, NetworksAssumption DEF TestInv
<1>1. /\ events \in Seq(Events) /\ Len(events) <= MaxEvents
      /\ Cardinality(Told(events)) \in Nat /\ Cardinality(Told(events)) <= Len(events)
  BY ToldFinite DEF TestTypeOK, Events
<1>2. failures' = Cardinality(Told(events)) /\ UNCHANGED <<addr, events>>
  BY WaitingIsTold DEF Start
<1>3. /\ test' = [test EXCEPT !.pc = IF Accepts THEN "top" ELSE "failed", !.creds = n,
                              !.active = TRUE, !.sem = FALSE, !.attempts = 1]
      /\ Connect(n)
  BY DEF Start
<1>4. TestTypeOK'
  <2>1. /\ assoc' \in [state : {"idle", "joining", "up", "leaving"},
                       net : Networks \cup {NoNetwork}]
        /\ addr' \in Networks \cup {NoNetwork}
    BY <1>2, <1>3 DEF TestTypeOK
  <2>2. test' \in Tests
    <3> DEFINE pc == IF Accepts THEN "top" ELSE "failed"
    <3>1. pc \in {"top", "failed"} /\ test \in Tests
      BY DEF TestTypeOK, Tests
    <3>2. test' = [test EXCEPT !.pc = pc, !.creds = n, !.active = TRUE, !.sem = FALSE,
                               !.attempts = 1]
      BY <1>3
    <3>3. test' = [pc |-> pc, creds |-> n, active |-> TRUE, sem |-> FALSE,
                   result |-> test.result, attempts |-> 1]
      BY <3>1, <3>2 DEF Tests
    <3>4. test.result \in {"ok", "refused"}
      BY <3>1 DEF Tests
    <3> HIDE DEF pc
    <3>5. QED
      BY <3>1, <3>3, <3>4 DEF Tests
  <2>3. failures' \in 0 .. MaxEvents + Attempts
    BY <1>1, <1>2
  <2>4. QED
    BY <1>1, <1>2, <2>1, <2>2, <2>3 DEF TestTypeOK, Tests, Events
<1>5. OwnNetwork'
  BY <1>3 DEF TestTypeOK, OwnNetwork, InTest
<1>6. test'.attempts = 1 /\ test'.sem = FALSE /\ test'.creds = n /\ test'.pc \in {"top", "failed"}
  BY <1>3 DEF TestTypeOK
<1>7. Used' = 0
  BY <1>6 DEF Used
<1>8. Counted'
  BY <1>1, <1>2, <1>7 DEF Counted
<1>9. Bounded'
  BY <1>1, <1>2, <1>6 DEF Bounded, Coming
<1>10. QED
  BY <1>4, <1>5, <1>8, <1>9

LEMMA TestingKeeps == ASSUME TestInv, Testing PROVE TestInv'
<1> USE TestAssumption, NetworksAssumption DEF TestInv, net
<1>1. Cardinality(Told(events)) \in Nat /\ UNCHANGED <<addr, events, failures>>
  BY ToldFinite DEF TestTypeOK, Events, Testing, Loop, Woken, HalfSecond, Look, TryAgain
<1>2. CASE Loop \/ HalfSecond
  BY <1>1, <1>2 DEF Loop, HalfSecond, TestTypeOK, OwnNetwork, InTest, Counted, Used, Bounded,
         Coming
<1>3. CASE Woken
  <2>1. TestTypeOK' /\ OwnNetwork' /\ Bounded'
    BY <1>3 DEF Woken, TestTypeOK, OwnNetwork, InTest, Bounded, Coming
  <2>2. Counted'
    BY <1>1, <1>3 DEF Woken, TestTypeOK, Counted, Used
  <2>3. QED
    BY <2>1, <2>2
<1>4. CASE Look
  BY <1>1, <1>4 DEF Look, TestTypeOK, OwnNetwork, InTest, Counted, Used, Bounded, Coming
<1>5. CASE TryAgain
  <2>1. /\ test' = [test EXCEPT !.pc = "top", !.active = TRUE, !.attempts = @ + 1]
        /\ Connect(test.creds) /\ test.pc = "pause"
    BY <1>5 DEF TryAgain
  <2>2. test' \in Tests
    <3> DEFINE next == test.attempts + 1
    <3>1. next \in 0 .. Attempts /\ test \in Tests
      BY <2>1 DEF TestTypeOK, Bounded, Tests
    <3>2. test' = [test EXCEPT !.pc = "top", !.active = TRUE, !.attempts = next]
      BY <2>1
    <3> HIDE DEF next
    <3>3. QED
      BY <3>1, <3>2 DEF Tests
  <2>3. TestTypeOK'
    BY <1>1, <2>1, <2>2 DEF TestTypeOK, Tests
  <2>4. OwnNetwork'
    BY <2>1 DEF TestTypeOK, OwnNetwork, InTest
  <2>5. Counted'
    BY <1>1, <2>1 DEF TestTypeOK, Counted, Used
  <2>6. Bounded'
    BY <1>1, <2>1 DEF TestTypeOK, Bounded, Coming
  <2>7. QED
    BY <2>3, <2>4, <2>5, <2>6
<1>6. QED
  BY <1>2, <1>3, <1>4, <1>5 DEF Testing

LEMMA ReturnKeeps == ASSUME TestInv, Passes \/ Fails PROVE TestInv'
<1> USE TestAssumption, NetworksAssumption DEF TestInv, net
<1>1. CASE Passes
  BY <1>1 DEF Passes, TestTypeOK, OwnNetwork, InTest, Counted, Bounded
<1>2. CASE Fails
  BY <1>2 DEF Fails, Disconnect, TestTypeOK, OwnNetwork, InTest, Counted, Bounded
<1>3. QED
  BY <1>1, <1>2

LEMMA TestStep == ASSUME TestInv, TestActs PROVE TestInv'
BY DriverKeeps, FailureKeeps, HandlerKeeps, StartKeeps, TestingKeeps, ReturnKeeps, TestResetKeeps
   DEF TestActs, World

-----------------------------------------------------------------------------
(* What a test lets be stored                                              *)

\* With an old address gone before a test, an address says that its network
\* let the device in, and in a test that this was the network under test.
Certified ==
  /\ assoc.state = "up" => assoc.net \in Good
  /\ addr \in Good \cup {NoNetwork}
  /\ InTest => addr \in {NoNetwork, test.creds}
  /\ test.pc = "passed" => test.creds \in Good

LEMMA CertifiedInitial == TestInit => Certified
BY DEF TestInit, Certified, InTest, Off

LEMMA CertifiedStep == ASSUME PromptDhcp, TestInv, Certified, TestActs PROVE Certified'
<1> USE NetworksAssumption DEF TestInv, Certified, net
<1>1. CASE World
  <2>1. CASE Associates \/ Refuses \/ Drops \/ Leaves
    <3>1. UNCHANGED <<addr, test>> /\ (assoc'.state = "up" => assoc'.net \in Good)
      BY <2>1 DEF Associates, Refuses, Drops, Leaves, TestTypeOK
    <3>2. QED
      BY <3>1 DEF InTest
  <2>2. CASE GetsAddress
    BY <2>2 DEF GetsAddress, OwnNetwork, InTest
  <2>3. CASE LosesAddress
    BY <2>3 DEF LosesAddress, InTest
  <2>4. CASE Handle
    <3>1. test'.pc = test.pc /\ test'.creds = test.creds /\ UNCHANGED <<assoc, addr>>
      BY <2>4 DEF Handle, Done, TestTypeOK
    <3>2. QED
      BY <3>1 DEF InTest
  <2>5. QED
    BY <1>1, <2>1, <2>2, <2>3, <2>4 DEF World
<1>2. ASSUME NEW n \in Networks, Start(n) PROVE Certified'
  <2>1. UNCHANGED addr /\ ~ Stale /\ test'.creds = n /\ Connect(n)
        /\ test'.pc = IF Accepts THEN "top" ELSE "failed"
    BY <1>2 DEF Start, TestTypeOK
  <2>2. InTest' => addr = NoNetwork
    BY <2>1 DEF InTest, Stale
  <2>3. QED
    BY <2>1, <2>2
<1>3. CASE Testing
  <2>1. CASE Loop \/ Woken \/ HalfSecond
    BY <2>1 DEF Loop, Woken, HalfSecond, InTest, TestTypeOK
  <2>2. CASE Look
    BY <2>2 DEF Look, InTest, TestTypeOK
  <2>3. CASE TryAgain
    BY <2>3 DEF TryAgain, InTest, TestTypeOK
  <2>4. QED
    BY <1>3, <2>1, <2>2, <2>3 DEF Testing
<1>4. CASE Passes
  BY <1>4 DEF Passes, InTest, TestTypeOK
<1>5. CASE Fails
  BY <1>5 DEF Fails, Disconnect, InTest, TestTypeOK
<1>6. CASE TestReset
  BY <1>6 DEF TestReset, InTest, Off
<1>7. QED
  BY <1>1, <1>2, <1>3, <1>4, <1>5, <1>6 DEF TestActs

\* Where the thread of the form is, and what it has in hand there.
Place ==
  /\ apPc = "testing" <=> test.pc # "off"
  /\ apPc = "testing" => pending = test.creds
  /\ apPc \in {"reply", "store"} => pending \in Networks

ApInv == ApTypeOK /\ Place /\ StoreOK

ApGood ==
  /\ Certified
  /\ OnlyGoodStored
  /\ apPc = "store" => pending \in Good

LEMMA ApInitial == TestInit /\ ApInit /\ StoreOK => ApInv
BY DEF TestInit, ApInit, ApInv, ApTypeOK, Place, Off

\* The test as the form's thread uses it
LEMMA ApTests == ASSUME ApInv, ApNext PROVE TestActs \/ UNCHANGED testVars
BY DEF ApInv, Place, ApNext, ApMain, PostForm, WindowOver, BeginTest, TestFailed, TestPassed,
       Store, FinalPage, ApLeaves, TestActs

\* A test goes on, with its credentials, until it passes or fails.
LEMMA TestGoesOn ==
  ASSUME TestInv, World \/ Testing
  PROVE  /\ test'.creds = test.creds
         /\ test'.pc = "off" <=> test.pc = "off"
<1>1. CASE World
  BY <1>1 DEF World, Associates, Refuses, Drops, Leaves, GetsAddress, LosesAddress, Handle, Done,
              TestInv, TestTypeOK
<1>2. CASE Testing
  BY <1>2 DEF Testing, Loop, Woken, HalfSecond, Look, TryAgain, TestInv, TestTypeOK
<1>3. QED
  BY <1>1, <1>2

LEMMA ApKeeps == ASSUME TestInv, ApInv, ApNext PROVE ApInv'
<1> USE NetworksAssumption DEF ApInv, ApTypeOK, Place, StoreOK
<1>1. ASSUME NEW n \in Networks, PostForm(n) PROVE ApInv'
  BY <1>1 DEF PostForm, testVars, net
<1>2. CASE BeginTest
  <2>1. test'.creds = pending /\ test'.pc # "off"
    BY <1>2 DEF BeginTest, Start, TestInv, TestTypeOK
  <2>2. QED
    BY <1>2, <2>1 DEF BeginTest
<1>3. CASE TestFailed
  BY <1>3 DEF TestFailed, Fails, TestInv, TestTypeOK
<1>4. CASE TestPassed
  <2>1. test'.pc = "off" /\ pending \in Networks
    BY <1>4 DEF TestPassed, Passes, TestInv, TestTypeOK, Bounded
  <2>2. QED
    BY <1>4, <2>1 DEF TestPassed
<1>5. CASE Store
  BY <1>5 DEF Store, Stores, StoreFails, testVars, net
<1>6. CASE FinalPage \/ WindowOver
  BY <1>6 DEF FinalPage, WindowOver, testVars, net
<1>7. CASE ApLeaves
  BY <1>7 DEF ApLeaves, TestReset, Off
<1>8. CASE (World \/ Testing) /\ UNCHANGED <<stored, apVars>>
  BY <1>8, TestGoesOn DEF apVars
<1>9. QED
  BY <1>1, <1>2, <1>3, <1>4, <1>5, <1>6, <1>7, <1>8 DEF ApNext, ApMain

LEMMA ApKeepsGood == ASSUME PromptDhcp, TestInv, ApInv, ApGood, ApNext PROVE ApGood'
<1> USE DEF ApGood, OnlyGoodStored, apVars
<1>1. Certified'
  <2>1. CASE TestActs
    BY <2>1, CertifiedStep
  <2>2. CASE UNCHANGED testVars
    BY <2>2 DEF testVars, net, Certified, InTest
  <2>3. QED
    BY <2>1, <2>2, ApTests
<1>2. OnlyGoodStored'
  BY DEF ApNext, ApMain, PostForm, WindowOver, BeginTest, TestFailed, TestPassed, Store, FinalPage,
         ApLeaves, Stores, StoreFails
<1>3. ASSUME apPc' = "store" PROVE pending' \in Good
  <2>1. CASE TestPassed
    BY <2>1 DEF TestPassed, Passes, ApInv, Place, Certified
  <2>2. CASE UNCHANGED apVars
    BY <1>3, <2>2
  <2>3. TestPassed \/ UNCHANGED apVars
    BY <1>3 DEF ApNext, ApMain, PostForm, WindowOver, BeginTest, TestFailed, Store, FinalPage,
           ApLeaves
  <2>4. QED
    BY <2>1, <2>2, <2>3
<1>4. QED
  BY <1>1, <1>2, <1>3

\* A test that has used up its attempts was told of a failure for each.
LEMMA GivesUp ==
  ASSUME TestInv, ApInv, ApNext, test.pc = "wait", test'.pc = "failed"
  PROVE  failures >= Attempts
<1>1. CASE Woken
  <2>1. /\ test.sem /\ test.result = "refused" /\ test.attempts >= Attempts
    BY <1>1 DEF Woken, TestInv, TestTypeOK
  <2>2. Used \in Nat /\ Used >= Attempts
    BY <2>1 DEF Used, TestInv, TestTypeOK
  <2>3. Cardinality(Told(events)) \in Nat
    BY ToldFinite DEF TestInv, TestTypeOK, Events
  <2>4. QED
    BY <2>2, <2>3 DEF Counted, TestInv, TestTypeOK
<1>2. CASE World
  BY <1>2 DEF World, Associates, Refuses, Drops, Leaves, GetsAddress, LosesAddress, Handle, Done,
         TestInv, TestTypeOK
<1>3. CASE UNCHANGED testVars
  BY <1>3 DEF testVars
<1>4. apPc = "testing" /\ (BeginTest => apPc = "reply")
  BY DEF ApInv, Place, BeginTest
<1>5. CASE ~ BeginTest
  <2>1. UNCHANGED testVars \/ World \/ Testing \/ Passes \/ Fails \/ TestReset
    BY <1>5 DEF ApNext, ApMain, PostForm, WindowOver, TestFailed, TestPassed, Store, FinalPage,
           ApLeaves
  <2>2. CASE Testing /\ ~ Woken
    BY <2>2 DEF Testing, Loop, HalfSecond, Look, TryAgain, TestInv, TestTypeOK
  <2>3. CASE Passes \/ Fails \/ TestReset
    BY <2>3 DEF Passes, Fails, TestReset, Off, TestInv, TestTypeOK
  <2>4. QED
    BY <1>1, <1>2, <1>3, <2>1, <2>2, <2>3
<1>6. QED
  BY <1>4, <1>5

-----------------------------------------------------------------------------
(* The types of Improv                                                     *)

\* Settings are stored that have just passed their test.
ImprovInv == ImprovTypeOK /\ (improvPc = "store" => candidate \in Good)

LEMMA ImprovInitial == ImprovInit => ImprovInv
<1> SUFFICES ASSUME ImprovInit PROVE ImprovInv
  OBVIOUS
<1>1. starting \in [Starters -> {"no", "asked", "started"}]
  BY DEF ImprovInit
<1>2. curState \in {"AUTH_REQUIRED", "AUTHORIZED"}
  BY DEF ImprovInit, IdleState
<1>3. provQueue \in Seq(Networks \cup {Press}) /\ Len(provQueue) <= ProvQueueSize
  BY DEF ImprovInit, ProvQueueSize
<1>4. QED
  BY <1>1, <1>2, <1>3 DEF ImprovInit, ImprovInv, ImprovTypeOK, AdvTypeOK

LEMMA QueueKept ==
  ASSUME ImprovTypeOK, HasRoom, NEW m \in Networks \cup {Press}, provQueue' = Append(provQueue, m)
  PROVE  provQueue' \in Seq(Networks \cup {Press}) /\ Len(provQueue') <= ProvQueueSize
BY DEF ImprovTypeOK, HasRoom, ProvQueueSize

LEMMA QueueTaken ==
  ASSUME ImprovTypeOK, NEW m, Gets(m)
  PROVE  provQueue' \in Seq(Networks \cup {Press}) /\ Len(provQueue') <= ProvQueueSize
BY DEF ImprovTypeOK, Gets, ProvQueueSize

LEMMA AskTypes ==
  ASSUME AdvTypeOK, NEW t \in Starters, Ask(t)
  PROVE  starting' \in [Starters -> {"no", "asked", "started"}]
BY DEF AdvTypeOK, Ask

LEMMA AdvTypes ==
  ASSUME AdvTypeOK, AdvMoves \/ Connects \/ Disconnects
  PROVE  AdvTypeOK'
<1>1. CASE \E t \in Starters : RadioAnswers(t) \/ SetRunning(t)
  BY <1>1 DEF AdvTypeOK, RadioAnswers, SetRunning
<1>2. CASE Restart
  <2>1. starting' \in [Starters -> {"no", "asked", "started"}]
    BY <1>2, AskTypes DEF Restart, Starters
  <2>2. QED
    BY <1>2, <2>1 DEF AdvTypeOK, Restart
<1>3. CASE Recycled \/ Connects \/ Disconnects
  BY <1>3 DEF AdvTypeOK, Recycled, Connects, Disconnects
<1>4. QED
  BY <1>1, <1>2, <1>3 DEF AdvMoves

LEMMA ImprovOutside ==
  ASSUME ImprovInv,
         \/ \E n \in Networks : ReceiveSettings(n)
         \/ ImprovPress \/ AuthorisationEnds \/ ImprovDeadline \/ Background
         \/ (Connects \/ Disconnects) /\ UNCHANGED <<stored, curState, work, clock, late, build>>
  PROVE  ImprovInv' /\ UNCHANGED stored
<1> USE DEF ImprovInv, work, clock, build, advVars
<1>1. ASSUME NEW n \in Networks, ReceiveSettings(n) PROVE ImprovInv' /\ UNCHANGED stored
  <2>1. provQueue' \in Seq(Networks \cup {Press}) /\ Len(provQueue') <= ProvQueueSize
    BY <1>1, QueueKept DEF ReceiveSettings
  <2>2. QED
    BY <1>1, <2>1 DEF ReceiveSettings, ImprovTypeOK, AdvTypeOK
<1>2. CASE ImprovPress
  <2>1. provQueue' \in Seq(Networks \cup {Press}) /\ Len(provQueue') <= ProvQueueSize
    BY <1>2, QueueKept DEF ImprovPress
  <2>2. QED
    BY <1>2, <2>1 DEF ImprovPress, ImprovTypeOK, AdvTypeOK
<1>3. CASE AuthorisationEnds \/ ImprovDeadline
  <2>1. UNCHANGED <<curState, work, late, build, advVars>> /\ UNCHANGED stored
        /\ auth' \in {"none", "ahead", "over"} /\ improvExpired' \in BOOLEAN
        /\ UNCHANGED improvIdle
    BY <1>3 DEF AuthorisationEnds, ImprovDeadline, ImprovTypeOK
  <2>2. AdvTypeOK'
    BY <2>1 DEF ImprovTypeOK, AdvTypeOK
  <2>3. provQueue' = provQueue /\ improvPc' = improvPc /\ candidate' = candidate
        /\ curState' = curState /\ late' = late /\ needsAuth' = needsAuth /\ operator' = operator
    BY <2>1
  <2>4. QED
    BY <2>1, <2>2, <2>3 DEF ImprovTypeOK
<1>4. CASE \/ Background
           \/ (Connects \/ Disconnects) /\ UNCHANGED <<stored, curState, work, clock, late, build>>
  <2>1. AdvTypeOK' /\ UNCHANGED <<stored, curState, work, clock, late, build>>
    BY <1>4, AdvTypes DEF Background, ImprovTypeOK
  <2>2. QED
    BY <2>1 DEF ImprovTypeOK
<1>5. QED
  BY <1>1, <1>2, <1>3, <1>4

LEMMA ImprovMainKeeps ==
  ASSUME ImprovInv, ImprovMain
  PROVE  ImprovInv' /\ (stored' # stored => stored' \in Good \cup {NoNetwork})
<1> DEFINE Goal == ImprovInv' /\ (stored' # stored => stored' \in Good \cup {NoNetwork})
<1> USE DEF ImprovInv, AtMain, work, clock, build, advVars
<1>1. ASSUME NEW n \in Networks, TakeSettings(n) PROVE Goal
  <2>1. provQueue' \in Seq(Networks \cup {Press}) /\ Len(provQueue') <= ProvQueueSize
    BY <1>1, QueueTaken DEF TakeSettings
  <2>2. QED
    <3>1. /\ UNCHANGED <<stored, curState, clock, build, advVars>>
          /\ improvPc' \in {"loop", "test"} /\ candidate' \in {candidate, n}
          /\ late' \in BOOLEAN
      BY <1>1 DEF TakeSettings, Gets, ImprovTypeOK
    <3>2. AdvTypeOK'
      BY <3>1 DEF ImprovTypeOK, AdvTypeOK
    <3>3. QED
      BY <2>1, <3>1, <3>2 DEF ImprovTypeOK
<1>2. CASE PressReopens
  <2>1. provQueue' \in Seq(Networks \cup {Press}) /\ Len(provQueue') <= ProvQueueSize
    BY <1>2, QueueTaken DEF PressReopens
  <2>2. starting' \in [Starters -> {"no", "asked", "started"}]
    BY <1>2, AskTypes DEF PressReopens, ImprovTypeOK, Starters
  <2>3. QED
    BY ZenonT(40), <1>2, <2>1, <2>2 DEF PressReopens, Gets, ImprovTypeOK, AdvTypeOK
<1>3. CASE PressAuthorises
  <2>1. provQueue' \in Seq(Networks \cup {Press}) /\ Len(provQueue') <= ProvQueueSize
    BY <1>3, QueueTaken DEF PressAuthorises
  <2>2. QED
    BY <1>3, <2>1 DEF PressAuthorises, Gets, ImprovTypeOK, AdvTypeOK
<1>4. CASE Grant \/ SettingsPass \/ SettingsFail
  BY <1>4 DEF Grant, SettingsPass, SettingsFail, ImprovTypeOK, AdvTypeOK
<1>5. CASE StoreSettings
  BY <1>5 DEF StoreSettings, Stores, StoreFails, IdleState, ImprovTypeOK, AdvTypeOK
<1>6. CASE Announce \/ CloseWindow
  BY ZenonT(40), <1>6 DEF Announce, CloseWindow, Stop, ImprovTypeOK, AdvTypeOK
<1>7. CASE ResultRead \/ TimesOut \/ Revoke \/ WindowGoesOn \/ ImprovReturns
  BY <1>7 DEF ResultRead, TimesOut, Revoke, WindowGoesOn, ImprovReturns, ImprovTypeOK, AdvTypeOK
<1>8. CASE ImprovIdles
  BY <1>8 DEF ImprovIdles, EndClient, ImprovTypeOK, AdvTypeOK
<1>9. CASE ImprovLeaves
  <2>1. starting' \in [Starters -> {"no", "asked", "started"}]
    BY <1>9 DEF ImprovLeaves
  <2>2. provQueue' \in Seq(Networks \cup {Press}) /\ Len(provQueue') <= ProvQueueSize
    BY <1>9 DEF ImprovLeaves, ProvQueueSize
  <2>3. curState' \in {"AUTH_REQUIRED", "AUTHORIZED"}
    BY <1>9 DEF ImprovLeaves, IdleState
  <2>4. QED
    BY <1>9, <2>1, <2>2, <2>3 DEF ImprovLeaves, ImprovTypeOK, AdvTypeOK
<1>10. QED
  BY <1>1, <1>2, <1>3, <1>4, <1>5, <1>6, <1>7, <1>8, <1>9 DEF ImprovMain

LEMMA ImprovKeeps ==
  ASSUME ImprovInv, ImprovNext
  PROVE  ImprovInv' /\ (stored' # stored => stored' \in Good \cup {NoNetwork})
BY ImprovOutside, ImprovMainKeeps DEF ImprovNext

-----------------------------------------------------------------------------
(* The image                                                               *)

\* A build without ZTP has no bundle.
BundleIdle == bundlePc = "ready" /\ whole = <<>> /\ c8y = before.c8y

ImageInv ==
  /\ transport \in {"softap", "improv", "ztp"}
  /\ TestInv /\ ApInv
  /\ ImprovInv /\ SettingsInv /\ AuthorisedByPress
  /\ BundleInv /\ PasswordInv
  /\ transport # "ztp" => BundleIdle

LEMMA ImageInitial == ImageInit => ImageInv
<1> SUFFICES ASSUME ImageInit PROVE ImageInv
  OBVIOUS
<1>1. StoreOK
  BY NetworksAssumption DEF ImageInit, StoreOK
<1>2. TestInv /\ ApInv
  BY <1>1, TestInitial, ApInitial DEF ImageInit
<1>3. ImprovInv /\ SettingsInv /\ AuthorisedByPress
  BY ImprovInitial, SettingsInitial, AuthorisedInitial DEF ImageInit
<1>4. BundleInv /\ PasswordInv /\ BundleIdle
  BY BundleInitial, PasswordInitial DEF ImageInit, BundleInit, BundleIdle
<1>5. QED
  BY <1>2, <1>3, <1>4 DEF ImageInit, ImageInv

\* What a transport leaves alone keeps what is known of it.
LEMMA ApRests ==
  ASSUME TestInv, ApInv, UNCHANGED <<testVars, apVars>>, StoreOK'
  PROVE  TestInv' /\ ApInv'
<1>1. TestInv'
  BY DEF testVars, net, TestInv, TestTypeOK, OwnNetwork, InTest, Counted, Used, Told, Bounded,
         Coming
<1>2. ApInv'
  BY DEF testVars, apVars, ApInv, ApTypeOK, Place
<1>3. QED
  BY <1>1, <1>2

LEMMA ImprovRests ==
  ASSUME ImprovInv, SettingsInv, AuthorisedByPress, UNCHANGED improvVars
  PROVE  ImprovInv' /\ SettingsInv' /\ AuthorisedByPress'
BY DEF improvVars, work, clock, build, advVars, ImprovInv, ImprovTypeOK, AdvTypeOK, SettingsInv,
       QueueOK, AcceptedIsWorkedOn, SettingsWaiting, AuthorisedByPress

LEMMA BundleRests ==
  ASSUME BundleInv, PasswordInv, BundleIdle, UNCHANGED bundleVars
  PROVE  BundleInv' /\ PasswordInv' /\ BundleIdle'
<1> USE DEF bundleVars, memory
<1>1. CommitsGood'
  BY DEF BundleIdle, BundleInv, CommitsGood, HasBad, Rejects, Application
<1>2. BundleTypeOK'
  BY DEF BundleInv, BundleTypeOK
<1>3. TenantInv' /\ BundleIdle'
  BY DEF BundleIdle, TenantInv, TenantNeedsNetwork
<1>4. PasswordInv'
  BY DEF PasswordInv, Shape, FirstField, Handed
<1>5. QED
  BY <1>1, <1>2, <1>3, <1>4 DEF BundleInv

\* Each transport stores networks, and no other touches what is its own.
LEMMA StoresKeep == ASSUME ImageInv, ImageNext PROVE StoreOK'
<1>1. CASE Others("softap") /\ ApNext
  BY <1>1, ApKeeps DEF ImageInv, ApInv
<1>2. CASE Others("improv") /\ ImprovNext
  BY <1>2, ImprovKeeps, NetworksAssumption DEF ImageInv, ApInv, StoreOK
<1>3. CASE Others("ztp") /\ BundleNext
  <2>1. stored' # stored => stored' \in Good \cup {NoNetwork}
    BY <1>3, BundleStoresGood
  <2>2. QED
    BY <2>1, NetworksAssumption DEF ImageInv, ApInv, StoreOK
<1>4. QED
  BY <1>1, <1>2, <1>3 DEF ImageNext

LEMMA ImageStep == ASSUME ImageInv, ImageNext PROVE ImageInv'
<1> USE DEF ImageInv
<1>1. CASE Others("softap") /\ ApNext
  <2>1. TestInv' /\ ApInv'
    <3>1. CASE TestActs
      BY <1>1, <3>1, TestStep, ApKeeps
    <3>2. CASE UNCHANGED testVars
      <4>1. TestInv'
        BY <3>2 DEF testVars, net, TestInv, TestTypeOK, OwnNetwork, InTest, Counted, Used, Told,
                    Bounded, Coming
      <4>2. QED
        BY <1>1, <4>1, ApKeeps
    <3>3. QED
      BY <1>1, <3>1, <3>2, ApTests
  <2>2. QED
    BY <1>1, <2>1, ImprovRests, BundleRests DEF Others
<1>2. CASE Others("improv") /\ ImprovNext
  <2>1. ImprovInv' /\ SettingsInv' /\ AuthorisedByPress'
    BY <1>2, ImprovKeeps, SettingsOutside, SettingsMain, AuthorisedOutside, AuthorisedMain
       DEF ImprovNext
  <2>2. StoreOK'
    BY <1>2, StoresKeep DEF ImageNext
  <2>3. QED
    BY <1>2, <2>1, <2>2, ApRests, BundleRests DEF Others
<1>3. CASE Others("ztp") /\ BundleNext
  <2>1. BundleInv' /\ PasswordInv'
    BY <1>3, BundleStep, ShapeStep, FieldStep, HandedStep DEF PasswordInv
  <2>2. StoreOK'
    BY <1>3, StoresKeep DEF ImageNext
  <2>3. QED
    BY <1>3, <2>1, <2>2, ApRests, ImprovRests DEF Others
<1>4. QED
  BY <1>1, <1>2, <1>3 DEF ImageNext

LEMMA ImageStutters == ASSUME ImageInv, UNCHANGED imageVars PROVE ImageInv'
<1> USE DEF ImageInv, imageVars, bundleVars, memory
<1>1. StoreOK'
  BY DEF ApInv, StoreOK
<1>2. TestInv' /\ ApInv'
  BY <1>1, ApRests
<1>3. ImprovInv' /\ SettingsInv' /\ AuthorisedByPress'
  BY ImprovRests
<1>4. BundleInv' /\ PasswordInv' /\ (BundleIdle => BundleIdle')
  BY BundleStutters DEF applyVars, PasswordInv, Shape, FirstField, Handed, BundleIdle
<1>5. QED
  BY <1>2, <1>3, <1>4

LEMMA ImageInvariance == ImageSpec => []ImageInv
<1>1. ImageInv /\ [ImageNext]_imageVars => ImageInv'
  BY ImageStep, ImageStutters
<1>2. QED
  BY <1>1, ImageInitial, PTL DEF ImageSpec

(* Type correctness of the image, with any of its transports. *)
THEOREM ImageTypes == ImageSpec => []ImageTypeOK
<1>1. ImageInv => ImageTypeOK
  BY DEF ImageInv, TestInv, ApInv, ImprovInv, BundleInv, ImageTypeOK
<1>2. QED
  BY <1>1, ImageInvariance, PTL

(* Improv's two promises in the image: the door is open only after a press,
   and settings that were accepted are worked on. *)
THEOREM ImageSettings == ImageSpec => []AuthorisedByPress /\ []AcceptedIsWorkedOn
<1>1. ImageInv => AuthorisedByPress /\ AcceptedIsWorkedOn
  BY DEF ImageInv, SettingsInv
<1>2. QED
  BY <1>1, ImageInvariance, PTL

(* A bundle in the image: all or nothing of it, and no tenant without its
   network. *)
THEOREM ImageBundles == ImageSpec => []BadBundleChangesNothing /\ []TenantNeedsNetwork
<1>1. ImageInv => BadBundleChangesNothing /\ TenantNeedsNetwork
  BY DEF ImageInv, BundleInv, CommitsGood, HasBad, BadBundleChangesNothing, TenantInv
<1>2. QED
  BY <1>1, ImageInvariance, PTL

(* Whichever transport a build has, it stores only networks that let the device
   in, provided the address of an earlier network is gone when a test begins:
   old events and refused attempts do not matter. *)
THEOREM OnlyWhatLetsIn == ASSUME PromptDhcp PROVE ImageSpec => []OnlyGoodStored
<1>1. ImageInit => ApGood
  BY CertifiedInitial DEF ImageInit, ApInit, ApGood, OnlyGoodStored
<1>2. ImageInv /\ ApGood /\ [ImageNext]_imageVars => ApGood'
  <2> SUFFICES ASSUME ImageInv, ApGood, [ImageNext]_imageVars PROVE ApGood'
    OBVIOUS
  <2> USE DEF ImageInv
  <2>1. CASE Others("softap") /\ ApNext
    BY <2>1, ApKeepsGood
  <2>2. ASSUME UNCHANGED <<testVars, apVars>>, OnlyGoodStored' PROVE ApGood'
    BY <2>2 DEF testVars, net, apVars, ApGood, Certified, InTest
  <2>3. CASE Others("improv") /\ ImprovNext
    BY <2>3, <2>2, ImprovKeeps DEF Others, ApGood, OnlyGoodStored
  <2>4. CASE Others("ztp") /\ BundleNext
    BY <2>4, <2>2, BundleStoresGood DEF Others, ApGood, OnlyGoodStored
  <2>5. CASE UNCHANGED imageVars
    BY <2>5, <2>2 DEF imageVars, ApGood, OnlyGoodStored
  <2>6. QED
    BY <2>1, <2>3, <2>4, <2>5 DEF ImageNext
<1>3. ApGood => OnlyGoodStored
  BY DEF ApGood
<1>4. QED
  BY <1>1, <1>2, <1>3, ImageInvariance, PTL DEF ImageSpec

(* A test that gives up was told of a failure for each of its attempts, of its
   own network or from before it began: no event is counted twice, and none is
   left over from an earlier test, however handlers and thread interleave. *)
THEOREM GivesUpWhenTold == ImageSpec => GivesUpOnFailures
<1>1. ImageInv /\ [ImageNext]_imageVars =>
        [At("wait") /\ test'.pc = "failed" => failures >= Attempts]_testVars
  <2> SUFFICES ASSUME ImageInv, [ImageNext]_imageVars, ~ UNCHANGED testVars,
                      test.pc = "wait", test'.pc = "failed"
               PROVE  failures >= Attempts
    OBVIOUS
  <2>1. ApNext
    BY DEF ImageNext, imageVars, Others
  <2>2. QED
    BY <2>1, GivesUp DEF ImageInv
<1>2. QED
  BY <1>1, ImageInvariance, PTL DEF ImageSpec, GivesUpOnFailures

(* The password in the image: neither lost nor given twice. *)
THEOREM ImagePassword == ImageSpec => PasswordNotLost /\ PasswordGivenOnce
<1>1. ImageInv /\ [ImageNext]_imageVars =>
        /\ [c8y["otp"] # NoIssue /\ c8y'["otp"] = NoIssue => client["otp"] = c8y["otp"]]_bundleVars
        /\ [GiveOtp /\ otp = "given" => c8y["otp"] = NoIssue]_bundleVars
  <2> SUFFICES ASSUME ImageInv, [ImageNext]_imageVars, ~ UNCHANGED bundleVars
               PROVE  /\ c8y["otp"] # NoIssue /\ c8y'["otp"] = NoIssue => client["otp"] = c8y["otp"]
                      /\ GiveOtp /\ otp = "given" => c8y["otp"] = NoIssue
    OBVIOUS
  <2>1. BundleNext
    BY DEF ImageNext, imageVars, Others
  <2>2. QED
    BY <2>1, NotLostStep DEF ImageInv, PasswordInv, Handed, GiveOtp
<1>2. QED
  BY <1>1, ImageInvariance, PTL DEF ImageSpec, PasswordNotLost, PasswordGivenOnce
=============================================================================
