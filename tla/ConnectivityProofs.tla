------------------------- MODULE ConnectivityProofs -------------------------
(***************************************************************************)
(* Proofs about Connectivity: its types, and that a tick of the watchdog   *)
(* sees both the loss of the data path and its return, for every value of  *)
(* the watchdog's constants.                                               *)
(***************************************************************************)
EXTENDS Connectivity, TLAPS

-----------------------------------------------------------------------------
(* Types.                                                                  *)

LEMMA InitTypeOK == Init => TypeOK
<1> SUFFICES ASSUME Init PROVE TypeOK
  OBVIOUS
<1> USE ConnectivityAssumption DEF Init
<1>1. FlagsTypeOK
  BY DEF FlagsTypeOK
<1>2. PlacesTypeOK
  BY DEF PlacesTypeOK
<1>3. CountersTypeOK
  BY DEF CountersTypeOK
<1>4. EventsTypeOK
  BY DEF EventsTypeOK
<1>5. HistoryTypeOK
  BY DEF HistoryTypeOK
<1>6. QED
  BY <1>1, <1>2, <1>3, <1>4, <1>5 DEF TypeOK

\* Each step keeps the flags Boolean,
LEMMA NextFlags == FlagsTypeOK /\ [Next]_vars => FlagsTypeOK'
<1> SUFFICES ASSUME FlagsTypeOK,
                    \/ External \/ Handlers \/ Look
                    \/ Act \/ Reconnect \/ Main
             PROVE  FlagsTypeOK'
  BY DEF Next, vars, network, driver, ping, watchdog, waiter,
         FlagsTypeOK
<1> USE ConnectivityAssumption
      DEF FlagsTypeOK, network, driver, ping, watchdog, waiter
<1>1. CASE External
  BY <1>1 DEF External, NetworkChanges, JoinDone, JoinFails,
         JoinWedges, LinkLost, Bind, AddressLost, PingReply, PingLost,
         DriverStep, Raise
<1>2. CASE Handlers
  BY <1>2 DEF Handlers, L4Connected, Disconnected, AssociationFailed, Handling,
         MarkConnected, MarkDisconnected
<1>3. CASE Look
  BY <1>3 DEF Look, NextStall, Reachable
<1>4. CASE Act
  BY <1>4 DEF Act, ActHealthy, ActUnhealthy, LastResort, Escalate,
         MarkDisconnected, ClearAssociation, Raise, TickEnds, SendPing
<1>5. CASE Reconnect
  BY <1>5 DEF Reconnect, ReconnectLook, ReconnectAct, WifiConnect
<1>6. CASE Main
  BY <1>6 DEF Main, MainInit, MainServes, MainTimeout, MainStep,
         WifiConnect
<1>7. QED
  BY <1>1, <1>2, <1>3, <1>4, <1>5, <1>6

\* ... the flows of control and the driver in their places,
LEMMA NextPlaces == PlacesTypeOK /\ [Next]_vars => PlacesTypeOK'
<1> SUFFICES ASSUME PlacesTypeOK,
                    \/ External \/ Handlers \/ Look
                    \/ Act \/ Reconnect \/ Main
             PROVE  PlacesTypeOK'
  BY DEF Next, vars, network, driver, ping, watchdog, waiter,
         PlacesTypeOK
<1> USE ConnectivityAssumption
      DEF PlacesTypeOK, network, driver, ping, watchdog, waiter
<1>1. CASE External
  BY <1>1 DEF External, NetworkChanges, JoinDone, JoinFails,
         JoinWedges, LinkLost, Bind, AddressLost, PingReply, PingLost,
         DriverStep, Raise
<1>2. CASE Handlers
  BY <1>2 DEF Handlers, L4Connected, Disconnected, AssociationFailed, Handling,
         MarkConnected, MarkDisconnected
<1>3. CASE Look
  BY <1>3 DEF Look, NextStall, Reachable
<1>4. CASE Act
  BY <1>4 DEF Act, ActHealthy, ActUnhealthy, LastResort, Escalate,
         MarkDisconnected, ClearAssociation, Raise, TickEnds, SendPing
<1>5. CASE Reconnect
  BY <1>5 DEF Reconnect, ReconnectLook, ReconnectAct, WifiConnect
<1>6. CASE Main
  BY <1>6 DEF Main, MainInit, MainServes, MainTimeout, MainStep,
         WifiConnect
<1>7. QED
  BY <1>1, <1>2, <1>3, <1>4, <1>5, <1>6

\* ... the counters below their limits,
LEMMA NextCounters == CountersTypeOK /\ [Next]_vars => CountersTypeOK'
<1> SUFFICES ASSUME CountersTypeOK,
                    \/ External \/ Handlers \/ Look
                    \/ Act \/ Reconnect \/ Main
             PROVE  CountersTypeOK'
  BY DEF Next, vars, network, driver, ping, watchdog, waiter,
         CountersTypeOK
<1> USE ConnectivityAssumption
      DEF CountersTypeOK, network, driver, ping, watchdog, waiter
<1>1. CASE External
  BY <1>1 DEF External, NetworkChanges, JoinDone, JoinFails,
         JoinWedges, LinkLost, Bind, AddressLost, PingReply, PingLost,
         DriverStep, Raise
<1>2. CASE Handlers
  BY <1>2 DEF Handlers, L4Connected, Disconnected, AssociationFailed, Handling,
         MarkConnected, MarkDisconnected
<1>3. CASE Look
  BY <1>3 DEF Look, NextStall, Reachable
<1>4. CASE Act
  BY <1>4 DEF Act, ActHealthy, ActUnhealthy, LastResort, Escalate,
         MarkDisconnected, ClearAssociation, Raise, TickEnds, SendPing
<1>5. CASE Reconnect
  BY <1>5 DEF Reconnect, ReconnectLook, ReconnectAct, WifiConnect
<1>6. CASE Main
  BY <1>6 DEF Main, MainInit, MainServes, MainTimeout, MainStep,
         WifiConnect
<1>7. QED
  BY <1>1, <1>2, <1>3, <1>4, <1>5, <1>6

\* ... and no more events than the queue holds.
LEMMA NextEvents == EventsTypeOK /\ [Next]_vars => EventsTypeOK'
<1> SUFFICES ASSUME EventsTypeOK,
                    \/ External \/ Handlers \/ Look
                    \/ Act \/ Reconnect \/ Main
             PROVE  EventsTypeOK'
  BY DEF Next, vars, network, driver, ping, watchdog, waiter,
         EventsTypeOK
<1> USE ConnectivityAssumption
      DEF EventsTypeOK, network, driver, ping, watchdog, waiter, EventKinds
<1>1. CASE External
  <2>1. CASE NetworkChanges
    BY <2>1 DEF NetworkChanges
  <2>2. CASE JoinDone
    BY <2>2 DEF JoinDone, DriverStep
  <2>3. CASE JoinFails
    BY <2>3 DEF JoinFails, DriverStep, Raise
  <2>4. CASE JoinWedges
    BY <2>4 DEF JoinWedges, DriverStep
  <2>5. CASE LinkLost
    BY <2>5 DEF LinkLost, DriverStep, Raise
  <2>6. CASE Bind
    BY <2>6 DEF Bind, DriverStep, Raise
  <2>7. CASE AddressLost
    BY <2>7 DEF AddressLost, DriverStep, Raise
  <2>8. CASE PingReply
    BY <2>8 DEF PingReply, DriverStep
  <2>9. CASE PingLost
    BY <2>9 DEF PingLost, DriverStep
  <2>10. QED
    BY <1>1, <2>1, <2>2, <2>3, <2>4, <2>5, <2>6, <2>7, <2>8, <2>9 DEF External
<1>2. CASE Handlers
  BY SMTT(20), <1>2 DEF Handlers, L4Connected, Disconnected, AssociationFailed, Handling,
         MarkConnected, MarkDisconnected
<1>3. CASE Look
  BY <1>3 DEF Look, NextStall, Reachable
<1>4. CASE Act
  <2>1. CASE ActHealthy
    BY <2>1 DEF ActHealthy, TickEnds
  <2>2. CASE ActUnhealthy
    BY <2>2 DEF ActUnhealthy, Escalate, ClearAssociation, Raise
  <2>3. CASE LastResort
    BY <2>3 DEF LastResort
  <2>4. QED
    BY <1>4, <2>1, <2>2, <2>3 DEF Act
<1>5. CASE Reconnect
  BY <1>5 DEF Reconnect, ReconnectLook, ReconnectAct, WifiConnect
<1>6. CASE Main
  BY <1>6 DEF Main, MainInit, MainServes, MainTimeout, MainStep,
         WifiConnect
<1>7. QED
  BY <1>1, <1>2, <1>3, <1>4, <1>5, <1>6

\* The history counts up to StallMax + 1.
LEMMA NextHistory == HistoryTypeOK /\ [Next]_vars => HistoryTypeOK'
<1> SUFFICES ASSUME HistoryTypeOK, [Next]_vars PROVE HistoryTypeOK'
  OBVIOUS
<1>1. CASE UNCHANGED vars
  BY <1>1 DEF vars, HistoryTypeOK
<1>2. CASE Record
  <2>1. Usable' \in BOOLEAN
    BY DEF Usable, Good
  <2>2. QED
    BY <1>2, <2>1, ConnectivityAssumption DEF HistoryTypeOK, Record
<1>3. QED
  BY <1>1, <1>2 DEF Next

LEMMA NextTypeOK == TypeOK /\ [Next]_vars => TypeOK'
  BY NextFlags, NextPlaces, NextCounters, NextEvents, NextHistory DEF TypeOK

(***************************************************************************)
(* Type correctness for every choice of the watchdog's constants.          *)
(***************************************************************************)
THEOREM TypeCorrect == Spec => []TypeOK
  BY InitTypeOK, NextTypeOK, PTL DEF Spec

-----------------------------------------------------------------------------
(* What the watchdog knows.                                                *)

\* The history is about the network.
Tracked == steady.usable = Usable

\* Without a usable network no reply comes after the first look, and silence
\* is counted from the second on.
SilenceCounted ==
  ~Usable /\ steady.looks >= 1 => ~replied /\ stall >= steady.looks - 1

\* A verdict stands on the gate's counters, which only a look changes.
VerdictStands ==
  pc = "act" /\ healthy => Reachable(proven, stall)

\* With a usable network each tick leaves a request that is answered before
\* the next look ...
AnswerComes ==
  Usable /\ steady.looks >= 1 /\ pc # "act" => pinged \/ replied

\* ... so that from the second look on the verdict is good.
OnlineJudged ==
  Usable /\ steady.looks >= 2 /\ pc = "act" => healthy

IInv == TypeOK /\ Tracked /\ SilenceCounted /\ VerdictStands
          /\ AnswerComes /\ OnlineJudged

LEMMA InitIInv == Init => IInv
<1> SUFFICES ASSUME Init PROVE IInv
  OBVIOUS
<1>1. TypeOK
  BY InitTypeOK
<1>2. Tracked
  BY DEF Init, Tracked, Usable
<1>3. SilenceCounted /\ AnswerComes /\ OnlineJudged
  BY DEF Init, SilenceCounted, AnswerComes, OnlineJudged
<1>4. VerdictStands
  BY DEF Init, VerdictStands
<1>5. QED
  BY <1>1, <1>2, <1>3, <1>4 DEF IInv

\* Every step but a look and the last resort leaves the gate's counters and
\* a verdict that is not yet acted on alone.
Quiet == External \/ Handlers \/ ActHealthy \/ ActUnhealthy \/ Reconnect \/ Main

LEMMA QuietStep ==
  ASSUME Quiet
  PROVE  /\ UNCHANGED <<stall, proven>>
         /\ pc' = "act" => pc = "act" /\ healthy' = healthy
<1> USE DEF network, driver, ping, watchdog, waiter
<1>1. CASE External
  BY <1>1 DEF External, NetworkChanges, JoinDone, JoinFails, JoinWedges,
         LinkLost, Bind, AddressLost, PingReply, PingLost, DriverStep
<1>2. CASE Handlers
  BY <1>2 DEF Handlers, L4Connected, Disconnected, AssociationFailed, Handling
<1>3. CASE ActHealthy \/ ActUnhealthy
  BY <1>3 DEF ActHealthy, ActUnhealthy, Escalate, TickEnds
<1>4. CASE Reconnect
  BY <1>4 DEF Reconnect, ReconnectLook, ReconnectAct
<1>5. CASE Main
  BY <1>5 DEF Main, MainInit, MainServes, MainTimeout, MainStep
<1>6. QED
  BY <1>1, <1>2, <1>3, <1>4, <1>5 DEF Quiet

\* A reply comes only of a request under way while the network is usable, and
\* a request under way is lost only while it is not.
LEMMA QuietPing ==
  ASSUME Quiet
  PROVE  /\ ~Usable => replied' = replied
         /\ Usable /\ (pinged \/ replied) => pinged' \/ replied'
         /\ Usable /\ pc = "act" /\ pc' # "act" => pinged'
<1> USE DEF network, driver, ping, watchdog, waiter
<1>1. CASE External
  BY <1>1 DEF External, NetworkChanges, JoinDone, JoinFails, JoinWedges,
         LinkLost, Bind, AddressLost, PingReply, PingLost, DriverStep
<1>2. CASE Handlers
  BY <1>2 DEF Handlers, L4Connected, Disconnected, AssociationFailed, Handling
<1>3. CASE ActHealthy \/ ActUnhealthy
  BY <1>3 DEF ActHealthy, ActUnhealthy, Escalate, TickEnds, SendPing, Usable
<1>4. CASE Reconnect
  BY <1>4 DEF Reconnect, ReconnectLook, ReconnectAct
<1>5. CASE Main
  <2>1. UNCHANGED <<pinged, replied, pc>>
    BY <1>5 DEF Main, MainInit, MainServes, MainTimeout, MainStep
  <2>2. QED
    BY <2>1
<1>6. QED
  BY <1>1, <1>2, <1>3, <1>4, <1>5 DEF Quiet

\* The history: it grows by a look, and starts anew with a change or a reset.
LEMMA RecordStep ==
  ASSUME TypeOK, Tracked, Record, steady'.looks >= 1
  PROVE  /\ Usable' = Usable
         /\ main' # "init"
         /\ \/ steady'.looks = steady.looks
            \/ steady'.looks = steady.looks + 1 /\ pc = "idle" /\ pc' = "act"
         /\ pc = "idle" /\ pc' = "act" /\ steady.looks <= StallMax
              => steady'.looks = steady.looks + 1
  BY ConnectivityAssumption
  DEF TypeOK, HistoryTypeOK, Tracked, Record

LEMMA NextIInv == IInv /\ [Next]_vars => IInv'
<1> SUFFICES ASSUME IInv, [Next]_vars PROVE IInv'
  OBVIOUS
<1>0. TypeOK'
  BY NextTypeOK DEF IInv
<1>1. CASE UNCHANGED vars
  BY <1>0, <1>1
  DEF IInv, vars, network, driver, ping, watchdog, waiter, Tracked,
      SilenceCounted, VerdictStands, AnswerComes, OnlineJudged, Usable, Good,
      Reachable
<1>2. CASE Next
  <2>0. Record
    BY <1>2 DEF Next
  <2>1. Tracked'
    BY <2>0 DEF Record, Tracked
  <2>2. CASE Quiet
    <3>1. SilenceCounted'
      BY <2>0, <2>2, QuietStep, QuietPing, RecordStep
      DEF IInv, SilenceCounted
    <3>2. VerdictStands'
      BY <2>2, QuietStep DEF IInv, VerdictStands, Reachable
    <3>3. AnswerComes'
      BY <2>0, <2>2, QuietPing, RecordStep DEF IInv, AnswerComes
    <3>4. OnlineJudged'
      <4> SUFFICES ASSUME Usable', steady'.looks >= 2, pc' = "act"
                   PROVE  healthy'
        BY DEF OnlineJudged
      <4>1. steady'.looks >= 1
        BY <1>0 DEF TypeOK, HistoryTypeOK
      <4>2. Usable /\ steady.looks >= 2 /\ pc = "act" /\ healthy' = healthy
        BY <2>0, <2>2, <4>1, QuietStep, RecordStep DEF IInv
      <4>3. QED
        BY <4>2 DEF IInv, OnlineJudged
    <3>5. QED
      BY <1>0, <2>1, <3>1, <3>2, <3>3, <3>4 DEF IInv
  <2>3. CASE Look
    <3>0. TypeOK /\ pc = "idle" /\ pc' = "act"
      BY <2>3 DEF Look, IInv
    <3>1. SilenceCounted'
      <4> SUFFICES ASSUME ~Usable', steady'.looks >= 1
                   PROVE  ~replied' /\ stall' >= steady'.looks - 1
        BY DEF SilenceCounted
      <4>1. ~Usable
        BY <2>0, RecordStep DEF IInv
      <4>2. steady'.looks <= steady.looks + 1 /\ steady'.looks <= StallMax + 1
        BY <1>0, <2>0, <3>0, RecordStep
        DEF IInv, TypeOK, HistoryTypeOK
      <4>3. stall' \in Nat /\ ~replied'
        BY <1>0, <2>3 DEF Look, TypeOK, CountersTypeOK
      <4>4. CASE steady.looks = 0
        BY <4>2, <4>3, <4>4, <1>0 DEF TypeOK, HistoryTypeOK
      <4>5. CASE steady.looks >= 1
        BY <1>0, <2>3, <3>0, <4>1, <4>2, <4>3, <4>5, ConnectivityAssumption
        DEF IInv, SilenceCounted, Look, NextStall, TypeOK, HistoryTypeOK,
            CountersTypeOK
      <4>6. QED
        BY <3>0, <4>4, <4>5 DEF TypeOK, HistoryTypeOK
    <3>2. VerdictStands'
      BY <2>3 DEF Look, VerdictStands, Reachable
    <3>3. AnswerComes'
      BY <3>0 DEF AnswerComes
    <3>4. OnlineJudged'
      <4> SUFFICES ASSUME Usable', steady'.looks >= 2 PROVE healthy'
        BY DEF OnlineJudged
      <4>1. Usable /\ steady.looks >= 1
        <5>1. steady'.looks >= 1
          BY <1>0 DEF TypeOK, HistoryTypeOK
        <5>2. Usable
          BY <2>0, <5>1, RecordStep DEF IInv
        <5>3. \/ steady'.looks = steady.looks
              \/ steady'.looks = steady.looks + 1
          BY <2>0, <5>1, RecordStep DEF IInv
        <5>4. QED
          BY <3>0, <5>2, <5>3 DEF TypeOK, HistoryTypeOK
      <4>2. replied
        BY <2>3, <3>0, <4>1 DEF Look, IInv, AnswerComes
      <4>3. stall' = 0 /\ addr
        BY <2>3, <4>1, <4>2 DEF Look, NextStall, Usable
      <4>4. Reachable(proven', stall')
        BY <4>3, ConnectivityAssumption DEF Reachable
      <4>5. QED
        BY <2>3, <4>3, <4>4 DEF Look
    <3>5. QED
      BY <1>0, <2>1, <3>1, <3>2, <3>3, <3>4 DEF IInv
  <2>4. CASE LastResort
    <3>1. main' = "init" /\ pc' = "idle"
      BY <2>4 DEF LastResort
    <3>2. ~(steady'.looks >= 1)
      BY <2>0, <3>1, RecordStep DEF IInv
    <3>3. QED
      BY <1>0, <2>1, <3>1, <3>2, ConnectivityAssumption
      DEF IInv, SilenceCounted, VerdictStands, AnswerComes, OnlineJudged,
          TypeOK, HistoryTypeOK
  <2>5. QED
    BY <1>2, <2>2, <2>3, <2>4 DEF Next, Quiet, Act
<1>3. QED
  BY <1>1, <1>2

(***************************************************************************)
(* What the watchdog knows of the network holds for all its constants.     *)
(***************************************************************************)
THEOREM Invariance == Spec => []IInv
  BY InitIInv, NextIInv, PTL DEF Spec

LEMMA LossStep ==
  IInv => (Act /\ proven /\ ~Usable /\ steady.looks > StallMax => ~connected')
<1> SUFFICES ASSUME IInv, Act, proven, ~Usable, steady.looks > StallMax
             PROVE  ~connected'
  OBVIOUS
<1>1. stall >= StallMax
  BY ConnectivityAssumption
  DEF IInv, SilenceCounted, TypeOK, HistoryTypeOK, CountersTypeOK
<1>2. ~ActHealthy
  BY <1>1 DEF ActHealthy, IInv, VerdictStands, Reachable
<1>3. QED
  BY <1>2 DEF Act, ActUnhealthy, Escalate, MarkDisconnected, LastResort

(***************************************************************************)
(* A loss of the data path is noticed WD_PING_STALL_MAX + 1 ticks later at *)
(* the latest, whatever those constants are (net.c:633-672).               *)
(***************************************************************************)
THEOREM LossNoticed == Spec => LossIsSeen
<1>1. IInv /\ [Next]_vars
        => [Act /\ proven /\ ~Usable /\ steady.looks > StallMax
              => ~connected']_vars
  BY LossStep
<1>2. QED
  BY <1>1, Invariance, PTL DEF Spec, LossIsSeen

LEMMA OnlineStep ==
  IInv => (Act /\ Usable /\ steady.looks >= 2
             => connected' /\ badTicks' = 0 /\ assoc' = "joined")
<1> SUFFICES ASSUME IInv, Act, Usable, steady.looks >= 2
             PROVE  connected' /\ badTicks' = 0 /\ assoc' = "joined"
  OBVIOUS
<1>1. pc = "act"
  BY DEF Act, ActHealthy, ActUnhealthy, LastResort
<1>2. healthy
  BY <1>1 DEF IInv, OnlineJudged
<1>3. ActHealthy
  BY <1>2 DEF Act, ActUnhealthy, LastResort
<1>4. QED
  BY <1>3 DEF ActHealthy, Usable

(***************************************************************************)
(* A device that was online for two ticks is taken for online: it is not   *)
(* disconnected, and the last resort is out of reach (net.c:657-701).      *)
(***************************************************************************)
THEOREM OnlineNoticed == Spec => OnlineIsSeen
<1>1. IInv /\ [Next]_vars
        => [Act /\ Usable /\ steady.looks >= 2
              => connected' /\ badTicks' = 0 /\ assoc' = "joined"]_vars
  BY OnlineStep
<1>2. QED
  BY <1>1, Invariance, PTL DEF Spec, OnlineIsSeen

=============================================================================
