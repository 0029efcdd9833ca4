-------------------------- MODULE ZtpSessionProofs --------------------------
(***************************************************************************)
(* Proofs about ZtpSession, for any number of connections and any size of  *)
(* the queue: the buffer has one owner, what is applied is one relay's     *)
(* message, and a window leaves neither a session nor a waiting relay.     *)
(***************************************************************************)
EXTENDS ZtpSession, TLAPS

-----------------------------------------------------------------------------
(* The inductive invariant                                                 *)

Waits(m) == \E i \in 1 .. Len(queue) : queue[i] = m

\* The producer's half of the buffer: pieces of the connection there is.
OwnPieces == ~ rxBusy => rx.from \subseteq {conn}

\* A response, waiting or being applied, is whole and one relay's.
WholeResponse ==
  Waits("RESPONSE") \/ pc = "apply" => ~ rx.overflow /\ \E r \in Relays : rx.from = {r}

ClearIsEmpty == pc = "clear" => rx = Empty

\* Only a window has an envelope built.
BuiltInWindow == pc = "build" => ~ idle

\* What is done with the buffer, and that only a response makes it "relaying".
TaskKnown ==
  pc \in {"release", "clear"} =>
    /\ task \in {"KICK", "OVERFLOW"} \cup Results
    /\ status = "RELAYING" => task \in Results

BufferInv == OneMessageInFlight /\ OwnPieces /\ WholeResponse /\ ClearIsEmpty
SessionInv == IdleHasNoSession /\ BuiltInWindow
StatusInv == NeverLeftRelaying /\ TaskKnown

Inv == TypeOK /\ BufferInv /\ SessionInv /\ StatusInv

Acts ==
  \/ \E r \in Relays : Connected(r)
  \/ Disconnected \/ WriteData \/ WriteEnd \/ PressButton \/ DeadlinePasses
  \/ TakeKick \/ TakeOverflow \/ TakeResponse \/ TakeButton
  \/ Apply \/ ResetBuffer \/ ReleaseBuffer
  \/ BuildEnvelope \/ BuildFails \/ SendEnvelope
  \/ Confirm \/ GraceOver \/ ReturnToApplication \/ GoIdle \/ RebootNow

LEMMA NextActs == [Next]_vars => (Acts /\ UNCHANGED button) \/ UNCHANGED vars
BY DEF Next, Acts, Bluetooth, Main

-----------------------------------------------------------------------------
(* The queue                                                               *)

\* What post() leaves in the queue.
LEMMA Posted ==
  ASSUME queue \in Seq(Messages), Len(queue) <= QueueSize, NEW m \in Messages, Post(m)
  PROVE  /\ queue' \in Seq(Messages) /\ Len(queue') <= QueueSize
         /\ \A i \in 1 .. Len(queue') :
              \/ i \in 1 .. Len(queue) /\ queue'[i] = queue[i]
              \/ i = Len(queue) + 1 /\ queue'[i] = m
<1>1. CASE Len(queue) < QueueSize
  <2>1. queue' = Append(queue, m)
    BY <1>1 DEF Post
  <2>2. Len(queue') = Len(queue) + 1 /\ queue' \in Seq(Messages)
    BY <2>1
  <2>3. QED
    BY <1>1, <2>1, <2>2, QueueAssumption
<1>2. CASE ~ (Len(queue) < QueueSize)
  BY <1>2 DEF Post
<1>3. QED
  BY <1>1, <1>2

\* What k_msgq_get() leaves in it.
LEMMA Taken ==
  ASSUME queue \in Seq(Messages), Len(queue) <= QueueSize, NEW m, Take(m)
  PROVE  /\ pc = "loop" /\ 1 \in 1 .. Len(queue) /\ queue[1] = m
         /\ queue' \in Seq(Messages) /\ Len(queue') <= QueueSize
         /\ \A i \in 1 .. Len(queue') : i + 1 \in 1 .. Len(queue) /\ queue'[i] = queue[i + 1]
BY QueueAssumption DEF Take

-----------------------------------------------------------------------------
(* Types                                                                   *)

LEMMA EmptyTypes ==
  /\ Empty \in [from : SUBSET Relays, overflow : BOOLEAN]
  /\ <<>> \in Seq(Messages) /\ Len(<<>>) <= QueueSize
BY QueueAssumption DEF Empty

LEMMA TypeInitial == Init => TypeOK
BY EmptyTypes DEF Init, TypeOK

LEMMA TypeStep == TypeOK /\ [Next]_vars => TypeOK'
<1> SUFFICES ASSUME TypeOK, Acts, UNCHANGED button PROVE TypeOK'
  BY NextActs DEF TypeOK, vars, bluetooth, window
<1> USE DEF TypeOK, bluetooth, window
<1>1. CASE WriteEnd
  <2>1. PICK m \in Messages : Post(m)
    BY <1>1 DEF WriteEnd, Messages, FromRelay
  <2>2. queue' \in Seq(Messages) /\ Len(queue') <= QueueSize
    BY <2>1, Posted
  <2>3. QED
    BY <1>1, <2>2 DEF WriteEnd
<1>2. CASE PressButton
  <2>1. queue' \in Seq(Messages) /\ Len(queue') <= QueueSize
    BY <1>2, Posted DEF PressButton, Messages
  <2>2. QED
    BY ZenonT(40), <1>2, <2>1 DEF PressButton
<1>3. CASE TakeKick \/ TakeOverflow \/ TakeResponse \/ TakeButton
  <2>1. queue' \in Seq(Messages) /\ Len(queue') <= QueueSize
    BY <1>3, Taken DEF TakeKick, TakeOverflow, TakeResponse, TakeButton
  <2>2. QED
    BY <1>3, <2>1 DEF TakeKick, TakeOverflow, TakeResponse, TakeButton, FromRelay
<1>4. CASE Disconnected \/ WriteData \/ ResetBuffer
  <2>1. rx' \in [from : SUBSET Relays, overflow : BOOLEAN]
    <3>1. CASE WriteData
      <4>1. conn \in Relays
        BY <3>1 DEF WriteData
      <4>2. PICK f \in SUBSET Relays, o \in BOOLEAN : rx = [from |-> f, overflow |-> o]
        OBVIOUS
      <4>3. \/ rx' = [from |-> f \cup {conn}, overflow |-> o]
            \/ rx' = [from |-> f, overflow |-> TRUE]
        BY <3>1, <4>2 DEF WriteData
      <4>4. f \cup {conn} \in SUBSET Relays
        BY <4>1
      <4>5. /\ [from |-> f \cup {conn}, overflow |-> o] \in [from : SUBSET Relays, overflow : BOOLEAN]
            /\ [from |-> f, overflow |-> TRUE] \in [from : SUBSET Relays, overflow : BOOLEAN]
        BY <4>4
      <4>6. QED
        BY <4>3, <4>5
    <3>2. CASE Disconnected \/ ResetBuffer
      BY <3>2, EmptyTypes DEF Disconnected, ResetBuffer
    <3>3. QED
      BY <1>4, <3>1, <3>2
  <2>2. QED
    BY <1>4, <2>1 DEF Disconnected, WriteData, ResetBuffer
<1>5. CASE \E r \in Relays : Connected(r)
  BY <1>5 DEF Connected
<1>6. CASE ReleaseBuffer
  BY <1>6 DEF ReleaseBuffer
<1>7. CASE RebootNow
  BY <1>7, EmptyTypes DEF RebootNow, Restarted
<1>8. CASE DeadlinePasses \/ ReturnToApplication \/ GoIdle \/ Confirm \/ GraceOver
  BY <1>8 DEF DeadlinePasses, ReturnToApplication, GoIdle, Confirm, GraceOver
<1>9. CASE Apply \/ BuildEnvelope \/ BuildFails \/ SendEnvelope
  BY <1>9 DEF Apply, BuildEnvelope, BuildFails, SendEnvelope, Results
<1>10. QED
  BY <1>1, <1>2, <1>3, <1>4, <1>5, <1>6, <1>7, <1>8, <1>9 DEF Acts

-----------------------------------------------------------------------------
(* Session and status                                                      *)

LEMMA SessionStep == TypeOK /\ SessionInv /\ Acts => SessionInv'
BY DEF TypeOK, SessionInv, IdleHasNoSession, BuiltInWindow, Acts, bluetooth, window,
       Connected, Disconnected, WriteData, WriteEnd, PressButton, DeadlinePasses,
       TakeKick, TakeOverflow, TakeResponse, TakeButton, Take, Apply, ResetBuffer,
       ReleaseBuffer, Answered, BuildEnvelope, BuildFails, SendEnvelope, Confirm,
       GraceOver, ReturnToApplication, GoIdle, RebootNow, Restarted

LEMMA StatusStep == TypeOK /\ StatusInv /\ Acts => StatusInv'
BY DEF TypeOK, StatusInv, NeverLeftRelaying, TaskKnown, Acts, bluetooth, window, Results,
       FromRelay,
       Connected, Disconnected, WriteData, WriteEnd, PressButton, DeadlinePasses,
       TakeKick, TakeOverflow, TakeResponse, TakeButton, Take, Apply, ResetBuffer,
       ReleaseBuffer, Answered, BuildEnvelope, BuildFails, SendEnvelope, Confirm,
       GraceOver, ReturnToApplication, GoIdle, RebootNow, Restarted

-----------------------------------------------------------------------------
(* The buffer                                                              *)

USE DEF OneMessageInFlight, Waiting, InHand, OwnPieces, WholeResponse, ClearIsEmpty, Waits

\* The relay writes, comes and goes.
LEMMA BluetoothBuffer ==
  ASSUME TypeOK, BufferInv, Disconnected \/ WriteData \/ \E r \in Relays : Connected(r)
  PROVE  BufferInv'
<1> USE DEF TypeOK, BufferInv
<1>1. UNCHANGED <<queue, pc, rxBusy>>
  BY DEF Disconnected, WriteData, Connected
<1>2. CASE Disconnected
  <2>1. ~ rxBusy => Waiting = {} /\ ~ InHand
    BY <1>2
  <2>2. CASE rxBusy
    BY <1>1, <1>2, <2>2 DEF Disconnected
  <2>3. CASE ~ rxBusy
    BY <1>1, <1>2, <2>1, <2>3 DEF Disconnected, Empty, FromRelay
  <2>4. QED
    BY <2>2, <2>3
<1>3. CASE WriteData
  <2>1. ~ rxBusy /\ Waiting = {} /\ ~ InHand /\ conn' = conn
    BY <1>3 DEF WriteData
  <2>2. rx'.from \subseteq {conn}
    BY <1>3, <2>1 DEF WriteData
  <2>3. QED
    BY <1>1, <2>1, <2>2 DEF FromRelay
<1>4. ASSUME NEW r \in Relays, Connected(r) PROVE BufferInv'
  <2>1. ~ rxBusy => rx.from = {}
    BY <1>4, RelaysAssumption DEF Connected
  <2>2. QED
    BY <1>1, <1>4, <2>1 DEF Connected
<1>5. QED
  BY <1>2, <1>3, <1>4

\* A message is complete: it is the only one, and the buffer is given away.
LEMMA WriteEndBuffer == ASSUME TypeOK, BufferInv, WriteEnd PROVE BufferInv'
<1> USE DEF TypeOK, BufferInv
<1>1. PICK m \in Messages :
        /\ Post(m)
        /\ m = "RESPONSE" => rx.from # {} /\ ~ rx.overflow
  BY DEF WriteEnd, Messages, FromRelay
<1>2. \A i \in 1 .. Len(queue') :
        \/ i \in 1 .. Len(queue) /\ queue'[i] = queue[i]
        \/ i = Len(queue) + 1 /\ queue'[i] = m
  BY <1>1, Posted
<1>3. Waiting = {} /\ ~ InHand /\ conn \in Relays /\ rx.from \subseteq {conn}
  BY DEF WriteEnd
<1>4. rxBusy' = TRUE /\ UNCHANGED <<rx, pc>>
  BY DEF WriteEnd
<1>5. OneMessageInFlight'
  BY <1>2, <1>3, <1>4
<1>6. WholeResponse'
  BY <1>1, <1>2, <1>3, <1>4 DEF FromRelay
<1>7. QED
  BY <1>3, <1>4, <1>5, <1>6

LEMMA PressBuffer == ASSUME TypeOK, BufferInv, PressButton PROVE BufferInv'
<1> USE DEF TypeOK, BufferInv
<1>1. \A i \in 1 .. Len(queue') :
        \/ i \in 1 .. Len(queue) /\ queue'[i] = queue[i]
        \/ i = Len(queue) + 1 /\ queue'[i] = "BUTTON"
  BY Posted DEF PressButton, Messages
<1>2. UNCHANGED <<conn, rx, rxBusy, pc>>
  BY DEF PressButton, bluetooth
<1>3. OneMessageInFlight'
  BY <1>1, <1>2 DEF FromRelay
<1>4. WholeResponse'
  BY <1>1, <1>2
<1>5. QED
  BY <1>2, <1>3, <1>4

\* The main thread takes a message: no other is waiting.
LEMMA TakeBuffer ==
  ASSUME TypeOK, BufferInv, TakeKick \/ TakeOverflow \/ TakeResponse \/ TakeButton
  PROVE  BufferInv'
<1> USE DEF TypeOK, BufferInv
<1>1. UNCHANGED <<conn, rx, rxBusy>>
  BY DEF TakeKick, TakeOverflow, TakeResponse, TakeButton, bluetooth
<1>2. PICK m \in Messages :
        /\ Take(m)
        /\ IF m = "BUTTON" THEN pc' = "loop"
           ELSE pc' = IF m = "RESPONSE" THEN "apply" ELSE "release"
  BY DEF TakeKick, TakeOverflow, TakeResponse, TakeButton, Take, Messages, FromRelay
<1>3. /\ pc = "loop" /\ 1 \in 1 .. Len(queue) /\ queue[1] = m
      /\ \A i \in 1 .. Len(queue') : i + 1 \in 1 .. Len(queue) /\ queue'[i] = queue[i + 1]
  BY <1>2, Taken
<1>4. CASE m = "BUTTON"
  <2>1. pc' = "loop"
    BY <1>2, <1>4
  <2>2. OneMessageInFlight'
    <3>1. \A i \in Waiting' : i \in Nat /\ i + 1 \in Waiting
      BY <1>3
    <3>2. \A i, j \in Waiting' : i = j
      <4>1. TAKE i, j \in Waiting'
      <4>2. i \in Nat /\ j \in Nat /\ i + 1 \in Waiting /\ j + 1 \in Waiting
        BY <3>1
      <4>3. i + 1 = j + 1
        BY <4>2
      <4>4. QED
        BY <4>2, <4>3
    <3>3. QED
      BY <1>1, <1>3, <2>1, <3>1, <3>2
  <2>3. WholeResponse'
    BY <1>1, <1>3, <2>1
  <2>4. QED
    BY <1>1, <2>1, <2>2, <2>3
<1>5. CASE m \in FromRelay
  <2>1. Waiting' = {}
    BY <1>3, <1>5
  <2>2. rxBusy
    BY <1>3, <1>5
  <2>3. pc' \in {"apply", "release"} /\ (pc' = "apply" => m = "RESPONSE")
    BY <1>2, <1>5 DEF FromRelay
  <2>4. WholeResponse'
    BY <1>1, <1>3, <2>1, <2>3 DEF FromRelay
  <2>5. QED
    BY <1>1, <2>1, <2>2, <2>3, <2>4
<1>6. QED
  BY <1>2, <1>4, <1>5 DEF Messages

\* It has it, and gives the buffer back empty.
LEMMA ReleaseBufferStep ==
  ASSUME TypeOK, BufferInv, Apply \/ ResetBuffer \/ ReleaseBuffer
  PROVE  BufferInv'
<1> USE DEF TypeOK, BufferInv
<1>1. CASE Apply
  BY <1>1 DEF Apply, bluetooth
<1>2. CASE ResetBuffer
  BY <1>2 DEF ResetBuffer, FromRelay
<1>3. CASE ReleaseBuffer
  <2>1. pc' \notin {"apply", "release", "clear"} /\ UNCHANGED <<queue, rx, conn>>
    BY <1>3 DEF ReleaseBuffer
  <2>2. Waiting = {} /\ rx = Empty
    BY <1>3 DEF ReleaseBuffer
  <2>3. QED
    BY <1>3, <2>1, <2>2 DEF ReleaseBuffer, Empty, FromRelay
<1>4. QED
  BY <1>1, <1>2, <1>3

\* Everything else leaves the buffer and the queue alone, or resets.
LEMMA OtherBuffer ==
  ASSUME TypeOK, BufferInv,
         \/ DeadlinePasses \/ BuildEnvelope \/ BuildFails \/ SendEnvelope
         \/ Confirm \/ GraceOver \/ ReturnToApplication \/ GoIdle
  PROVE  BufferInv'
<1>1. UNCHANGED <<bluetooth, queue>>
  BY DEF DeadlinePasses, BuildEnvelope, BuildFails, SendEnvelope, Confirm, GraceOver,
         ReturnToApplication, GoIdle
<1>2. \/ UNCHANGED pc
      \/ ~ InHand /\ ~ InHand'
  BY DEF DeadlinePasses, BuildEnvelope, BuildFails, SendEnvelope, Confirm, GraceOver,
         ReturnToApplication, GoIdle
<1>3. QED
  BY <1>1, <1>2 DEF BufferInv, bluetooth

LEMMA RebootBuffer == RebootNow => BufferInv'
BY DEF RebootNow, Restarted, BufferInv, Empty

LEMMA BufferStep == TypeOK /\ BufferInv /\ Acts => BufferInv'
BY BluetoothBuffer, WriteEndBuffer, PressBuffer, TakeBuffer, ReleaseBufferStep, OtherBuffer,
   RebootBuffer DEF Acts

-----------------------------------------------------------------------------

LEMMA Initial == Init => Inv
<1>1. Init => BufferInv
  BY DEF Init, BufferInv, Empty
<1>2. QED
  BY <1>1, TypeInitial DEF Init, Inv, SessionInv, StatusInv, IdleHasNoSession, BuiltInWindow,
     NeverLeftRelaying, TaskKnown

LEMMA Step == Inv /\ [Next]_vars => Inv'
<1> SUFFICES ASSUME Inv, [Next]_vars PROVE Inv'
  OBVIOUS
<1>1. CASE Acts
  BY <1>1, TypeStep, BufferStep, SessionStep, StatusStep DEF Inv
<1>2. CASE UNCHANGED vars
  BY <1>2 DEF vars, bluetooth, window, Inv, TypeOK, BufferInv, SessionInv, StatusInv,
     IdleHasNoSession, BuiltInWindow, NeverLeftRelaying, TaskKnown
<1>3. QED
  BY <1>1, <1>2, NextActs

\* The invariant holds of every behaviour.
THEOREM Invariance == Spec => []Inv
BY Initial, Step, PTL DEF Spec

(* The session keeps its types, for any connections and size of the queue. *)
THEOREM TypeCorrect == Spec => []TypeOK
<1>1. Inv => TypeOK
  BY DEF Inv
<1>2. QED
  BY <1>1, Invariance, PTL

(* rx_busy guards the buffer although it is not set with the queue: there is
   never a second complete message. *)
THEOREM MessageInFlight == Spec => []OneMessageInFlight
<1>1. Inv => OneMessageInFlight
  BY DEF Inv, BufferInv
<1>2. QED
  BY <1>1, Invariance, PTL

(* What is applied is whole, and one relay's. *)
THEOREM SendersMessage == Spec => []OneSendersMessage
<1>1. Inv => OneSendersMessage
  BY DEF Inv, BufferInv, OneSendersMessage
<1>2. QED
  BY <1>1, Invariance, PTL

(* A session key does not outlive its window. *)
THEOREM SessionEnds == Spec => []IdleHasNoSession
<1>1. Inv => IdleHasNoSession
  BY DEF Inv, SessionInv
<1>2. QED
  BY <1>1, Invariance, PTL

(* No relay is left looking at "relaying". *)
THEOREM RelayIsTold == Spec => []NeverLeftRelaying
<1>1. Inv => NeverLeftRelaying
  BY DEF Inv, StatusInv
<1>2. QED
  BY <1>1, Invariance, PTL

-----------------------------------------------------------------------------
(* The session implements OneBuffer                                        *)

USE DEF Buffer!Fill, Buffer!Drop, Buffer!HandOver, Buffer!Empty, Buffer!GiveBack,
        Buffer!Restart, Buffer!vars

LEMMA BufferInit == Init => Buffer!Init
BY DEF Init, Buffer!Init, Empty

LEMMA BufferMaps == Inv /\ [Next]_vars => [Buffer!Next]_(Buffer!vars)
<1> SUFFICES ASSUME Inv, [Next]_vars PROVE [Buffer!Next]_(Buffer!vars)
  OBVIOUS
<1> USE DEF Inv, TypeOK, BufferInv, Buffer!Next
<1>1. CASE WriteData
  <2>1. conn \in Relays /\ rx.from \subseteq {conn}
    BY <1>1 DEF WriteData
  <2>2. QED
    BY <1>1, <2>1 DEF WriteData
<1>2. CASE Disconnected \/ WriteEnd
  BY <1>2 DEF Disconnected, WriteEnd, Empty
<1>3. CASE ResetBuffer
  BY <1>3 DEF ResetBuffer, Empty
<1>4. CASE ReleaseBuffer
  BY <1>4 DEF ReleaseBuffer, Empty
<1>5. CASE RebootNow
  BY <1>5 DEF RebootNow, Restarted, Empty
<1>6. CASE \/ \E r \in Relays : Connected(r)
           \/ PressButton \/ DeadlinePasses
           \/ TakeKick \/ TakeOverflow \/ TakeResponse \/ TakeButton
           \/ Apply \/ BuildEnvelope \/ BuildFails \/ SendEnvelope
           \/ Confirm \/ GraceOver \/ ReturnToApplication \/ GoIdle
           \/ UNCHANGED vars
  <2>1. UNCHANGED <<rx, rxBusy>>
    BY <1>6 DEF Connected, PressButton, DeadlinePasses, TakeKick, TakeOverflow, TakeResponse,
           TakeButton, Apply, BuildEnvelope, BuildFails, SendEnvelope, Confirm, GraceOver,
           ReturnToApplication, GoIdle, vars, bluetooth
  <2>2. QED
    BY <2>1
<1>7. QED
  BY <1>1, <1>2, <1>3, <1>4, <1>5, <1>6, NextActs DEF Acts

(* Two threads, a flag and a queue implement a buffer with one owner. *)
THEOREM Refinement == Spec => BufferIsOwned
<1>1. Spec => Buffer!Init /\ [][Buffer!Next]_(Buffer!vars)
  BY BufferInit, BufferMaps, Invariance, PTL DEF Spec
<1>2. QED
  BY <1>1 DEF BufferIsOwned, Buffer!Spec
=============================================================================
