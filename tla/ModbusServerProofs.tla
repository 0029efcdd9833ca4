------------------------- MODULE ModbusServerProofs -------------------------
(***************************************************************************)
(* Proofs about the Modbus server and the control points, for any clients, *)
(* requests and points: with a core that answers in time every reply is to *)
(* its request, and with parameters applied undisturbed only they rule.    *)
(***************************************************************************)
EXTENDS ModbusServer, TLAPS

ClientActs ==
  \/ \E c \in Clients : Connect(c)
  \/ \E op \in Operations : SendRequest(op)
  \/ HangUp

ServerActs ==
  \/ \E c \in Clients : Accept(c)
  \/ Receive \/ ReceiveCut \/ \E op \in Requests : ReceiveShort(op)
  \/ Submit \/ SubmitFails \/ TakeResponse \/ ResponseTimesOut \/ Reply
  \/ ClientGone \/ DropIdle \/ Close

LEMMA NextActs == Next => ClientActs \/ ServerActs \/ Answer \/ Ignore \/ WatchdogReset \/ CloudActs
BY DEF Next, Client, Sends, Listener, Core, ClientActs, ServerActs

USE DEF sockets, controls

-----------------------------------------------------------------------------
(* Control points                                                          *)

ControlsNext ==
  \/ \E p \in Points, v \in Requested : WriteControl(p, v)
  \/ Cloud \/ ControlsReboot \/ UNCHANGED controls

LEMMA ControlsInitial == ControlsInit => ControlsTypeOK
BY ControlsAssumption DEF ControlsInit, ControlsTypeOK, ParameterSets, Values, Points

LEMMA ClampedIn == \A v \in Requested : Clamped(v) \in Values
BY ControlsAssumption DEF Clamped, Requested, Values

LEMMA ValuesKept == \A v \in Values : Clamped(v) = v
BY ControlsAssumption DEF Clamped, Values

LEMMA PointIn == \A i \in DOMAIN Order : Order[i] \in Points
BY DEF Points

LEMMA StepsAre == Len(Order) \in Nat /\ DOMAIN Order = 1 .. Len(Order)
BY ControlsAssumption

\* A point that is applied takes its parameter's value.
LEMMA Applied ==
  ASSUME ControlsTypeOK, ApplyPoint
  PROVE  /\ control' = [control EXCEPT ![Order[step]] = params.value[Order[step]]]
         /\ Order[step] \in Points /\ params.value[Order[step]] \in Values
<1>1. Order[step] \in Points
  BY PointIn DEF ApplyPoint
<1>2. params.value[Order[step]] \in Values
  BY <1>1 DEF ControlsTypeOK, ParameterSets
<1>3. QED
  BY <1>1, <1>2, ValuesKept DEF ApplyPoint

LEMMA ControlsTypes == ASSUME ControlsTypeOK, ControlsNext PROVE ControlsTypeOK'
<1> USE StepsAre DEF ControlsTypeOK
<1>1. ASSUME NEW p \in Points, NEW v \in Requested, WriteControl(p, v) PROVE ControlsTypeOK'
  <2>1. Clamped(v) \in Values
    BY ClampedIn
  <2>2. QED
    BY <1>1, <2>1 DEF WriteControl
<1>2. CASE \E p \in ParameterSets : ParametersChange(p)
  BY <1>2 DEF ParametersChange
<1>3. CASE ApplyPoint
  BY <1>3, Applied DEF ApplyPoint
<1>4. CASE ApplyLocalWrites
  BY <1>4 DEF ApplyLocalWrites, ParameterSets
<1>5. CASE ControlsReboot
  <2>1. [p \in Points |-> 0] \in [Points -> Values]
    BY ControlsAssumption DEF Values
  <2>2. QED
    BY <1>5, <2>1 DEF ControlsReboot
<1>6. CASE UNCHANGED controls
  BY <1>6
<1>7. QED
  BY <1>1, <1>2, <1>3, <1>4, <1>5, <1>6 DEF ControlsNext, Cloud, Apply

\* Points before the one control_apply() has come to have their parameters.
AppliedSoFar ==
  step # 0 =>
    \A i \in DOMAIN Order : i < step => control[Order[i]] = params.value[Order[i]]

ParametersInv == ControlsTypeOK /\ AppliedSoFar /\ OnlyParameters

LEMMA ParametersInitial == ControlsInit => ParametersInv
BY ControlsInitial, StepsAre DEF ControlsInit, ParametersInv, AppliedSoFar, OnlyParameters

LEMMA ParametersStep ==
  ASSUME Undisturbed, ParametersInv, ControlsNext PROVE ParametersInv'
<1> USE StepsAre DEF ParametersInv, AppliedSoFar, OnlyParameters
<1>1. ControlsTypeOK'
  BY ControlsTypes
<1>2. ASSUME NEW p \in Points, NEW v \in Requested, WriteControl(p, v) PROVE ParametersInv'
  BY <1>1, <1>2 DEF WriteControl, WriteAllowed
<1>3. CASE \E p \in ParameterSets : ParametersChange(p)
  BY <1>1, <1>3 DEF ParametersChange
<1>4. CASE ApplyPoint
  <2>1. \A i \in DOMAIN Order : i < step + 1 => control'[Order[i]] = params.value[Order[i]]
    BY <1>4, Applied, PointIn DEF ApplyPoint, ControlsTypeOK
  <2>2. QED
    BY <1>1, <1>4, <2>1 DEF ApplyPoint, ControlsTypeOK
<1>5. CASE ApplyLocalWrites
  <2>1. \A p \in Points : control[p] = params.value[p]
    BY <1>5 DEF ApplyLocalWrites, Points
  <2>2. control = params.value
    BY <2>1 DEF ControlsTypeOK, ParameterSets
  <2>3. QED
    BY <1>1, <1>5, <2>2 DEF ApplyLocalWrites
<1>6. CASE ControlsReboot
  BY <1>1, <1>6 DEF ControlsReboot
<1>7. CASE UNCHANGED controls
  BY <1>1, <1>7
<1>8. QED
  BY <1>2, <1>3, <1>4, <1>5, <1>6, <1>7 DEF ControlsNext, Cloud, Apply

-----------------------------------------------------------------------------
(* Types                                                                   *)

LEMMA NoRequests == <<>> \in Seq(Transactions) /\ Len(<<>>) <= MaxPipelined
BY ModbusAssumption

\* There is something to submit and to answer, and to make up from a short read.
HasAdu ==
  /\ pc \in {"submit", "wait"} => tmp # Nothing
  /\ pc = "frame" => inbox # <<>>

LEMMA SocketsInitial == Init => SocketTypeOK /\ ServerTypeOK /\ HasAdu
<1> SUFFICES ASSUME Init PROVE SocketTypeOK /\ ServerTypeOK /\ HasAdu
  OBVIOUS
<1>1. SocketTypeOK
  <2>1. inbox \in Seq(Transactions) /\ Len(inbox) <= MaxPipelined
    BY NoRequests DEF Init
  <2>2. backlog \subseteq Clients /\ conn \in Clients \cup {NoClient} /\ gone \in BOOLEAN
    BY DEF Init
  <2>3. sent \in 0 .. MaxRequests
    BY ModbusAssumption DEF Init
  <2>4. QED
    BY <2>1, <2>2, <2>3 DEF SocketTypeOK
<1>2. ServerTypeOK /\ HasAdu
  BY DEF Init, ServerTypeOK, HasAdu
<1>3. QED
  BY <1>1, <1>2

LEMMA SocketTypes == ASSUME SocketTypeOK, HasAdu, [Next]_vars PROVE SocketTypeOK'
<1> USE ModbusAssumption, NoRequests DEF SocketTypeOK
<1>1. ASSUME NEW c \in Clients, Connect(c) \/ Accept(c) PROVE SocketTypeOK'
  <2>1. CASE Connect(c)
    BY <2>1 DEF Connect
  <2>2. CASE Accept(c)
    BY <2>2 DEF Accept
  <2>3. QED
    BY <1>1, <2>1, <2>2
<1>2. ASSUME NEW op \in Operations, SendRequest(op) PROVE SocketTypeOK'
  <2>1. sent' \in 1 .. MaxRequests /\ conn \in Clients
    BY <1>2 DEF SendRequest
  <2>2. [id |-> sent', client |-> conn, op |-> op] \in Transactions
    BY <2>1 DEF Transactions
  <2>3. inbox' \in Seq(Transactions) /\ Len(inbox') <= MaxPipelined
    BY <1>2, <2>2 DEF SendRequest
  <2>4. QED
    BY <1>2, <2>1, <2>3 DEF SendRequest
<1>3. CASE Receive \/ \E op \in Requests : ReceiveShort(op)
  <2>1. inbox # <<>> /\ inbox' = Tail(inbox)
    BY <1>3 DEF Receive, ReceiveShort, HasAdu
  <2>2. Tail(inbox) \in Seq(Transactions) /\ Len(Tail(inbox)) <= Len(inbox)
    BY <2>1
  <2>3. UNCHANGED <<backlog, conn, gone, sent>>
    BY <1>3 DEF Receive, ReceiveShort
  <2>4. QED
    BY <2>1, <2>2, <2>3
<1>4. CASE Close \/ WatchdogReset
  BY <1>4 DEF Close, WatchdogReset
<1>5. CASE \/ HangUp \/ ReceiveCut \/ Submit \/ SubmitFails \/ TakeResponse
           \/ ResponseTimesOut \/ Reply \/ ClientGone \/ DropIdle \/ Answer \/ Ignore
           \/ CloudActs \/ UNCHANGED vars
  BY <1>5 DEF HangUp, ReceiveCut, Submit, SubmitFails, TakeResponse, ResponseTimesOut,
         Reply, ClientGone, DropIdle, Answer, Ignore, CloudActs, vars
<1>6. QED
  BY <1>1, <1>2, <1>3, <1>4, <1>5, NextActs DEF ClientActs, ServerActs

\* What a short read passes for is a transaction.
LEMMA ShortIn ==
  ASSUME SocketTypeOK, inbox # <<>>, NEW op \in Requests
  PROVE  [Head(inbox) EXCEPT !.op = op] \in Transactions
<1>1. Head(inbox) \in Transactions
  BY DEF SocketTypeOK
<1>2. op \in Operations
  BY DEF Operations
<1>3. QED
  BY <1>1, <1>2 DEF Transactions

LEMMA ServerTypes ==
  ASSUME SocketTypeOK, ServerTypeOK, HasAdu, [Next]_vars PROVE (ServerTypeOK /\ HasAdu)'
<1> USE ModbusAssumption DEF SocketTypeOK, ServerTypeOK, HasAdu
<1>1. CASE ClientActs
  <2>1. UNCHANGED <<pc, asked, tmp, ready, core>>
    BY <1>1 DEF ClientActs, Connect, SendRequest, HangUp
  <2>2. inbox' = inbox \/ inbox' # <<>>
    <3>1. ASSUME NEW op \in Operations, SendRequest(op) PROVE inbox' # <<>>
      <4>1. inbox' = Append(inbox, [id |-> sent', client |-> conn, op |-> op])
        BY <3>1 DEF SendRequest
      <4>2. Len(inbox') = Len(inbox) + 1
        BY <4>1
      <4>3. QED
        BY <4>2
    <3>2. QED
      BY <1>1, <3>1 DEF ClientActs, Connect, HangUp
  <2>3. QED
    BY <2>1, <2>2
<1>2. CASE CloudActs \/ Close \/ UNCHANGED vars \/ \E c \in Clients : Accept(c)
  BY <1>2 DEF Accept, CloudActs, Close, vars
<1>3. CASE Receive
  <2>1. Head(inbox) \in Transactions
    BY <1>3 DEF Receive
  <2>2. [of |-> Head(inbox), kind |-> "request"] \in Adus
    BY <2>1 DEF Adus
  <2>3. QED
    BY <1>3, <2>1, <2>2 DEF Receive
<1>4. CASE ResponseTimesOut
  <2>1. tmp \in Adus
    BY <1>4 DEF ResponseTimesOut
  <2>2. [tmp EXCEPT !.kind = "failure"] \in Adus
    BY <2>1 DEF Adus
  <2>3. QED
    BY <1>4, <2>2 DEF ResponseTimesOut
<1>5. CASE Answer
  <2>1. [of |-> core.of, kind |-> "answer"] \in Adus
    BY <1>5 DEF Answer, Adus
  <2>2. QED
    BY <1>5, <2>1 DEF Answer
<1>6. CASE \/ ReceiveCut \/ Submit \/ SubmitFails \/ TakeResponse \/ Reply
           \/ ClientGone \/ DropIdle \/ Ignore \/ WatchdogReset
  <2>1. CASE ReceiveCut
    BY <2>1 DEF ReceiveCut
  <2>2. CASE Submit
    BY <2>2 DEF Submit
  <2>3. CASE WatchdogReset
    BY <2>3 DEF WatchdogReset
  <2>4. CASE SubmitFails \/ ClientGone \/ DropIdle
    BY <2>4 DEF SubmitFails, ClientGone, DropIdle
  <2>5. CASE TakeResponse
    BY <2>5 DEF TakeResponse
  <2>6. CASE Reply
    BY <2>6 DEF Reply
  <2>7. CASE Ignore
    BY <2>7 DEF Ignore
  <2>8. QED
    BY <1>6, <2>1, <2>2, <2>3, <2>4, <2>5, <2>6, <2>7, Zenon
<1>7. ASSUME NEW op \in Requests, ReceiveShort(op) PROVE (ServerTypeOK /\ HasAdu)'
  <2>1. asked' \in Transactions
    BY <1>7, ShortIn DEF ReceiveShort
  <2>2. [of |-> asked', kind |-> "request"] \in Adus
    BY <2>1 DEF Adus
  <2>3. QED
    BY <1>7, <2>1, <2>2 DEF ReceiveShort
<1>8. QED
  BY <1>1, <1>2, <1>3, <1>4, <1>5, <1>6, <1>7, NextActs DEF ServerActs

-----------------------------------------------------------------------------
(* Replies                                                                 *)

\* Whatever the server does, it writes the control points as a master may.
LEMMA NextControls == ServerTypeOK /\ [Next]_vars => ControlsNext
<1> SUFFICES ASSUME ServerTypeOK, Next PROVE ControlsNext
  BY DEF vars, ControlsNext
<1>1. CASE ClientActs \/ ServerActs \/ Ignore
  BY <1>1 DEF ClientActs, ServerActs, Connect, SendRequest, HangUp, Accept, Receive,
         ReceiveCut, ReceiveShort, Submit, SubmitFails, TakeResponse, ResponseTimesOut, Reply, ClientGone, DropIdle,
         Close, Ignore, ControlsNext
<1>2. CASE WatchdogReset \/ CloudActs
  BY <1>2 DEF WatchdogReset, CloudActs, ControlsNext
<1>3. CASE Answer
  <2>1. core.of.op \in Operations
    BY <1>3 DEF Answer, ServerTypeOK, Adus, Transactions
  <2>2. CASE core.of.op.kind = "write"
    <3>1. core.of.op.point \in Points /\ core.of.op.value \in Requested
      BY <2>1, <2>2 DEF Operations, Requests
    <3>2. QED
      BY <1>3, <2>2, <3>1 DEF Answer, Run, ControlsNext
  <2>3. CASE core.of.op.kind # "write"
    BY <1>3, <2>3 DEF Answer, Run, ControlsNext
  <2>4. QED
    BY <2>2, <2>3
<1>4. QED
  BY <1>1, <1>2, <1>3, NextActs

\* With a core in time nothing is left over between two requests, and what is
\* under way is the request's.
NothingLeftOver ==
  /\ pc # "wait" => ~ ready /\ core = Nothing
  /\ pc \in {"submit", "wait", "reply"} => tmp.of = asked
  /\ pc = "wait" /\ core # Nothing => ~ ready /\ core.of = asked
  /\ pc = "wait" /\ ready => tmp.kind = "answer"
  /\ pc = "reply" => tmp.kind \in {"answer", "failure"}

LEMMA LeftOverStep ==
  ASSUME PromptCore, ServerTypeOK, HasAdu, NothingLeftOver, [Next]_vars
  PROVE  NothingLeftOver'
<1> USE DEF ServerTypeOK, HasAdu, NothingLeftOver
<1>1. CASE ClientActs \/ CloudActs \/ UNCHANGED vars \/ \E c \in Clients : Accept(c)
  <2>1. CASE ClientActs
    <3>1. UNCHANGED <<pc, asked, tmp, ready, core>>
      BY <2>1 DEF ClientActs, Connect, SendRequest, HangUp
    <3>2. QED
      BY <3>1
  <2>2. CASE CloudActs \/ UNCHANGED vars
    BY <2>2 DEF CloudActs, vars
  <2>3. CASE \E c \in Clients : Accept(c)
    BY <2>3 DEF Accept
  <2>4. QED
    BY <1>1, <2>1, <2>2, <2>3
<1>2. CASE Receive \/ ReceiveCut \/ SubmitFails \/ \E op \in Requests : ReceiveShort(op)
  BY <1>2 DEF Receive, ReceiveCut, ReceiveShort, SubmitFails
<1>3. CASE Submit
  BY <1>3 DEF Submit
<1>4. CASE TakeResponse
  BY <1>4 DEF TakeResponse
<1>5. CASE ResponseTimesOut
  <2>1. tmp \in Adus
    BY <1>5 DEF ResponseTimesOut
  <2>2. tmp'.of = tmp.of /\ tmp'.kind = "failure"
    BY <1>5, <2>1 DEF ResponseTimesOut, Adus
  <2>3. QED
    BY <1>5, <2>2 DEF ResponseTimesOut
<1>6. CASE Reply \/ ClientGone \/ DropIdle \/ Close
  BY <1>6 DEF Reply, ClientGone, DropIdle, Close
<1>7. CASE Answer \/ Ignore
  <2>1. pc = "wait" /\ ~ ready /\ core.of = asked
    BY <1>7 DEF Answer, Ignore
  <2>2. CASE Answer
    <3>1. tmp' = [of |-> core.of, kind |-> "answer"] /\ core' = Nothing /\ ready'
      BY <2>2 DEF Answer
    <3>2. pc' = pc /\ asked' = asked
      BY <2>2 DEF Answer
    <3>3. tmp'.of = asked' /\ tmp'.kind = "answer"
      BY <2>1, <3>1, <3>2
    <3>4. QED
      BY <2>1, <3>1, <3>2, <3>3
  <2>3. CASE Ignore
    BY <2>1, <2>3 DEF Ignore
  <2>4. QED
    BY <1>7, <2>2, <2>3
<1>8. CASE WatchdogReset
  BY <1>8 DEF WatchdogReset
<1>9. QED
  BY <1>1, <1>2, <1>3, <1>4, <1>5, <1>6, <1>7, <1>8, NextActs DEF ServerActs

-----------------------------------------------------------------------------

ServerInv == SocketTypeOK /\ ServerTypeOK /\ HasAdu

LEMMA ServerInvariance == Spec => []ServerInv
<1>1. ServerInv /\ [Next]_vars => ServerInv'
  BY SocketTypes, ServerTypes DEF ServerInv
<1>2. Init => ServerInv
  BY SocketsInitial DEF ServerInv
<1>3. QED
  BY <1>1, <1>2, PTL DEF Spec

(* The server and the control points keep their types: what a master asks for
   is clamped, for any set of points and values. *)
THEOREM TypeCorrect == Spec => []TypeOK
<1>1. Init => ControlsTypeOK
  BY ControlsInitial DEF Init
<1>2. ServerInv /\ ControlsTypeOK /\ [Next]_vars => ControlsTypeOK'
  BY NextControls, ControlsTypes DEF ServerInv
<1>3. Spec => []ControlsTypeOK
  BY <1>1, <1>2, ServerInvariance, PTL DEF Spec
<1>4. ServerInv /\ ControlsTypeOK => TypeOK
  BY DEF TypeOK, ServerInv
<1>5. QED
  BY <1>3, <1>4, ServerInvariance, PTL

(* With a work queue that answers within the second, every reply is to the
   request that was asked, from any clients and any number of requests. *)
THEOREM RepliesMatch == PromptCore /\ Spec => []ReplyMatchesRequest
<1>1. SUFFICES ASSUME PromptCore PROVE Spec => []ReplyMatchesRequest
  OBVIOUS
<1>2. Init => NothingLeftOver
  BY DEF Init, NothingLeftOver
<1>3. ServerInv /\ NothingLeftOver /\ [Next]_vars => NothingLeftOver'
  BY <1>1, LeftOverStep DEF ServerInv
<1>4. NothingLeftOver => ReplyMatchesRequest
  BY DEF NothingLeftOver, ReplyMatchesRequest
<1>5. QED
  BY <1>2, <1>3, <1>4, ServerInvariance, PTL DEF Spec

(* With no write while parameters are applied, a pump whose local writes are
   off does what the parameters say, however many points there are. *)
THEOREM ParametersRule == Undisturbed /\ Spec => []OnlyParameters
<1>1. SUFFICES ASSUME Undisturbed PROVE Spec => []OnlyParameters
  OBVIOUS
<1>2. Init => ParametersInv
  BY ParametersInitial DEF Init
<1>3. ServerInv /\ ParametersInv /\ [Next]_vars => ParametersInv'
  BY <1>1, NextControls, ParametersStep DEF ServerInv
<1>4. ParametersInv => OnlyParameters
  BY DEF ParametersInv
<1>5. QED
  BY <1>2, <1>3, <1>4, ServerInvariance, PTL DEF Spec
=============================================================================
