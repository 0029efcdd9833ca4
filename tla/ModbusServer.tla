---------------------------- MODULE ModbusServer ----------------------------
(***************************************************************************)
(* The Modbus TCP server (lib/modbus/modbus_server.c).                     *)
(*                                                                         *)
(* A listener thread serves one client at a time.  It reads a request into *)
(* tmp_adu, submits a copy to Zephyr's Modbus core, which runs the request *)
(* on the system work queue and puts the answer into the same tmp_adu, and *)
(* waits a second for the response_ready semaphore before it replies with  *)
(* a failure.  Nothing takes back a late answer.                           *)
(*                                                                         *)
(* A request is its transaction id, its client and what it asks for; the   *)
(* answer is the transaction's id with the outcome.                        *)
(***************************************************************************)
EXTENDS PumpControls, Sequences

CONSTANTS
  Clients,
  NoClient,
  Nothing,      \* in place of an ADU
  MaxRequests,  \* bound: transactions in a behaviour
  MaxPipelined, \* bound: requests a client sends ahead
  PromptCore    \* does the core always answer within the second?

\* What a whole request asks for; of another unit's the core only takes notice.
Requests ==
  [kind : {"write"}, point : Points, value : Requested]
    \cup [kind : {"read", "another unit"}]
\* Of a cut request the rest never comes.
Operations == Requests \cup [kind : {"cut"}]
Transactions ==
  [id : 1 .. MaxRequests, client : Clients, op : Operations]
Adus == [of : Transactions, kind : {"request", "answer", "failure"}]

ASSUME ModbusAssumption ==
  /\ NoClient \notin Clients
  /\ Nothing \notin Transactions \cup Adus
  /\ MaxRequests \in Nat /\ MaxPipelined \in Nat
  /\ PromptCore \in BOOLEAN

VARIABLES
  backlog,     \* clients in the listening socket's queue
  conn,        \* the accepted client
  gone,        \* has that client closed its connection?
  inbox,       \* its requests that are not read yet
  sent,        \* transactions so far
  pc,          \* the listener's flow of control
  asked,       \* history: the request being served
  tmp,         \* tmp_adu
  ready,       \* response_ready
  core         \* the core's rx_adu, submitted and not yet handled

sockets == <<backlog, conn, gone, inbox, sent>>
vars == <<sockets, pc, asked, tmp, ready, core, controls>>

SocketTypeOK ==
  /\ backlog \subseteq Clients
  /\ conn \in Clients \cup {NoClient}
  /\ gone \in BOOLEAN
  /\ inbox \in Seq(Transactions) /\ Len(inbox) <= MaxPipelined
  /\ sent \in 0 .. MaxRequests

ServerTypeOK ==
  /\ pc \in {"accept", "poll", "frame", "submit", "wait", "reply", "close"}
  /\ asked \in Transactions \cup {Nothing}
  /\ tmp \in Adus \cup {Nothing}
  /\ ready \in BOOLEAN
  /\ core \in Adus \cup {Nothing}

TypeOK == ControlsTypeOK /\ SocketTypeOK /\ ServerTypeOK

Init ==
  /\ ControlsInit
  /\ backlog = {}
  /\ conn = NoClient
  /\ gone = FALSE
  /\ inbox = <<>>
  /\ sent = 0
  /\ pc = "accept"
  /\ asked = Nothing
  /\ tmp = Nothing
  /\ ready = FALSE
  /\ core = Nothing

-----------------------------------------------------------------------------
(* Clients *)

Connect(c) ==
  /\ c \notin backlog \cup {conn}
  /\ backlog' = backlog \cup {c}
  /\ UNCHANGED <<conn, gone, inbox, sent, pc, asked, tmp, ready, core, controls>>

SendRequest(op) ==
  /\ conn # NoClient /\ ~ gone
  /\ sent < MaxRequests /\ Len(inbox) < MaxPipelined
  /\ sent' = sent + 1
  /\ inbox' = Append(inbox, [id |-> sent', client |-> conn, op |-> op])
  /\ UNCHANGED <<backlog, conn, gone, pc, asked, tmp, ready, core, controls>>

HangUp ==
  /\ conn # NoClient /\ ~ gone
  /\ gone' = TRUE
  /\ UNCHANGED <<backlog, conn, inbox, sent, pc, asked, tmp, ready, core, controls>>

-----------------------------------------------------------------------------
(* The listener thread *)

Accept(c) ==
  /\ pc = "accept"
  /\ c \in backlog
  /\ backlog' = backlog \ {c}
  /\ conn' = c /\ gone' = FALSE /\ inbox' = <<>>
  /\ pc' = "poll"
  /\ UNCHANGED <<sent, asked, tmp, ready, core, controls>>

\* serve_once(): a whole frame is read into tmp_adu.
Receive ==
  /\ pc = "poll"
  /\ inbox # <<>> /\ Head(inbox).op.kind # "cut"
  /\ asked' = Head(inbox)
  /\ tmp' = [of |-> Head(inbox), kind |-> "request"]
  /\ inbox' = Tail(inbox)
  /\ pc' = "submit"
  /\ UNCHANGED <<backlog, conn, gone, sent, ready, core, controls>>

\* serve_once() waits for a whole frame, for as long as it takes.
ReceiveCut ==
  /\ pc = "poll"
  /\ inbox # <<>> /\ Head(inbox).op.kind = "cut"
  /\ pc' = "frame"
  /\ UNCHANGED <<sockets, asked, tmp, ready, core, controls>>

\* A client that leaves in the middle of a frame ends the wait with a short
\* read, which passes for a whole one: what is missing is what the buffers hold.
ReceiveShort(op) ==
  /\ pc = "frame"
  /\ gone
  /\ asked' = [Head(inbox) EXCEPT !.op = op]
  /\ tmp' = [of |-> asked', kind |-> "request"]
  /\ inbox' = Tail(inbox)
  /\ pc' = "submit"
  /\ UNCHANGED <<backlog, conn, gone, sent, ready, core, controls>>

\* modbus_raw_submit_rx() copies tmp_adu as it is by now.
Submit ==
  /\ pc = "submit"
  /\ core' = tmp
  /\ pc' = "wait"
  /\ UNCHANGED <<sockets, asked, tmp, ready, controls>>

\* A frame that cannot be submitted is skipped: no reply, same connection.
SubmitFails ==
  /\ pc = "submit"
  /\ pc' = "poll"
  /\ UNCHANGED <<sockets, asked, tmp, ready, core, controls>>

\* Fault: the semaphore is looked at but not taken.
PeekResponse ==
  /\ pc = "wait"
  /\ ready
  /\ pc' = "reply"
  /\ UNCHANGED <<sockets, asked, tmp, ready, core, controls>>

TakeResponse ==
  /\ pc = "wait"
  /\ ready
  /\ ready' = FALSE
  /\ pc' = "reply"
  /\ UNCHANGED <<sockets, asked, tmp, core, controls>>

\* A second has passed: modbus_raw_set_server_failure().
ResponseTimesOut ==
  /\ pc = "wait"
  /\ ~ ready
  /\ PromptCore => core = Nothing
  /\ tmp' = [tmp EXCEPT !.kind = "failure"]
  /\ pc' = "reply"
  /\ UNCHANGED <<sockets, asked, ready, core, controls>>

\* modbus_reply(): sending may fail on a connection that is gone.
Reply ==
  /\ pc = "reply"
  /\ pc' \in {"poll"} \cup IF gone THEN {"close"} ELSE {}
  /\ UNCHANGED <<sockets, asked, tmp, ready, core, controls>>

\* recv() finds the connection closed before a byte of what it is to read.
ClientGone ==
  /\ pc \in {"poll", "frame"}
  /\ gone
  /\ pc' = "close"
  /\ UNCHANGED <<sockets, asked, tmp, ready, core, controls>>

\* Fault: a silent client is kept for as long as its connection stands.
KeepSilent == ClientGone

\* Silent for CONFIG_APP_MODBUS_CLIENT_IDLE_TIMEOUT_S
DropIdle ==
  /\ pc = "poll"
  /\ inbox = <<>>
  /\ pc' = "close"
  /\ UNCHANGED <<sockets, asked, tmp, ready, core, controls>>

Close ==
  /\ pc = "close"
  /\ conn' = NoClient /\ gone' = FALSE /\ inbox' = <<>>
  /\ pc' = "accept"
  /\ UNCHANGED <<backlog, sent, asked, tmp, ready, core, controls>>

-----------------------------------------------------------------------------
(* The Modbus core, on the system work queue *)

\* The request in hand is run: a write reaches the control points.
Run(op) ==
  IF op.kind = "write"
  THEN WriteControl(op.point, op.value)
  ELSE UNCHANGED controls

\* server_raw_tx()
Answer ==
  /\ core # Nothing
  /\ core.of.op.kind # "another unit"
  /\ Run(core.of.op)
  /\ tmp' = [of |-> core.of, kind |-> "answer"]
  /\ ready' = TRUE
  /\ core' = Nothing
  /\ UNCHANGED <<sockets, pc, asked>>

\* A request for another unit id is dropped without an answer.
Ignore ==
  /\ core # Nothing
  /\ core.of.op.kind = "another unit"
  /\ core' = Nothing
  /\ UNCHANGED <<sockets, pc, asked, tmp, ready, controls>>

-----------------------------------------------------------------------------

Sends == \E op \in Operations : SendRequest(op)

Client == (\E c \in Clients : Connect(c)) \/ Sends \/ HangUp

Listener ==
  \/ \E c \in Clients : Accept(c)
  \/ Receive \/ ReceiveCut \/ \E op \in Requests : ReceiveShort(op)
  \/ Submit \/ SubmitFails \/ TakeResponse \/ ResponseTimesOut \/ Reply
  \/ ClientGone \/ DropIdle \/ Close

Core == Answer \/ Ignore

\* The listener reports progress before each poll and nowhere else: blocked in
\* the middle of a frame it is reset by the liveness watchdog.
WatchdogReset ==
  /\ pc = "frame"
  /\ ControlsReboot
  /\ backlog' = {} /\ conn' = NoClient /\ gone' = FALSE /\ inbox' = <<>>
  /\ pc' = "accept"
  /\ asked' = Nothing /\ tmp' = Nothing /\ core' = Nothing
  /\ ready' = FALSE
  /\ UNCHANGED sent

CloudActs == Cloud /\ UNCHANGED <<sockets, pc, asked, tmp, ready, core>>

Next == Client \/ Listener \/ Core \/ WatchdogReset \/ CloudActs

Spec == Init /\ [][Next]_vars

\* Threads run, timeouts pass and the watchdog bites; what the tedge client
\* starts to apply it applies to the end.  The work queue preempts that client:
\* no run of parameter changes keeps a request from it.
FairSpec ==
  /\ Spec
  /\ WF_vars(Listener)
  /\ SF_vars(Core)
  /\ WF_vars(WatchdogReset)
  /\ WF_vars(CloudActs /\ Apply)

-----------------------------------------------------------------------------
(* Properties *)

(* modbus-tcp-server: the transaction id of a response is its request's, and
   what is sent is an answer or a failure: never an earlier answer, another
   client's, or the request itself. *)
ReplyMatchesRequest ==
  pc = "reply" => tmp.of = asked /\ tmp.kind \in {"answer", "failure"}

(* A client that falls silent, or whose connection is half open, even in the
   middle of a request, does not hold the only seat: the listener keeps coming
   back for the next one. *)
SeatIsFreed == <>[][~ Sends]_vars => []<>(pc = "accept")
=============================================================================
