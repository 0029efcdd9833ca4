----------------------------- MODULE ZtpSession -----------------------------
(***************************************************************************)
(* The ZTP provisioner between its relay and its worker (ztp.c).           *)
(*                                                                         *)
(* The Bluetooth thread reassembles what the relay writes in one buffer    *)
(* and hands a complete message to the main thread through rx_busy and a   *)
(* queue of four events, which it shares with sw0.  The main thread builds *)
(* an envelope for a kick, applies a response, and ends the window.        *)
(*                                                                         *)
(* Payloads are abstracted to the connections their fragments came from    *)
(* and to whether they outgrew the buffer; a relay that reconnects is      *)
(* another connection.  Advertising is left out: a connection may come at  *)
(* any time at which there is none.                                        *)
(***************************************************************************)
EXTENDS Sequences, Naturals

CONSTANTS
  Relays,      \* connections
  NoRelay,     \* no connection
  QueueSize,   \* capacity of ztp_q
  Buttons      \* whether boards have an sw0: a set of Booleans

ASSUME QueueAssumption == QueueSize \in Nat \ {0}
ASSUME RelaysAssumption == NoRelay \notin Relays
ASSUME ButtonAssumption == Buttons \subseteq BOOLEAN

VARIABLES
  (* the Bluetooth thread *)
  conn,        \* cur_conn
  rx,          \* rx_buf, rx_len and rx_overflow
  rxBusy,      \* rx_busy: the buffer is the main thread's
  (* shared *)
  queue,       \* ztp_q
  (* the main thread *)
  pc,          \* where its flow of control is
  task,        \* the message it works on, or what came of it
  idle,        \* the window has ended without anywhere to go
  expired,     \* the window's deadline has passed
  session,     \* does a session key exist?
  status,      \* cur_status
  (* the board *)
  button       \* does it have an sw0?  This never changes

bluetooth == <<conn, rx, rxBusy>>
window == <<idle, expired>>
vars == <<bluetooth, queue, pc, task, window, session, status, button>>

Empty == [from |-> {}, overflow |-> FALSE]

FromRelay == {"KICK", "RESPONSE", "OVERFLOW"}
Messages == FromRelay \cup {"BUTTON"}
Results == {"APPLIED", "REFUSED"}

TypeOK ==
  /\ conn \in Relays \cup {NoRelay}
  /\ rx \in [from : SUBSET Relays, overflow : BOOLEAN]
  /\ rxBusy \in BOOLEAN
  /\ queue \in Seq(Messages) /\ Len(queue) <= QueueSize
  /\ pc \in {"loop", "build", "send", "apply", "release", "clear", "confirm",
             "grace", "exit"}
  /\ task \in FromRelay \cup Results \cup {"none"}
  /\ idle \in BOOLEAN
  /\ expired \in BOOLEAN
  /\ session \in BOOLEAN
  /\ status \in {"IDLE", "RELAYING", "DONE", "ERROR"}
  /\ button \in Buttons

\* ztp_run up to its loop; a window whose radio does not start is a reboot.
Init ==
  /\ conn = NoRelay
  /\ rx = Empty
  /\ rxBusy = FALSE
  /\ queue = <<>>
  /\ pc = "loop"
  /\ task = "none"
  /\ idle = FALSE
  /\ expired = FALSE
  /\ session = FALSE
  /\ status = "IDLE"
  /\ button \in Buttons

\* What a reset leaves of all this.
Restarted ==
  /\ conn' = NoRelay
  /\ rx' = Empty
  /\ rxBusy' = FALSE
  /\ queue' = <<>>
  /\ pc' = "loop"
  /\ task' = "none"
  /\ idle' = FALSE
  /\ expired' = FALSE
  /\ session' = FALSE
  /\ status' = "IDLE"

\* Fault: the queue is taken to have no end.
PostUnbounded(m) == queue' = Append(queue, m)

\* post(): K_NO_WAIT, and the result is ignored.
Post(m) == queue' = IF Len(queue) < QueueSize THEN Append(queue, m) ELSE queue

-----------------------------------------------------------------------------
(* The Bluetooth thread *)

Connected(r) ==
  /\ conn = NoRelay
  /\ conn' = r
  /\ UNCHANGED <<rx, rxBusy, queue, pc, task, window, session, status>>

\* Fault: the end of a connection also releases the buffer.
DisconnectReleases ==
  /\ conn # NoRelay
  /\ conn' = NoRelay
  /\ rx' = Empty /\ rxBusy' = FALSE
  /\ UNCHANGED <<queue, pc, task, window, session, status>>

\* Fault: the end of a connection leaves its half-received message behind.
DisconnectKeepsHalf ==
  /\ conn # NoRelay
  /\ conn' = NoRelay
  /\ UNCHANGED <<rx, rxBusy, queue, pc, task, window, session, status>>

\* on_disconnected: a half-received message goes, a complete one stays.
Disconnected ==
  /\ conn # NoRelay
  /\ conn' = NoRelay
  /\ rx' = IF rxBusy THEN rx ELSE Empty
  /\ UNCHANGED <<rxBusy, queue, pc, task, window, session, status>>

\* Fault: data is taken while the main thread works on the last message.
WriteWhileBusy ==
  /\ conn # NoRelay
  /\ rx' = [rx EXCEPT !.from = @ \cup {conn}]
  /\ UNCHANGED <<conn, rxBusy, queue, pc, task, window, session, status>>

\* A fragment with data.  While rx_busy is set, write_request() swallows it.
WriteData ==
  /\ conn # NoRelay
  /\ ~ rxBusy
  /\ \/ rx' = [rx EXCEPT !.from = @ \cup {conn}]
     \/ rx.from # {} /\ rx' = [rx EXCEPT !.overflow = TRUE]
  /\ UNCHANGED <<conn, rxBusy, queue, pc, task, window, session, status>>

\* A fragment of length zero ends the message; with no data it is the kick.
WriteEnd ==
  /\ conn # NoRelay
  /\ ~ rxBusy
  /\ rxBusy' = TRUE
  /\ Post(CASE rx.from = {} -> "KICK"
            [] rx.from # {} /\ rx.overflow -> "OVERFLOW"
            [] OTHER -> "RESPONSE")
  /\ UNCHANGED <<conn, rx, pc, task, window, session, status>>

\* sw0, debounced on the network work queue.
PressButton ==
  /\ button
  /\ Post("BUTTON")
  /\ UNCHANGED <<bluetooth, pc, task, window, session, status>>

-----------------------------------------------------------------------------
(* The main thread *)

\* k_msgq_get() returns m: the switch of ztp_run.  A kick is answered only in
\* a window, and needs the buffer no longer; a response is applied from it.
Take(m) ==
  /\ pc = "loop"
  /\ queue # <<>> /\ Head(queue) = m
  /\ queue' = Tail(queue)

TakeKick ==
  /\ Take("KICK")
  /\ pc' = "release" /\ task' = "KICK"
  /\ UNCHANGED <<bluetooth, window, session, status>>

\* Fault: an oversized message is reported but keeps the buffer.
TakeOverflowKeeps ==
  /\ Take("OVERFLOW")
  /\ status' = "ERROR"
  /\ UNCHANGED <<bluetooth, pc, task, window, session>>

TakeOverflow ==
  /\ Take("OVERFLOW")
  /\ pc' = "release" /\ task' = "OVERFLOW"
  /\ UNCHANGED <<bluetooth, window, session, status>>

TakeResponse ==
  /\ Take("RESPONSE")
  /\ pc' = "apply" /\ task' = "RESPONSE"
  /\ status' = "RELAYING"
  /\ UNCHANGED <<bluetooth, window, session>>

\* A press opens a new window when the last one has ended, and else is spent.
TakeButton ==
  /\ Take("BUTTON")
  /\ idle' = FALSE
  /\ expired' = (expired /\ ~ idle)
  /\ UNCHANGED <<bluetooth, pc, task, session, status>>

\* handle_response on the worker: 0 only when the bundle was applied.
Apply ==
  /\ pc = "apply"
  /\ task' \in Results
  /\ pc' = "release"
  /\ UNCHANGED <<bluetooth, queue, window, session, status>>

\* release_rx, first half: rx_reset()
ResetBuffer ==
  /\ pc = "release"
  /\ rx' = Empty
  /\ pc' = "clear"
  /\ UNCHANGED <<conn, rxBusy, queue, task, window, session, status>>

\* Fault: a kick is answered after the window has ended too.
AnsweredAlways == task = "KICK"

\* A kick is answered only in a window.
Answered == task = "KICK" /\ ~ idle

\* release_rx, second half, and what follows it for this message
ReleaseBuffer ==
  /\ pc = "clear"
  /\ rxBusy' = FALSE
  /\ task' = "none"
  /\ \/ /\ Answered
        /\ pc' = "build" /\ status' = "RELAYING"
        /\ UNCHANGED session
     \/ /\ task = "KICK" /\ ~ Answered
        /\ pc' = "loop"
        /\ UNCHANGED <<session, status>>
     \/ /\ task = "OVERFLOW"
        /\ pc' = "loop" /\ status' = "ERROR"
        /\ UNCHANGED session
     \/ /\ task = "REFUSED"
        /\ pc' = "loop" /\ status' = "ERROR" /\ session' = FALSE
     \/ /\ task = "APPLIED"
        /\ pc' = "confirm" /\ session' = FALSE
        /\ UNCHANGED status
  /\ UNCHANGED <<conn, rx, queue, window>>

\* handle_kick on the worker: ztp_envelope_build() makes a new session key.
BuildEnvelope ==
  /\ pc = "build"
  /\ pc' = "send"
  /\ session' = TRUE
  /\ UNCHANGED <<bluetooth, queue, task, window, status>>

\* Fault: a failed build is not reported to the relay.
BuildFailsSilently ==
  /\ pc = "build"
  /\ pc' = "loop"
  /\ session' \in BOOLEAN
  /\ UNCHANGED <<bluetooth, queue, task, window, status>>

BuildFails ==
  /\ pc = "build"
  /\ pc' = "loop"
  /\ session' \in BOOLEAN     \* it may fail before or after the key is made
  /\ status' = "ERROR"
  /\ UNCHANGED <<bluetooth, queue, task, window>>

\* send_message: gives up when the relay is gone or its buffers stay full.
SendEnvelope ==
  /\ pc = "send"
  /\ pc' = "loop"
  /\ status' \in {"ERROR"} \cup IF conn # NoRelay THEN {"DONE"} ELSE {}
  /\ UNCHANGED <<bluetooth, queue, task, window, session>>

\* Provisioned: an empty message, "done", and time for the relay to see it.
Confirm ==
  /\ pc = "confirm"
  /\ pc' = "grace"
  /\ status' = "DONE"
  /\ UNCHANGED <<bluetooth, queue, task, window, session>>

\* Fault: the wait for the relay to leave has no timeout.
GraceWithoutTimeout ==
  /\ pc = "grace"
  /\ conn = NoRelay
  /\ pc' = "exit"
  /\ UNCHANGED <<bluetooth, queue, task, window, session, status>>

\* disconnected_sem is given, or RESULT_GRACE_MS have passed.
GraceOver ==
  /\ pc = "grace"
  /\ pc' = "exit"
  /\ UNCHANGED <<bluetooth, queue, task, window, session, status>>

DeadlinePasses ==
  /\ ~ idle /\ ~ expired
  /\ expired' = TRUE
  /\ UNCHANGED <<bluetooth, queue, pc, task, idle, session, status>>

\* k_msgq_get() times out: only with nothing queued.  BootHandoff says when
\* there is an application to return to.
ReturnToApplication ==
  /\ pc = "loop" /\ queue = <<>>
  /\ ~ idle /\ expired
  /\ pc' = "exit"
  /\ UNCHANGED <<bluetooth, queue, task, window, session, status>>

GoIdle ==
  /\ pc = "loop" /\ queue = <<>>
  /\ ~ idle /\ expired
  /\ idle' = TRUE
  /\ session' = FALSE
  /\ UNCHANGED <<bluetooth, queue, pc, task, expired, status>>

\* reboot_now, and whatever runs in the provisioner next starts afresh.
RebootNow ==
  /\ pc = "exit"
  /\ Restarted

-----------------------------------------------------------------------------

Bluetooth == (\E r \in Relays : Connected(r)) \/ Disconnected \/ WriteData \/ WriteEnd

Main ==
  \/ TakeKick \/ TakeOverflow \/ TakeResponse \/ TakeButton
  \/ Apply \/ ResetBuffer \/ ReleaseBuffer
  \/ BuildEnvelope \/ BuildFails \/ SendEnvelope
  \/ Confirm \/ GraceOver \/ ReturnToApplication \/ GoIdle \/ RebootNow

Next ==
  /\ Bluetooth \/ PressButton \/ Main \/ DeadlinePasses
  /\ UNCHANGED button

Spec == Init /\ [][Next]_vars

\* The main thread is never starved, jobs and sends are bounded, time passes.
\* Nothing is assumed of relays and buttons.
FairSpec ==
  /\ Spec
  /\ WF_vars(Main /\ UNCHANGED button)
  /\ WF_vars(DeadlinePasses /\ UNCHANGED button)

-----------------------------------------------------------------------------
(* Properties *)

\* Where a complete message is: waiting in the queue, or with the main thread.
Waiting == {i \in 1 .. Len(queue) : queue[i] \in FromRelay}
InHand == pc \in {"apply", "release", "clear"}

(* A complete message keeps the buffer to itself until the main thread is done
   with it, and there is never a second one: rx_busy guards a buffer, not a
   queue, so two messages of which one reads the other's bytes would both look
   well-formed. *)
OneMessageInFlight ==
  /\ Waiting # {} \/ InHand => rxBusy
  /\ \A i, j \in Waiting : i = j
  /\ ~ (InHand /\ Waiting # {})

(* What is applied is one relay's message and fits the buffer: fragments of two
   connections are never joined, and an oversized message is never applied
   truncated. *)
OneSendersMessage ==
  pc = "apply" => ~ rx.overflow /\ \E r \in Relays : rx.from = {r}

(* An idle provisioner keeps no session key, so a bundle sealed for the window
   that has ended no longer opens, even if a relay that was still connected
   kicks or answers after the end. *)
IdleHasNoSession == idle => ~ session

(* The relay is not told "relaying" by a device that no longer works for it,
   on any of the ways out of a kick or a response. *)
NeverLeftRelaying ==
  status = "RELAYING" => pc \in {"build", "send", "apply", "release", "clear", "confirm"}

(* ztp.c: once a message is complete rx_busy hands it to the main thread, which
   clears rx_busy when done.  So somebody has the message whenever it is set. *)
BusyIsHandedOver == rxBusy => Waiting # {} \/ InHand

(* Without a button the service takes a new message again after each one. *)
ServiceReturns == ~ button /\ rxBusy ~> ~ rxBusy

(* The window of a device nobody writes to or presses ends, at its deadline or
   in an application: what relays and presses left behind cannot keep it open. *)
WindowEnds ==
  <>[][~ Bluetooth /\ ~ PressButton]_vars => []<>(idle \/ pc = "exit")

Buffer == INSTANCE OneBuffer WITH
  Senders <- Relays,
  owner <- IF rxBusy THEN "consumer" ELSE "producer",
  content <- rx.from

(* The buffer has one owner at a time, and changes hands only empty or
   complete: see OneBuffer. *)
BufferIsOwned == Buffer!Spec
=============================================================================
