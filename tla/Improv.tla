------------------------------- MODULE Improv -------------------------------
(***************************************************************************)
(* The Improv provisioner (improv.c) between its client and its button.    *)
(*                                                                         *)
(* The Bluetooth thread accepts settings where cur_state allows it, moves  *)
(* cur_state on and queues them; sw0 queues presses; the main thread takes *)
(* both, tests and stores, grants and revokes authorisation, and ends the  *)
(* window.  Both threads write cur_state without a lock, and the Bluetooth *)
(* thread preempts the main thread anywhere: where main looks at it and    *)
(* then writes it, that is two steps.                                      *)
(*                                                                         *)
(* A frame is the network it carries; corrupt frames and identify change   *)
(* nothing here.  The test of credentials is CredentialTest's: it passes   *)
(* only for a network that lets the device in.                             *)
(***************************************************************************)
EXTENDS Provisioner, Advertising, Sequences, Naturals

CONSTANT Press     \* a press of sw0, in the queue

ASSUME PressAssumption == Press \notin Networks

VARIABLES
  curState,    \* cur_state
  provQueue,   \* prov_q
  improvPc,    \* where the main thread is
  candidate,   \* the settings it works on
  auth,        \* auth_until: none, ahead or over
  improvIdle,  \* idle
  improvExpired,  \* has the deadline passed?
  late,        \* history: settings that came as the window ended were dropped
  needsAuth,   \* CONFIG_APP_WIFI_PROV_REQUIRE_AUTH
  operator     \* return_on_expiry, or compile-time credentials

build == <<needsAuth, operator>>
work == <<provQueue, improvPc, candidate>>
clock == <<auth, improvIdle, improvExpired>>
improvVars == <<curState, work, clock, late, build, advVars>>

ProvQueueSize == 2

ImprovTypeOK ==
  /\ AdvTypeOK
  /\ curState \in {"AUTH_REQUIRED", "AUTHORIZED", "PROVISIONING", "PROVISIONED"}
  /\ provQueue \in Seq(Networks \cup {Press}) /\ Len(provQueue) <= ProvQueueSize
  /\ improvPc \in {"loop", "grant", "test", "store", "announce", "grace",
                   "revoke", "deadline", "close", "exit"}
  /\ candidate \in Networks \cup {NoNetwork}
  /\ auth \in {"none", "ahead", "over"}
  /\ improvIdle \in BOOLEAN /\ improvExpired \in BOOLEAN /\ late \in BOOLEAN
  /\ needsAuth \in BOOLEAN /\ operator \in BOOLEAN

\* idle_state()
IdleState == IF needsAuth THEN "AUTH_REQUIRED" ELSE "AUTHORIZED"

\* improv_run() up to its loop, and adv_start() not yet answered
ImprovInit ==
  /\ needsAuth \in BOOLEAN /\ operator \in BOOLEAN
  /\ curState = IdleState
  /\ provQueue = <<>> /\ improvPc = "loop" /\ candidate = NoNetwork
  /\ auth = "none" /\ improvIdle = FALSE /\ improvExpired = FALSE /\ late = FALSE
  /\ advWanted = TRUE /\ advRunning = FALSE /\ radio = FALSE
  /\ link = "free" /\ restart = FALSE
  /\ starting = [t \in Starters |-> IF t = "main" THEN "asked" ELSE "no"]

-----------------------------------------------------------------------------
(* The Bluetooth thread and the button *)

\* Fault: the queue is taken to have one more place.
HasRoomForOneMore == Len(provQueue) <= ProvQueueSize

HasRoom == Len(provQueue) < ProvQueueSize

\* Fault: settings that find the queue full leave "provisioning" behind.
ReceiveSettingsFull(n) ==
  /\ HasClient
  /\ curState = "AUTHORIZED"
  /\ curState' = "PROVISIONING"
  /\ provQueue' = IF HasRoom THEN Append(provQueue, n) ELSE provQueue
  /\ UNCHANGED <<stored, improvPc, candidate, clock, late, build, advVars>>

\* handle_frame(): a queue that is full has it take "provisioning" back.
ReceiveSettings(n) ==
  /\ HasClient
  /\ curState = "AUTHORIZED" /\ HasRoom
  /\ curState' = "PROVISIONING"
  /\ provQueue' = Append(provQueue, n)
  /\ UNCHANGED <<stored, improvPc, candidate, clock, late, build, advVars>>

\* btn_work_fn(): the result of k_msgq_put() is ignored.
ImprovPress ==
  /\ HasRoom
  /\ provQueue' = Append(provQueue, Press)
  /\ UNCHANGED <<stored, curState, improvPc, candidate, clock, late, build, advVars>>

-----------------------------------------------------------------------------
(* The main thread *)

AtMain(pc) == improvPc = pc /\ MainRuns

Gets(m) ==
  /\ AtMain("loop")
  /\ provQueue # <<>> /\ Head(provQueue) = m
  /\ provQueue' = Tail(provQueue)

TakeSettings(n) ==
  /\ Gets(n)
  /\ IF improvIdle THEN late' = TRUE /\ UNCHANGED <<improvPc, candidate>>
     ELSE improvPc' = "test" /\ candidate' = n /\ UNCHANGED late
  /\ UNCHANGED <<stored, curState, clock, build, advVars>>

\* A press in an idle provisioner opens a new window ...
PressReopens ==
  /\ Gets(Press) /\ improvIdle
  /\ improvIdle' = FALSE /\ improvExpired' = FALSE
  /\ advWanted' = TRUE /\ Ask("main")
  /\ UNCHANGED <<stored, curState, improvPc, candidate, auth, late, build,
                 advRunning, radio, link, restart>>

\* ... and otherwise authorises, where a look at cur_state allows it.
PressAuthorises ==
  /\ Gets(Press) /\ ~ improvIdle
  /\ improvPc' = IF \/ curState = "AUTH_REQUIRED"
                    \/ curState = "AUTHORIZED" /\ needsAuth
                 THEN "grant" ELSE "loop"
  /\ UNCHANGED <<stored, curState, candidate, clock, late, build, advVars>>

Grant ==
  /\ AtMain("grant")
  /\ auth' = "ahead" /\ curState' = "AUTHORIZED" /\ improvPc' = "loop"
  /\ UNCHANGED <<stored, provQueue, candidate, improvIdle, improvExpired, late,
                 build, advVars>>

\* app_net_try_credentials() returns 0.
SettingsPass ==
  /\ AtMain("test") /\ candidate \in Good
  /\ improvPc' = "store"
  /\ UNCHANGED <<stored, curState, provQueue, candidate, clock, late, build, advVars>>

\* Fault: a failed test leaves the client authorised.
SettingsFailOpen ==
  /\ AtMain("test")
  /\ curState' = "AUTHORIZED"
  /\ improvPc' = "loop" /\ candidate' = NoNetwork
  /\ UNCHANGED <<stored, provQueue, clock, late, build, advVars>>

SettingsFail ==
  /\ AtMain("test")
  /\ curState' = IF auth = "ahead" \/ ~ needsAuth THEN "AUTHORIZED" ELSE "AUTH_REQUIRED"
  /\ improvPc' = "loop" /\ candidate' = NoNetwork
  /\ UNCHANGED <<stored, provQueue, clock, late, build, advVars>>

StoreSettings ==
  /\ AtMain("store")
  /\ candidate' = NoNetwork
  /\ \/ Stores(candidate) /\ improvPc' = "announce" /\ UNCHANGED curState
     \/ StoreFails /\ improvPc' = "loop" /\ curState' = IdleState
  /\ UNCHANGED <<provQueue, clock, late, build, advVars>>

\* adv_stop(), "provisioned" and the result
Announce ==
  /\ AtMain("announce")
  /\ Stop
  /\ curState' = "PROVISIONED" /\ improvPc' = "grace"
  /\ UNCHANGED <<stored, provQueue, candidate, clock, late, build>>

\* disconnected_sem, or RESULT_GRACE_MS
ResultRead ==
  /\ AtMain("grace")
  /\ improvPc' = "exit"
  /\ UNCHANGED <<stored, curState, provQueue, candidate, clock, late, build, advVars>>

\* k_msgq_get() times out: only with nothing queued.  First the authorisation,
\* which ends where a look at cur_state says "authorized" ...
TimesOut ==
  /\ AtMain("loop") /\ provQueue = <<>>
  /\ auth = "over" \/ (~ improvIdle /\ improvExpired)
  /\ auth' = IF auth = "over" THEN "none" ELSE auth
  /\ improvPc' = IF auth = "over" /\ curState = "AUTHORIZED" THEN "revoke" ELSE "deadline"
  /\ UNCHANGED <<stored, curState, provQueue, candidate, improvIdle, improvExpired,
                 late, build, advVars>>

Revoke ==
  /\ AtMain("revoke")
  /\ curState' = "AUTH_REQUIRED" /\ improvPc' = "deadline"
  /\ UNCHANGED <<stored, provQueue, candidate, clock, late, build, advVars>>

\* ... then the deadline: into the application, if that has a network.
Resolves == operator \/ stored # NoNetwork

WindowGoesOn ==
  /\ AtMain("deadline") /\ (improvIdle \/ ~ improvExpired)
  /\ improvPc' = "loop"
  /\ UNCHANGED <<stored, curState, provQueue, candidate, clock, late, build, advVars>>

ImprovReturns ==
  /\ AtMain("deadline") /\ ~ improvIdle /\ improvExpired /\ Resolves
  /\ improvPc' = "exit"
  /\ UNCHANGED <<stored, curState, provQueue, candidate, clock, late, build, advVars>>

CloseWindow ==
  /\ AtMain("deadline") /\ ~ improvIdle /\ improvExpired /\ ~ Resolves
  /\ Stop
  /\ improvPc' = "close"
  /\ UNCHANGED <<stored, curState, provQueue, candidate, clock, late, build>>

ImprovIdles ==
  /\ AtMain("close")
  /\ EndClient
  /\ improvIdle' = TRUE /\ improvPc' = "loop"
  /\ UNCHANGED <<stored, curState, provQueue, candidate, auth, improvExpired, late, build,
                 advWanted, advRunning, radio, starting, restart>>

\* reboot_now(), and the next time this image runs.
ImprovLeaves ==
  /\ AtMain("exit")
  /\ curState' = IdleState
  /\ provQueue' = <<>> /\ improvPc' = "loop" /\ candidate' = NoNetwork
  /\ auth' = "none" /\ improvIdle' = FALSE /\ improvExpired' = FALSE /\ late' = FALSE
  /\ advWanted' = TRUE /\ advRunning' = FALSE /\ radio' = FALSE
  /\ link' = "free" /\ restart' = FALSE
  /\ starting' = [t \in Starters |-> IF t = "main" THEN "asked" ELSE "no"]
  /\ UNCHANGED <<stored, build>>

-----------------------------------------------------------------------------

AuthorisationEnds ==
  /\ auth = "ahead"
  /\ auth' = "over"
  /\ UNCHANGED <<stored, curState, work, improvIdle, improvExpired, late, build, advVars>>

ImprovDeadline ==
  /\ ~ improvIdle /\ ~ improvExpired /\ AdvSettled
  /\ improvExpired' = TRUE
  /\ UNCHANGED <<stored, curState, work, auth, improvIdle, late, build, advVars>>

ImprovMain ==
  \/ \E n \in Networks : TakeSettings(n)
  \/ PressReopens \/ PressAuthorises \/ Grant
  \/ SettingsPass \/ SettingsFail \/ StoreSettings \/ Announce \/ ResultRead
  \/ TimesOut \/ Revoke \/ WindowGoesOn \/ ImprovReturns
  \/ CloseWindow \/ ImprovIdles \/ ImprovLeaves

Background == AdvMoves /\ UNCHANGED <<stored, curState, work, clock, late, build>>

ImprovNext ==
  \/ \E n \in Networks : ReceiveSettings(n)
  \/ ImprovPress \/ ImprovMain \/ AuthorisationEnds \/ ImprovDeadline
  \/ Background
  \/ (Connects \/ Disconnects) /\ UNCHANGED <<stored, curState, work, clock, late, build>>

\* The provisioner on its own; ProvisionerImage adds what keeps its threads going.
ImprovSpec ==
  ImprovInit /\ StoreOK /\ [][ImprovNext]_<<stored, improvVars>>

-----------------------------------------------------------------------------
(* Properties *)

SettingsWaiting == {i \in 1 .. Len(provQueue) : provQueue[i] \in Networks}

(* Where authorisation is required, a client is authorised only by a press and
   for its period: neither a failed test, nor a failed write, nor a full queue
   leaves the door open. *)
AuthorisedByPress ==
  needsAuth /\ curState = "AUTHORIZED" => auth # "none" \/ improvPc = "revoke"

(* Settings are what "provisioning" waits for: it refuses all others, so
   without them nobody can provision the device until it restarts.  The only
   way to lose them is to be late: accepted as the window ends. *)
AcceptedIsWorkedOn ==
  curState = "PROVISIONING" /\ ~ late =>
    SettingsWaiting # {} \/ improvPc \in {"test", "store", "announce"}

Opened ==
  \/ advWanted /\ ~ improvExpired
  \/ improvIdle /\ \E i \in 1 .. Len(provQueue) : provQueue[i] = Press

(* A window is advertised unless it has a client: after its start, after each
   client, and after a press in an idle provisioner, even if the last client has not
   left yet or a restart was under way when the window ended. *)
WindowAdvertises ==
  Opened ~> radio \/ link = "client"
=============================================================================
