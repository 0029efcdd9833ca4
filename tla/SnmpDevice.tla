----------------------------- MODULE SnmpDevice -----------------------------
(***************************************************************************)
(* The SNMP firmware at work: the agent's thread, which answers datagrams  *)
(* and reports after each or after five seconds without, the trap thread,  *)
(* which reports before it sleeps, the simulation they read, and the       *)
(* liveness watchdog over both.                                            *)
(***************************************************************************)
EXTENDS SnmpAgent, SnmpTrap, Watchdog

CONSTANTS Proto, Trap    \* APP_CTX_PROTO and APP_CTX_TRAP

ASSUME DeviceAssumption ==
  /\ Proto \in Contexts /\ Trap \in Contexts
  /\ Interfaces = Rows

VARIABLE served    \* history: every answer so far was the one to expect

deviceVars == <<trapVars, watchVars, served>>

Init == TrapInit /\ WatchInit /\ served = TRUE

\* snmp_listener(): one turn.  What it answers is HandleRequest(), which
\* changes nothing but the history.
Listen ==
  /\ Alive(Proto)
  /\ \E verdict \in Verdicts : served' = (served /\ verdict)
  /\ UNCHANGED trapVars

\* The top of the loop of trap_watcher()
TrapAlive ==
  /\ trapPc = "top" /\ trapPc' = "sleep"
  /\ Alive(Trap)
  /\ UNCHANGED <<oper, stepN, mgrResolved, coldPending, lastOper, row, told, cold,
                 linked, lost, served>>

TrapWorks == Trap \notin stalled /\ Watcher /\ UNCHANGED <<watchVars, served>>

Simulate == SimStep /\ UNCHANGED <<watchVars, served>>

\* A thread that blocks: the trap thread has started when it has a context.
Block(c) == Stall(c) /\ UNCHANGED <<trapVars, served>>

TimePasses == WatchTick /\ UNCHANGED <<trapVars, served>>
Expires(c) == Expire(c) /\ UNCHANGED <<trapVars, served>>
Restarts == Reap /\ TrapReset /\ UNCHANGED served

Next ==
  \/ Listen \/ TrapAlive \/ TrapWorks \/ Simulate
  \/ \E c \in Contexts : Block(c) \/ Expires(c)
  \/ TimePasses \/ Restarts

Spec == Init /\ [][Next]_deviceVars

\* Threads that do not block run, time passes, the interrupt comes and the
\* reaper, a cooperative thread, runs.
FairSpec ==
  /\ Spec
  /\ WF_deviceVars(Listen) /\ WF_deviceVars(TrapAlive \/ TrapWorks)
  /\ WF_deviceVars(TimePasses) /\ WF_deviceVars(Restarts)
  /\ \A c \in Contexts : WF_deviceVars(Expires(c))

(* The switch, the trap thread and the watchdog have their types. *)
DeviceTypeOK == TrapTypeOK /\ WatchTypeOK /\ served \in BOOLEAN

(* Every request with the right community and whole names is answered under
   its own id, and none is answered with an error that could be answered: with
   no more names than SNMP_MAX_REQ_VB and room for what they bring.  A GET says
   of every name whether it is an object; a GETNEXT brings the next object in
   the tree; a GETBULK brings what its rounds of GETNEXTs would have brought,
   each asked for by the name of the answer before, except that the end of the
   view is said once for each name and that the list ends at SNMP_MAX_RESP_VB
   answers.  Nothing else is left out, whatever the request's fields and
   wherever its names lie.  (The agent decodes names, looks them up, keeps a
   cursor for each and encodes others.) *)
AnswersConform == served
=============================================================================
