------------------------------ MODULE SnmpTrap ------------------------------
(***************************************************************************)
(* Traps (snmp_trap.c) about the interfaces of the simulated switch        *)
(* (sim_switch.c): the work queue steps the simulation while the watcher   *)
(* resolves its manager, looks at one interface after the other, and sends *)
(* what has changed since its last look.                                   *)
(*                                                                         *)
(* Counters are left out.  A datagram may be refused by the stack, which   *)
(* has the manager resolved again, or lost on its way.                     *)
(***************************************************************************)
EXTENDS Naturals

CONSTANTS
  Interfaces,    \* if_count
  FlapPeriod     \* steps between two transitions of one link; 0 for never

ASSUME TrapAssumption == Interfaces \in Nat \ {0} /\ FlapPeriod \in Nat

VARIABLES
  oper, stepN,                  \* ifs[].oper, and step_n modulo flap_period
  mgrResolved, coldPending,     \* mgr_resolved, coldstart_pending
  lastOper,                     \* last_oper
  trapPc, row,                  \* where the trap thread is, at which interface
  told,                         \* history: what the manager was told of each
  cold,                         \* history: coldStarts that were sent
  linked,                       \* history: was a link trap sent?
  lost                          \* history: has a trap not arrived?

trapVars == <<oper, stepN, mgrResolved, coldPending, lastOper, trapPc, row,
              told, cold, linked, lost>>

Ports == 1 .. Interfaces
States == {"up", "down"}

PortsTypeOK ==
  /\ oper \in [Ports -> States] /\ lastOper \in [Ports -> States]
  /\ told \in [Ports -> States]

CountersTypeOK ==
  /\ stepN \in 0 .. FlapPeriod
  /\ row \in 1 .. Interfaces + 1 /\ cold \in 0 .. 2

FlagsTypeOK ==
  /\ mgrResolved \in BOOLEAN /\ coldPending \in BOOLEAN
  /\ linked \in BOOLEAN /\ lost \in BOOLEAN
  /\ trapPc \in {"start", "cold", "top", "sleep", "scan", "send"}

TrapTypeOK == PortsTypeOK /\ CountersTypeOK /\ FlagsTypeOK

AllUp == [i \in Ports |-> "up"]

\* data_source_init(), and snmp_trap_start() about to resolve its manager
TrapInit ==
  /\ oper = AllUp /\ stepN = 0
  /\ mgrResolved = FALSE /\ coldPending = FALSE /\ lastOper = AllUp
  /\ trapPc = "start" /\ row = 1
  /\ told = AllUp /\ cold = 0 /\ linked = FALSE /\ lost = FALSE

TrapReset ==
  /\ oper' = AllUp /\ stepN' = 0
  /\ mgrResolved' = FALSE /\ coldPending' = FALSE /\ lastOper' = AllUp
  /\ trapPc' = "start" /\ row' = 1
  /\ told' = AllUp /\ cold' = 0 /\ linked' = FALSE /\ lost' = FALSE

\* flap_idx
Flapping == IF Interfaces > 2 THEN Interfaces - 1 ELSE 1

Other(s) == IF s = "up" THEN "down" ELSE "up"

\* Fault: the count of steps does not start over when the link flaps.
SimStepCountsOn ==
  /\ stepN' = stepN + 1
  /\ oper' = IF Interfaces > 1 /\ stepN' = FlapPeriod
             THEN [oper EXCEPT ![Flapping] = Other(@)] ELSE oper
  /\ UNCHANGED <<mgrResolved, coldPending, lastOper, trapPc, row, told, cold, linked, lost>>

\* sim_step()
SimStep ==
  /\ stepN' = IF FlapPeriod = 0 THEN 0 ELSE (stepN + 1) % FlapPeriod
  /\ oper' = IF FlapPeriod > 0 /\ Interfaces > 1 /\ stepN' = 0
             THEN [oper EXCEPT ![Flapping] = Other(@)] ELSE oper
  /\ UNCHANGED <<mgrResolved, coldPending, lastOper, trapPc, row, told, cold, linked, lost>>

\* snmp_trap_start(): the lookup may take long, and the interfaces are looked
\* at after it.
TrapStart ==
  /\ trapPc = "start"
  /\ mgrResolved' \in BOOLEAN
  /\ lastOper' = oper /\ told' = oper
  /\ coldPending' = ~ mgrResolved'
  /\ trapPc' = IF mgrResolved' THEN "cold" ELSE "top"
  /\ UNCHANGED <<oper, stepN, row, cold, linked, lost>>

\* send_trap(): nothing goes to a manager that is not resolved, and a refusal
\* has it resolved again.
Arrives == mgrResolved /\ UNCHANGED <<mgrResolved, lost>>
GoesAstray ==
  /\ lost' = TRUE
  /\ mgrResolved' \in {FALSE, mgrResolved}

\* Fault: a deferred coldStart stays deferred when it is sent.
SendColdAgain ==
  /\ trapPc = "cold"
  /\ Arrives \/ GoesAstray
  /\ cold' = IF cold < 2 THEN cold + 1 ELSE cold
  /\ trapPc' = IF coldPending THEN "scan" ELSE "top"
  /\ UNCHANGED <<oper, stepN, coldPending, lastOper, row, told, linked>>

\* A coldStart, from snmp_trap_start() or deferred: sent once, arrived or not.
SendCold ==
  /\ trapPc = "cold"
  /\ Arrives \/ GoesAstray
  /\ cold' = IF cold < 2 THEN cold + 1 ELSE cold
  /\ trapPc' = IF coldPending THEN "scan" ELSE "top"
  /\ coldPending' = FALSE
  /\ UNCHANGED <<oper, stepN, lastOper, row, told, linked>>

\* trap_watcher(): the interval, and another try for a manager
SleepOver ==
  /\ trapPc = "sleep"
  /\ IF mgrResolved THEN UNCHANGED mgrResolved ELSE mgrResolved' \in BOOLEAN
  /\ trapPc' = IF mgrResolved' /\ coldPending THEN "cold" ELSE "scan"
  /\ row' = 1
  /\ UNCHANGED <<oper, stepN, coldPending, lastOper, told, cold, linked, lost>>

\* A look at one interface; what is seen is what is reported.
LookAt(i) ==
  /\ trapPc = "scan" /\ row = i
  /\ lastOper' = [lastOper EXCEPT ![i] = oper[i]]
  /\ IF oper[i] = lastOper[i] THEN row' = row + 1 /\ UNCHANGED trapPc
     ELSE trapPc' = "send" /\ UNCHANGED row
  /\ UNCHANGED <<oper, stepN, mgrResolved, coldPending, told, cold, linked, lost>>

\* linkUp or linkDown
SendLink(i) ==
  /\ trapPc = "send" /\ row = i
  /\ \/ Arrives /\ told' = [told EXCEPT ![i] = lastOper[i]] /\ linked' = TRUE
     \/ GoesAstray /\ UNCHANGED <<told, linked>>
  /\ trapPc' = "scan" /\ row' = row + 1
  /\ UNCHANGED <<oper, stepN, coldPending, lastOper, cold>>

ScanOver ==
  /\ trapPc = "scan" /\ row > Interfaces
  /\ trapPc' = "top" /\ row' = 1
  /\ UNCHANGED <<oper, stepN, mgrResolved, coldPending, lastOper, told, cold, linked, lost>>

Watcher ==
  \/ TrapStart \/ SendCold \/ SleepOver \/ ScanOver
  \/ \E i \in Ports : LookAt(i) \/ SendLink(i)

-----------------------------------------------------------------------------
(* Properties *)

(* A manager that gets all traps knows every interface as the watcher saw it
   last, whatever happened while its name was looked up; it is told of the
   start at most once, and before anything else. *)
ManagerFollows ==
  /\ cold <= 1
  /\ linked => cold = 1
  /\ ~ lost /\ trapPc \in {"top", "sleep"} => told = lastOper
=============================================================================
