---------------------------- MODULE PumpControls ----------------------------
(***************************************************************************)
(* The control points of the simulated pump (lib/common/controls.c) and    *)
(* the two who write them: the cloud, through a parameter set that         *)
(* control_apply() (tedge_glue.c) copies one point after another on the    *)
(* tedge client's thread, and a local master, whose writes the cloud may   *)
(* have refused with local_writes.  There is no lock: the local master's   *)
(* callbacks run on the cooperative system work queue, whole between two   *)
(* steps of the tedge client's thread.                                     *)
(***************************************************************************)
EXTENDS Naturals, Sequences

CONSTANTS
  Order,       \* the points as control_apply() writes them: mode, setpoint, running
  Highest,     \* the largest value of a point
  Undisturbed  \* is no master writing while parameters are applied?

ASSUME ControlsAssumption ==
  /\ Order \in Seq(STRING)
  /\ Highest \in Nat
  /\ Undisturbed \in BOOLEAN

VARIABLES
  control,     \* g_running, g_mode and g_setpoint
  local,       \* g_local_writes
  params,      \* the parameter set as the tedge client keeps it
  step         \* how far control_apply() has come; 0 while it is not running

controls == <<control, local, params, step>>

Points == {Order[i] : i \in DOMAIN Order}
Values == 0 .. Highest

\* What a master may ask for goes beyond what a point takes.
Requested == 0 .. Highest + 1

\* The client takes only sets in range.
ParameterSets == [value : [Points -> Values], local : BOOLEAN]

ControlsTypeOK ==
  /\ control \in [Points -> Values]
  /\ local \in BOOLEAN
  /\ params \in ParameterSets
  /\ step \in 0 .. Len(Order) + 1

\* A boot: Kconfig defaults, and tedge_glue_start() applies what is stored.
ControlsInit ==
  /\ control = [p \in Points |-> 0]
  /\ local = TRUE
  /\ params \in ParameterSets
  /\ step = 1

ControlsReboot ==
  /\ control' = [p \in Points |-> 0]
  /\ local' = TRUE
  /\ step' = 1
  /\ UNCHANGED params

\* Fault: a value out of range is kept as it is.
Unclamped(v) == v

\* app_control_set_setpoint(), app_control_set_mode(); a coil is on or off.
Clamped(v) == IF v > Highest THEN Highest ELSE v

\* control_changed(): the client has stored a new set and calls back.
ParametersChange(p) ==
  /\ step = 0
  /\ params' = p
  /\ step' = 1
  /\ UNCHANGED <<control, local>>

ApplyPoint ==
  /\ step \in DOMAIN Order
  /\ control' = [control EXCEPT ![Order[step]] = Clamped(params.value[Order[step]])]
  /\ step' = step + 1
  /\ UNCHANGED <<local, params>>

\* app_control_set_local_writes() comes last.
ApplyLocalWrites ==
  /\ step = Len(Order) + 1
  /\ local' = params.local
  /\ step' = 0
  /\ UNCHANGED <<control, params>>

\* Fault: a write is not checked against local_writes.
WriteAlwaysAllowed == TRUE

\* control_write_allowed()
WriteAllowed == local

\* holding_reg_wr() and coil_wr()
WriteControl(p, v) ==
  /\ Undisturbed => step = 0
  /\ control' = IF WriteAllowed THEN [control EXCEPT ![p] = Clamped(v)] ELSE control
  /\ UNCHANGED <<local, params, step>>

Apply == ApplyPoint \/ ApplyLocalWrites

Cloud == (\E p \in ParameterSets : ParametersChange(p)) \/ Apply

(* tedge_glue.c: with local_writes off, a master's writes are refused and the
   pump does only what the parameters say. *)
OnlyParameters == ~ local /\ step = 0 => control = params.value
=============================================================================
