---------------------------- MODULE Connectivity ----------------------------
(***************************************************************************)
(* An application's Wi-Fi connectivity (lib/common/net.c, apps/*/main.c).  *)
(*                                                                         *)
(* Three threads share `connected': the handlers of network events, the    *)
(* connectivity queue net_wq (the watchdog's tick and the reconnect item)  *)
(* and main, which waits a minute for the network and then serves.  Events *)
(* may be lost or late, so the tick judges by the address and the          *)
(* gateway's echo replies.  It reads them first and acts on them later.    *)
(*                                                                         *)
(* The Wi-Fi driver, the DHCP client and the network are external.  Delays *)
(* are abstract: a scheduled item runs at any later time.  The provisioner     *)
(* (prov_mode) does none of this.                                          *)
(***************************************************************************)
EXTENDS Integers, Sequences

CONSTANTS
  Trigger,     \* WD_TRIGGER_TICKS
  StallMax,    \* WD_PING_STALL_MAX
  ClearAt,     \* the bad tick that clears the association
  RebootAt,    \* bad ticks in APP_NET_REBOOT_TIMEOUT_S
  MaxEvents,   \* bound: events waiting for their handlers
  MaxChanges   \* bound: changes of the network in a behaviour

ASSUME ConnectivityAssumption ==
  /\ {Trigger, StallMax, RebootAt} \subseteq Nat \ {0}
  /\ ClearAt \in Nat
  /\ MaxEvents \in Nat /\ MaxChanges \in Nat

VARIABLES
  ap,         \* is the access point there?
  lan,        \* behind it: open, blocked for the data path, or dead
  changes,    \* changes of the network so far
  assoc,      \* the driver's association
  addr,       \* does the interface have an address?
  events,     \* network events on their way to the handlers
  pinged,     \* is an echo request under way?
  replied,    \* has ping_ok moved since the last tick?
  connected,
  sem,        \* net_connected_sem
  reconnect,  \* is reconnect_work scheduled?
  pc,         \* net_wq's flow of control
  healthy,    \* the tick's verdict
  stall,      \* ping_stall, up to StallMax
  proven,     \* ping_proven
  badTicks,   \* bad_ticks
  main,       \* main's flow of control
  steady      \* history: for how many ticks the network has been (un)usable

network == <<ap, lan, changes>>
driver == <<assoc, addr>>
ping == <<pinged, replied>>
watchdog == <<healthy, stall, proven, badTicks>>
waiter == <<main, sem>>
vars == <<network, driver, events, ping, connected, reconnect, pc, watchdog,
          waiter, steady>>

EventKinds == {"l4_up", "l4_down", "wifi_down", "join_failed"}

FlagsTypeOK ==
  /\ {ap, addr, pinged, replied, connected} \subseteq BOOLEAN
  /\ {sem, reconnect, healthy, proven} \subseteq BOOLEAN
PlacesTypeOK ==
  /\ lan \in {"open", "blocked", "dead"}
  /\ assoc \in {"none", "joining", "stuck", "joined"}
  /\ pc \in {"idle", "act", "connect"}
  /\ main \in {"init", "waiting", "serving", "stopped"}
CountersTypeOK ==
  /\ changes \in 0 .. MaxChanges
  /\ stall \in 0 .. StallMax
  /\ badTicks \in 0 .. RebootAt - 1
EventsTypeOK == events \in Seq(EventKinds) /\ Len(events) <= MaxEvents
HistoryTypeOK == steady \in [usable : BOOLEAN, looks : 0 .. StallMax + 1]

TypeOK ==
  /\ FlagsTypeOK
  /\ PlacesTypeOK
  /\ CountersTypeOK
  /\ EventsTypeOK
  /\ HistoryTypeOK

Init ==
  /\ ap \in BOOLEAN
  /\ lan \in {"open", "blocked", "dead"}
  /\ changes = 0
  /\ assoc = "none" /\ addr = FALSE
  /\ events = <<>>
  /\ pinged = FALSE /\ replied = FALSE
  /\ connected = FALSE /\ sem = FALSE /\ reconnect = FALSE
  /\ pc = "idle"
  /\ healthy = FALSE /\ stall = 0 /\ proven = FALSE /\ badTicks = 0
  /\ main = "init"
  /\ steady = [usable |-> FALSE, looks |-> 0]

\* The network is fine, and the device is on it.
Good == ap /\ lan = "open"
Usable == Good /\ assoc = "joined" /\ addr

-----------------------------------------------------------------------------
(* The network, the driver and the DHCP client.                            *)

NetworkChanges ==
  /\ changes < MaxChanges
  /\ changes' = changes + 1
  /\ ap' \in BOOLEAN
  /\ lan' \in {"open", "blocked", "dead"}
  /\ <<ap, lan>>' # <<ap, lan>>
  /\ UNCHANGED <<driver, events, ping, connected, reconnect, pc, watchdog,
                 waiter>>

\* The queue of network events may overflow.
Raise(e) ==
  \/ events' = events
  \/ Len(events) < MaxEvents /\ events' = Append(events, e)

DriverStep ==
  UNCHANGED <<network, connected, reconnect, pc, watchdog, waiter>>

JoinDone ==
  /\ assoc = "joining" /\ ap
  /\ assoc' = "joined"
  /\ DriverStep /\ UNCHANGED <<addr, events, ping>>

JoinFails ==
  /\ assoc = "joining" /\ ~ap
  /\ assoc' = "none"
  /\ Raise("join_failed")
  /\ DriverStep /\ UNCHANGED <<addr, ping>>

\* The driver stays associating: only a disconnect frees it.
JoinWedges ==
  /\ assoc = "joining" /\ ~ap
  /\ assoc' = "stuck"
  /\ DriverStep /\ UNCHANGED <<addr, events, ping>>

LinkLost ==
  /\ assoc = "joined" /\ ~ap
  /\ assoc' = "none"
  /\ Raise("wifi_down")
  /\ DriverStep /\ UNCHANGED <<addr, ping>>

Bind ==
  /\ assoc = "joined" /\ ap /\ lan # "dead" /\ ~addr
  /\ addr' = TRUE
  /\ Raise("l4_up")
  /\ DriverStep /\ UNCHANGED <<assoc, ping>>

\* A lease runs out, or the address of a lost association goes: later.
AddressLost ==
  /\ addr
  /\ assoc # "joined" \/ lan = "dead"
  /\ addr' = FALSE
  /\ Raise("l4_down")
  /\ DriverStep /\ UNCHANGED <<assoc, ping>>

\* ping_reply().
PingReply ==
  /\ pinged /\ Usable
  /\ pinged' = FALSE
  /\ replied' = TRUE
  /\ DriverStep /\ UNCHANGED <<driver, events>>

PingLost ==
  /\ pinged /\ ~Usable
  /\ pinged' = FALSE
  /\ DriverStep /\ UNCHANGED <<driver, events, replied>>

External ==
  \/ NetworkChanges
  \/ JoinDone \/ JoinFails \/ JoinWedges \/ LinkLost
  \/ Bind \/ AddressLost \/ PingReply \/ PingLost

-----------------------------------------------------------------------------
(* The event handlers.                                                     *)

\* mark_connected()
MarkConnected ==
  /\ connected' = TRUE
  /\ sem' = TRUE
MarkDisconnected ==
  /\ connected' = FALSE
  /\ UNCHANGED sem

Handling(some) ==
  /\ events # <<>> /\ Head(events) \in some
  /\ events' = Tail(events)
  /\ UNCHANGED <<network, driver, ping, pc, watchdog, main>>

L4Connected ==
  /\ Handling({"l4_up"})
  /\ MarkConnected
  /\ UNCHANGED reconnect

\* NET_EVENT_L4_DISCONNECTED and NET_EVENT_WIFI_DISCONNECT_RESULT.
Disconnected ==
  /\ Handling({"l4_down", "wifi_down"})
  /\ MarkDisconnected
  /\ reconnect' = TRUE

AssociationFailed ==
  /\ Handling({"join_failed"})
  /\ reconnect' = TRUE
  /\ UNCHANGED <<connected, sem>>

Handlers == L4Connected \/ Disconnected \/ AssociationFailed

-----------------------------------------------------------------------------
(* The connectivity queue: one item at a time.                             *)

NextStall ==
  IF replied THEN 0 ELSE IF stall < StallMax THEN stall + 1 ELSE stall

\* The reachability gate: silence counts once the gateway has answered.
ReachableLonger(answers, silence) == ~(answers /\ silence > StallMax)
Reachable(answers, silence) == ~(answers /\ silence >= StallMax)

\* connectivity_watchdog() reads the address and the replies.  The first
\* tick comes three seconds after app_net_init(), and a request that can be
\* answered is answered between two ticks.
Look ==
  /\ pc = "idle" /\ main # "init"
  /\ ~(pinged /\ Usable)
  /\ pc' = "act"
  /\ stall' = NextStall
  /\ proven' = (proven \/ replied)
  /\ replied' = FALSE
  /\ healthy' = (addr /\ Reachable(proven', stall'))
  /\ UNCHANGED <<network, driver, events, pinged, connected, reconnect,
                 badTicks, waiter>>

\* ping_gateway_once()
SendPing == pinged' = (pinged \/ addr)

\* The rest of status_work_handler().
TickEnds ==
  /\ pc' = "idle"
  /\ healthy' = FALSE
  /\ SendPing
  /\ UNCHANGED <<network, addr, replied, stall, proven, main>>

\* Fault: only the events tell that the network is back.
ActHealthyByEvents ==
  /\ pc = "act" /\ healthy
  /\ badTicks' = 0
  /\ TickEnds /\ UNCHANGED <<connected, sem, assoc, events, reconnect>>
\* Fault: the outage ends only where the watchdog itself restores it.
ActHealthyRestores ==
  /\ pc = "act" /\ healthy
  /\ connected' = TRUE
  /\ sem' = (sem \/ ~connected)
  /\ badTicks' = IF connected THEN badTicks ELSE 0
  /\ TickEnds /\ UNCHANGED <<assoc, events, reconnect>>
ActHealthy ==
  /\ pc = "act" /\ healthy
  /\ connected' = TRUE
  /\ sem' = (sem \/ ~connected)
  /\ badTicks' = 0
  /\ TickEnds /\ UNCHANGED <<assoc, events, reconnect>>

\* NET_REQUEST_WIFI_DISCONNECT
ClearAssociation ==
  IF assoc = "none" THEN UNCHANGED <<assoc, events>>
                    ELSE assoc' = "none" /\ Raise("wifi_down")

\* Offline: nudge a reconnect, and once clear a stale association.
Escalate ==
  /\ MarkDisconnected
  /\ badTicks' = badTicks + 1
  /\ reconnect' = (reconnect \/ badTicks' % Trigger = 0)
  /\ IF badTicks' = ClearAt /\ badTicks' % Trigger = 0
       THEN ClearAssociation ELSE UNCHANGED <<assoc, events>>
  /\ TickEnds

\* Fault: one tick too many before the last resort.
ActUnhealthyTooLong ==
  pc = "act" /\ ~healthy /\ badTicks + 1 <= RebootAt /\ Escalate
ActUnhealthy ==
  pc = "act" /\ ~healthy /\ badTicks + 1 < RebootAt /\ Escalate

\* APP_NET_RECONNECT_REBOOT: the last resort.
LastResort ==
  /\ pc = "act" /\ ~healthy
  /\ badTicks + 1 >= RebootAt
  /\ assoc' = "none" /\ addr' = FALSE
  /\ events' = <<>>
  /\ pinged' = FALSE /\ replied' = FALSE
  /\ connected' = FALSE /\ sem' = FALSE /\ reconnect' = FALSE
  /\ pc' = "idle"
  /\ healthy' = FALSE /\ stall' = 0 /\ proven' = FALSE /\ badTicks' = 0
  /\ main' = "init"
  /\ UNCHANGED network

\* wifi_connect(): a driver that is not idle refuses (-EALREADY).
WifiConnect(ok) ==
  \/ ok /\ assoc = "none" /\ assoc' = "joining"
  \/ ~ok /\ assoc # "none" /\ UNCHANGED assoc

\* reconnect_handler() looks at `connected' and then connects: gently, for it
\* leaves a driver alone that is busy and tries again later.
ReconnectLook ==
  /\ pc = "idle" /\ reconnect
  /\ reconnect' = FALSE
  /\ pc' = IF connected THEN "idle" ELSE "connect"
  /\ UNCHANGED <<network, driver, events, ping, connected, watchdog, waiter>>

ReconnectAct ==
  /\ pc = "connect"
  /\ pc' = "idle"
  /\ \E ok \in BOOLEAN :
        WifiConnect(ok) /\ reconnect' = (reconnect \/ ~ok)
  /\ UNCHANGED <<network, addr, events, ping, connected, watchdog, waiter>>

Act == ActHealthy \/ ActUnhealthy \/ LastResort
Reconnect == ReconnectLook \/ ReconnectAct

-----------------------------------------------------------------------------
(* main().                                                                 *)

MainStep ==
  UNCHANGED <<network, addr, events, ping, connected, reconnect, pc, watchdog>>

\* app_net_init()
MainInit ==
  /\ main = "init"
  /\ WifiConnect(TRUE)
  /\ main' = "waiting"
  /\ MainStep /\ UNCHANGED sem

\* app_net_wait_connected(): whoever connects gives the semaphore ...
MainServes ==
  /\ main = "waiting" /\ sem
  /\ sem' = FALSE
  /\ main' = "serving"
  /\ MainStep /\ UNCHANGED assoc

\* ... and it waits for a minute.
MainTimeout ==
  /\ main = "waiting" /\ ~sem
  /\ main' = "stopped"
  /\ MainStep /\ UNCHANGED <<assoc, sem>>

Main == MainInit \/ MainServes \/ MainTimeout

-----------------------------------------------------------------------------
Record ==
  steady' =
    [usable |-> Usable',
     looks |-> IF Usable' # steady.usable \/ main' = "init" THEN 0
               ELSE IF pc' = "act" /\ pc = "idle" /\ steady.looks <= StallMax
                 THEN steady.looks + 1 ELSE steady.looks]

Next ==
  /\ External \/ Handlers \/ Look \/ Act \/ Reconnect \/ Main
  /\ Record

Spec == Init /\ [][Next]_vars

(***************************************************************************)
(* Events are handled, and each item of the queue runs: the queue takes    *)
(* them in the order of their times, so a reconnect that keeps             *)
(* rescheduling itself cannot hold back the tick.  A join that the access  *)
(* point would take succeeds, and so does DHCP, unless it is broken off.   *)
(* Nothing else is fair: a driver may stay wedged, an event be lost,       *)
(* main's minute pass.                                                     *)
(***************************************************************************)
Fairness ==
  /\ WF_vars(Handlers /\ Record)
  /\ SF_vars(Look /\ Record)
  /\ WF_vars(Act /\ Record)
  /\ SF_vars(ReconnectLook /\ Record)
  /\ WF_vars(ReconnectAct /\ Record)
  /\ WF_vars((MainInit \/ MainServes) /\ Record)
  /\ WF_vars((JoinDone \/ Bind) /\ Record)
  /\ WF_vars((JoinFails \/ LinkLost \/ AddressLost) /\ Record)
  /\ WF_vars((PingReply \/ PingLost) /\ Record)

FairSpec == Spec /\ Fairness

-----------------------------------------------------------------------------
(***************************************************************************)
(* A data path that went away is noticed in time although the device stays *)
(* associated with an address: once the gateway has answered, the tick     *)
(* that ends WD_PING_STALL_MAX + 1 ticks without a usable network leaves   *)
(* the device offline, whatever reply or event was still on its way when   *)
(* it broke (net.c:633-672).                                               *)
(***************************************************************************)
LossIsSeen ==
  [][Act /\ proven /\ ~Usable /\ steady.looks > StallMax => ~connected']_vars

(***************************************************************************)
(* A network that is usable for two ticks in a row is noticed as well: the *)
(* second tick leaves the device connected with its outage counter at      *)
(* zero, so that neither the clearing of the association nor the last      *)
(* resort ever hits a device that is online, however the outage ended      *)
(* and whether or not its events arrived (net.c:657-701).                  *)
(***************************************************************************)
OnlineIsSeen ==
  [][Act /\ Usable /\ steady.looks >= 2
       => connected' /\ badTicks' = 0 /\ assoc' = "joined"]_vars

\* A tick does not look in the middle of a join or of DHCP that would succeed.
LooksLater ==
  pc = "idle" /\ pc' = "act"
    => ~(Good /\ (assoc = "joining" \/ (assoc = "joined" /\ ~addr)))

(***************************************************************************)
(* "Event-independent recovery" (net.c:617-621): once the network stays    *)
(* good, and lets a device in within the time of a tick, the device ends   *)
(* up connected for good, though any event may be lost or late, the driver *)
(* may have wedged, and the address of a lost association may linger.      *)
(***************************************************************************)
Recovers == <>[]Good /\ <>[][LooksLater]_vars => <>[]connected

(***************************************************************************)
(* What the protocol-frontend specification promises: once the device is   *)
(* connected, the application serves.                                      *)
(***************************************************************************)
FrontendServes == <>[]connected => <>(main = "serving")

=============================================================================
