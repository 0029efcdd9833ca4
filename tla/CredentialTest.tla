--------------------------- MODULE CredentialTest ---------------------------
(***************************************************************************)
(* app_net_try_credentials() of net.c: the test a network passes before a  *)
(* provisioner stores it.                                                  *)
(*                                                                         *)
(* The thread that tests asks the driver to join, and then looks at the    *)
(* address of the interface, woken by the event handlers or by half a      *)
(* second.  The handlers tell it of a failure through try_active,          *)
(* try_result and try_sem.  An event carries nothing that says which test, *)
(* or which attempt, it belongs to.                                        *)
(*                                                                         *)
(* Driver, DHCP client and event queue are external: modelled by what      *)
(* net.c says and uses of them.                                            *)
(***************************************************************************)
EXTENDS Provisioner, Naturals, Sequences, FiniteSets

CONSTANTS
  MaxEvents,   \* events that wait for the handlers; further ones are lost
  PromptDhcp   \* is the address of a network gone before the next is tested?

ASSUME TestAssumption == MaxEvents \in Nat \ {0} /\ PromptDhcp \in BOOLEAN

VARIABLES
  assoc,     \* the driver: what it does, with which network
  addr,      \* the network the interface's address is from
  events,    \* what the event handlers have not seen yet
  test,      \* the thread in app_net_try_credentials(), and what it shares
  failures   \* history: failures this test may have been told of

net == <<assoc, addr, events>>
testVars == <<net, test, failures>>

Attempts == 3

Off == [pc |-> "off", creds |-> NoNetwork, active |-> FALSE, sem |-> FALSE,
        result |-> "ok", attempts |-> 0]

TestTypeOK ==
  /\ assoc \in [state : {"idle", "joining", "up", "leaving"},
                net : Networks \cup {NoNetwork}]
  /\ addr \in Networks \cup {NoNetwork}
  /\ events \in Seq({"up", "refused", "gone"}) /\ Len(events) <= MaxEvents
  /\ test \in [pc : {"off", "top", "wait", "look", "pause", "passed", "failed"},
               creds : Networks \cup {NoNetwork}, active : BOOLEAN, sem : BOOLEAN,
               result : {"ok", "refused"}, attempts : 0 .. Attempts]
  /\ failures \in 0 .. MaxEvents + Attempts

Idle == [state |-> "idle", net |-> NoNetwork]

\* After a reset.
TestInit ==
  /\ assoc = Idle
  /\ addr = NoNetwork
  /\ events = <<>>
  /\ test = Off
  /\ failures = 0

TestReset ==
  /\ assoc' = Idle
  /\ addr' = NoNetwork
  /\ events' = <<>>
  /\ test' = Off
  /\ failures' = 0

-----------------------------------------------------------------------------
(* The driver and the DHCP client *)

Raise(e) == events' = IF Len(events) < MaxEvents THEN Append(events, e) ELSE events

\* A failure of the network under test.
Refusal ==
  failures' = IF test.pc # "off" /\ assoc.net = test.creds THEN failures + 1 ELSE failures

\* wifi_connect(): a driver that is not idle refuses (-EALREADY).
Accepts == assoc.state = "idle"
Connect(n) == assoc' = IF Accepts THEN [state |-> "joining", net |-> n] ELSE assoc

\* net_mgmt(NET_REQUEST_WIFI_DISCONNECT)
Disconnect ==
  assoc' = IF assoc.state \in {"joining", "up"}
           THEN [assoc EXCEPT !.state = "leaving"] ELSE assoc

Associates ==
  /\ assoc.state = "joining" /\ assoc.net \in Good
  /\ assoc' = [assoc EXCEPT !.state = "up"]
  /\ UNCHANGED <<addr, events, test, failures>>

\* A wrong password, or the spurious failure of a first association.
Refuses ==
  /\ assoc.state = "joining"
  /\ assoc' = Idle
  /\ Raise("refused")
  /\ Refusal
  /\ UNCHANGED <<addr, test>>

Drops ==
  /\ assoc.state = "up"
  /\ assoc' = Idle
  /\ Raise("gone")
  /\ Refusal
  /\ UNCHANGED <<addr, test>>

Leaves ==
  /\ assoc.state = "leaving"
  /\ assoc' = Idle
  /\ Raise("gone")
  /\ UNCHANGED <<addr, test, failures>>

GetsAddress ==
  /\ assoc.state = "up" /\ addr # assoc.net
  /\ addr' = assoc.net
  /\ Raise("up")
  /\ UNCHANGED <<assoc, test, failures>>

\* The address of a network the device is no longer in goes, some time later.
Stale == addr # NoNetwork /\ (assoc.net # addr \/ assoc.state # "up")

LosesAddress ==
  /\ Stale
  /\ addr' = NoNetwork
  /\ UNCHANGED <<assoc, events, test, failures>>

-----------------------------------------------------------------------------
(* The event handlers *)

\* try_done()
Done(result) ==
  test' = IF test.active
          THEN [test EXCEPT !.active = FALSE, !.result = result, !.sem = TRUE]
          ELSE test

\* l4_event_handler and wifi_event_handler in the provisioner
Handle ==
  /\ events # <<>>
  /\ events' = Tail(events)
  /\ Done(IF Head(events) = "up" THEN "ok" ELSE "refused")
  /\ UNCHANGED <<assoc, addr, failures>>

-----------------------------------------------------------------------------
(* The thread that tests *)

\* The failures in the event queue.
FailuresWaiting == Cardinality({i \in 1 .. Len(events) : events[i] # "up"})

\* Fault: the semaphore keeps what an earlier test left in it.
StartKeepsSem(n) ==
  /\ PromptDhcp => ~ Stale
  /\ test' = [test EXCEPT !.pc = IF Accepts THEN "top" ELSE "failed", !.creds = n,
                          !.active = TRUE, !.attempts = 1]
  /\ Connect(n)
  /\ failures' = FailuresWaiting
  /\ UNCHANGED <<addr, events>>

\* Up to the loop.  An old event between these statements does what it does
\* right after them.
Start(n) ==
  /\ PromptDhcp => ~ Stale
  /\ test' = [test EXCEPT !.pc = IF Accepts THEN "top" ELSE "failed", !.creds = n,
                          !.active = TRUE, !.sem = FALSE, !.attempts = 1]
  /\ Connect(n)
  /\ failures' = FailuresWaiting
  /\ UNCHANGED <<addr, events>>

At(pc) == test.pc = pc
Goto(pc) == test' = [test EXCEPT !.pc = pc]
OnlyTest == UNCHANGED <<net, failures>>

\* The timeout is looked at only here.
Loop ==
  /\ At("top")
  /\ Goto("wait") \/ Goto("failed")
  /\ OnlyTest

\* k_sem_take() succeeds.
Woken ==
  /\ At("wait") /\ test.sem
  /\ LET next == CASE test.result = "ok" -> "look"
                   [] test.result # "ok" /\ test.attempts < Attempts -> "pause"
                   [] OTHER -> "failed"
     IN  test' = [test EXCEPT !.sem = FALSE, !.pc = next]
  /\ OnlyTest

\* k_sem_take() times out.
HalfSecond ==
  /\ At("wait") /\ ~ test.sem
  /\ Goto("look")
  /\ OnlyTest

\* Fault: association is taken for success.
LookAtAssociation ==
  /\ At("look")
  /\ test' = IF assoc.state # "idle" THEN [test EXCEPT !.pc = "passed"]
             ELSE [test EXCEPT !.pc = "top", !.active = TRUE]
  /\ OnlyTest

\* The address decides, and with none the test is armed again.
Look ==
  /\ At("look")
  /\ test' = IF addr # NoNetwork THEN [test EXCEPT !.pc = "passed"]
             ELSE [test EXCEPT !.pc = "top", !.active = TRUE]
  /\ OnlyTest

\* A second after a failure; the request's own result is ignored.
TryAgain ==
  /\ At("pause")
  /\ test' = [test EXCEPT !.pc = "top", !.active = TRUE, !.attempts = @ + 1]
  /\ Connect(test.creds)
  /\ UNCHANGED <<addr, events, failures>>

\* What is left to do when it returns, 0 or an error.
Passes ==
  /\ At("passed")
  /\ test' = [test EXCEPT !.pc = "off", !.active = FALSE]
  /\ UNCHANGED <<net, failures>>

Fails ==
  /\ At("failed")
  /\ test' = [test EXCEPT !.pc = "off", !.active = FALSE]
  /\ Disconnect
  /\ UNCHANGED <<addr, events, failures>>

World ==
  Associates \/ Refuses \/ Drops \/ Leaves \/ GetsAddress \/ LosesAddress \/ Handle

Testing == Loop \/ Woken \/ HalfSecond \/ Look \/ TryAgain
=============================================================================
