# Formal models of the microcontroller-devices firmware

TLA+ specifications of the firmware in this repository, the TLC runs that check
them on small instances, and TLAPS proofs of what matters most. The firmware
turns a Zephyr microcontroller into an OPC UA, Modbus or SNMP device that is
given its Wi-Fi network over Bluetooth or an access point of its own, and is
managed from the cloud.

## The system

| Part | State it keeps | Operations | Talks to |
|---|---|---|---|
| Boot hand-off (`boot_request.c`, `prov_handoff.c`, `prov_hooks.c`) | the boot request in flash, the credential store, the image in `prov_partition` | boot decision, request, clear, gestures | MCUboot, application and provisioner, through flash only |
| ZTP provisioner (`ztp.c`) | reassembly buffer, event queue, window, session key, status, advertising | writes of a relay, kick, response, expiry, button | Bluetooth thread -> queue -> main thread -> work queue |
| ZTP bundle (`ztp_manifest.c`, `ztp_apply.c`, `prov_c8y.c`) | what is staged; `prov/c8y/*` in the settings store | stage, commit, hand to the client, delete | credential store, cloud client |
| Improv provisioner (`improv.c`) | `cur_state`, queue, authorisation, window, advertising | settings, press, test, store, expiry | as ZTP |
| SoftAP provisioner (`softap.c`) | one pending form, the window | form, test, store, expiry | HTTP clients, `net.c` for the test |
| Wi-Fi connectivity (`net.c`) | connected flag, reconnect item, watchdog counters, address; `try_*` of a test | events, tick, reconnect, last-resort reboot, test of credentials | network event thread, connectivity queue |
| Modbus server (`modbus_server.c`) | `tmp_adu`, `response_ready`, one client | accept, request, answer, timeout | listener thread, system work queue (Zephyr's Modbus core) |
| Control points (`controls.c`, `tedge_glue.c`) | running, mode, setpoint, local writes | writes by a master, parameter set of the cloud | system work queue, thread of the tedge client |
| Liveness watchdog (`liveness.c`) | channels, time of each report, reset record | report, expiry, reset, boot report | every loop that reports progress |
| SNMP agent (`snmp_agent.c`, `snmp_ber.c`, `snmp_mib.c`) | none between two requests | GET, GETNEXT, GETBULK | UDP, simulated switch |
| SNMP traps (`snmp_trap.c`, `sim_switch.c`) | the manager's address, last state of each interface | resolve, coldStart, link traps | trap thread, work queue that flaps the links |
| Button (`button.c`, `button_gesture.c`) | press classifier | edges, timers | gestures of the hand-off |
| OPC UA server (`lib/opcua`) | vendored open62541 | | |
| Indicators, pump values, identity | LEDs, numbers, names | | |

What makes this code hard: a power cut may fall between any two flash
operations, and two images read the same flash; two or three threads share
buffers and states that are guarded by a flag or by nothing; answers and events
come late and say nothing of the attempt they belong to; windows and timeouts
end while somebody still uses what they close; queues of a few entries.

## Modules

| Module | Models | State and actions in the code |
|---|---|---|
| `BootHandoff` | boot request, both images' flow around it, resets and reflashing | `request`, `stored`, `provImage`, `baked` are flash; `pc` is the position in `app_net_init()`, `app_prov_handle_gesture()`, `boot_request_set()`, `improv_run()`/`ztp_run()`/`softap_run()` and `reboot_now()`; `handoff`, `returnOnExpiry`, `candidate` are memory and vanish in `Reset`. One action per flash operation. |
| `TwoImages` | what the hand-off promises, without flash records or control flow | refined by `BootHandoff` (`KeepsPromise`) |
| `ZtpSession` | `ztp.c` between its relay and its worker | `rx`, `rxBusy`, `conn` belong to the Bluetooth callbacks, `queue` is `ztp_q`, `pc`/`task` the switch of `ztp_run()`; `release_rx()` is two steps, because the Bluetooth thread can run between them |
| `OneBuffer` | what a lock-free hand-over of one buffer promises | refined by `ZtpSession` (`BufferIsOwned`) |
| `Provisioner` | the entry of the credential store that all transports replace | |
| `CredentialTest` | `app_net_try_credentials()` and the event handlers it shares `try_*` with | `test` is the thread and `try_active`, `try_result`, `try_sem`; `assoc`, `addr`, `events` are driver, DHCP client and what the handlers have not seen |
| `SoftAp` | `softap_run()` | `apPc`, `pending`; composed with `CredentialTest` step by step |
| `Advertising` | `adv_start()`, `adv_stop()` and the connection callbacks, the same text in `improv.c` and `ztp.c` | `advRunning` is what the code believes, `radio` what is true; a start is two steps |
| `Improv` | `improv.c`: settings, presses, authorisation, test, store, window | `curState` is written by two threads; `provQueue` is `prov_q`; `improvPc` is `improv_run()`; where main looks at `cur_state` and then writes it, that is two steps |
| `ProvisionerImage` | the image a build makes of one of the three transports, over one credential store | `transport` is the choice of `main.c`; the others rest |
| `BundleApply` | a bundle from its response to the application's client | `bundlePc` is `ztp_apply_manifest()`, then `prov_c8y_handoff()`/`prov_c8y_clear()` in the application; one action per record written or deleted |
| `PumpControls` | `controls.c`, `control_apply()` and the write callbacks | `control`, `local`; `step` is the position in `control_apply()` |
| `ModbusServer` | `modbus_server.c`, with the Modbus core and the liveness reset as it meets them | `pc` is the listener, `tmp` is `tmp_adu`, `ready` the semaphore, `core` what the core has been handed |
| `Connectivity` | `net.c` in an application, and `main()` waiting for it | `connected`, `sem`, `reconnect` (the item) are shared; `pc` is net_wq, whose tick looks (`Look`) and acts (`Act`) in two steps; `stall`, `proven`, `badTicks` are the watchdog's statics; `steady` is a history |
| `SnmpBer` | integers and object identifiers of `snmp_ber.c`, as octets | pure operators |
| `SnmpMib` | the table of `snmp_mib.c`, its names and searches | pure operators |
| `SnmpAgent` | `handle_request()` | a function of the request, and `Conforms`, which says what the answer should be; `Turn` is the body of the loops of `plan_getbulk()`; `Askable` is what a manager may send |
| `SnmpTrap` | the trap thread and the simulation it looks at | `trapPc`/`row` is the position in its loop; `told`, `cold`, `lost` are histories |
| `Watchdog` | `liveness.c` and the task watchdog | `ready`, `watched`, `age` are the channels; `record` survives `Restarts`; `quiet`, `stalled` say what contexts really do |
| `SnmpDevice` | agent, traps, simulation and watchdog at work | implements `Watchdog`'s own specification |
| `MC...` | instances for TLC | |
| `...Proofs` | theorems about the module they are named after; `ProvisionerProofs` about `Improv`, `CredentialTest`, `SoftAp` and their image, `SnmpProofs` about `SnmpBer`, `SnmpMib`, `SnmpAgent`, `Watchdog`, `SnmpTrap` and their device | |
| `RecursionTheorems` | induction and recursion over numbers, for the proofs | |

How the modules meet. `ModbusServer` contains `PumpControls`: a served write is
`WriteControl`. `SoftAp` contains `CredentialTest`, whose steps are those of
`softap.c`'s thread while it tests; `Improv` and `BundleApply` use what that
composition establishes, that a test passes only for a network that lets the
device in (`OnlyGoodStored`). `Improv` contains `Advertising`. `SnmpDevice`
contains `SnmpAgent`, `SnmpTrap` and `Watchdog`. `BootHandoff` and the
provisioners meet where a window ends: `exit` there is `exit` in `BootHandoff`,
which says what happens to the boot request. They share no other state, so they
are not composed in one state space. `Connectivity` meets `BootHandoff` in its
last resort: any reset brings flash's view back.

Definitions named `Fault: ...` in their comment are what a plausible mistake in
the code would make of the definition after them. No specification uses them;
each shows that a property would notice that mistake.

### What is abstracted

Names, passwords, manifests and envelopes are model values or left out. A
network lets the device in or not. Fragments of a message are the connections
they came from. A module of a bundle is what becomes of it: networks, settings
of one issue of the server, an unknown type, or one that does not open. Time is
a choice: a timeout may pass whenever the code waits with one; only `Watchdog`
counts it. A boot of MCUboot is one step, as it writes nothing here.

In `Connectivity` a scheduled item runs at any later time, an event may be lost
(the queue of Zephyr's network management overflows) or handled late, and the
driver may stay associating for ever (the "wedged connect" of `net.c`); what
lies behind the access point is open, blocked (leases, but no echo replies) or
dead. A request that can be answered is answered before the next tick.

An SNMP datagram is what is left of it once its nesting is undone; tags and
lengths are left out, sub-identifiers are below 2^28, and the value of a varbind
is the leaf it is read from. The texts of the system group take twice the room of other values.

## Runs

| Run | Instance | Shows |
|---|---|---|
| `boot_faults` | 2 good networks and a bad one; provisioner absent, invalid or valid, exchanged at any time; failing operations and torn records | types; the request is held while the provisioner runs; idling is justified; only joined networks are stored |
| `boot_sound` | operations succeed, records may be torn, provisioner absent or valid | who may change the request, no stale request, refinement of `TwoImages`; a device left alone ends up serving with credentials, or in a provisioner that owes nobody a return, unless it has neither credentials nor a provisioner; an operator's window ends in the application |
| `boot_lost` | valid provisioner, no compile-time credentials, no fault but a power cut | **violated**: finding 1 |
| `provisioner` | each transport; 3 networks, one bad; two waiting events; 8 bundles, 2 issues of cloud settings; failing writes and deletions, power cuts | what may be stored; failures counted; who may send settings and what becomes of them; all or nothing; tenant and network together; one-time password; advertising |
| `ztp_session` | two connections, queue of four, boards with and without sw0 | one message in flight, one sender's, no session after the window, status, refinement of `OneBuffer`; each message is taken and its buffer returned, a window left alone ends |
| `ztp_dropped` | two connections, queue of four, sw0 | **violated**: finding 2 |
| `modbus_prompt` | two clients, one request ahead, two transactions, one control point, a core that answers within the second, parameters applied undisturbed | replies match, parameters rule, the seat is freed; also with frames cut short by a client that leaves, which are served, and frames that cannot be submitted, which are skipped |
| `modbus_late` | the same with a core that may be late | **violated**: finding 3 |
| `modbus_control` | two control points, a master that writes at any time | **violated**: finding 4 |
| `net_recovers` | a network that changes twice; watchdog limits 2 (nudge), 2 (stall), 2 (clear), 3 (reboot); one event waiting | types, loss and return noticed in time, recovery without events |
| `net_late` | one change of the network | **violated**: finding 5 |
| `snmp` | two interfaces that flap, requests for leaves, between them and past the end, single and in bulk, too many names and none; two contexts | answers against `Conforms`, which writes out the rounds of RFC 3416; what the manager knows; only a blocked thread is reset, and it is |

### The bounds

Two networks that work and one that does not are one to keep, one to replace it
and one to be refused. `BootHandoff`, `ZtpSession` and `Improv` have no other
bound than their queues, which have the size they have in the code; two
connections are one that leaves and its successor. A test of credentials may
have `MaxEvents` = 2 events of its past before it: one more would only be
discarded the same way. The eight bundles put networks of equal and different
priority, a network that is not let in, partial cloud settings and modules that
are unknown or bad before and after good ones. Two Modbus transactions are one
that goes wrong and one that suffers (`MaxRequests`, `MaxPipelined`). One control
point suffices where points are independent; the order of two matters only to
`modbus_control`. The network of `Connectivity` needs two changes
(`MaxChanges`) to be good, bad and good again; limits of 2 and 3 instead of 5,
10 and 100 keep the order of their stages (stall, nudge and clear, reboot), and
the theorems hold for all limits. In `snmp`, `MaxNames` + `Spare` = 5 varbinds
and `TxRoom` = 6 values stand for the sizes of the agent's buffers, so that
requests fill and overflow both; `Period` = `FeedMin` = 2 of a `Timeout` of 4 is
the tightest the assumption admits. Counters stop where nothing distinguishes
their values any more.

### Assumptions of the runs

- `PromptCore`, `Undisturbed` (`modbus_prompt`): a work item gets its turn in a
  second, and nobody writes while parameters are applied. `modbus_late` and
  `modbus_control` take one of these away each.
- `PromptDhcp` (`provisioner`): the DHCP client has removed the address of the
  last network before the next is tested. `app_net_try_credentials()` asks the
  interface for *an* address, not for one of this attempt; without the
  assumption TLC finds an old address that lets a bad network pass, and
  `OnlyGoodStored` fails.
- `Overtaken` = FALSE (`provisioner`): a connection is not reported between the
  return of `bt_le_adv_start()` and the next statement, `adv_running = true`.
  With TRUE, `ImprovAdvertises` fails: the flag stays set over a radio that is
  silent, and every later start returns at once.
- `Timeout` >= `Period` + `FeedMin` for each context, and `Channels` >= contexts
  (`Watchdog`). Kconfig admits sampling intervals up to an hour next to timeouts
  from five seconds, and `CONFIG_TASK_WDT_CHANNELS` is set apart from
  `enum app_ctx`: nothing in the build compares them.
- `boot_sound` leaves out failing flash and invalid provisioners, because its
  properties are not true of them: a request that cannot be cleared brings the
  provisioner back, and with an invalid provisioner the application finds its
  magic, asks for it, and MCUboot refuses it, so without credentials the device
  reboots for ever.

### Fairness

- `BootHandoff`: weak fairness of MCUboot, of each image's own flow and of the
  reboot. Flash and radio calls return; window, test and grace period are timed,
  and so is the life of an application without credentials (`OfflineReboot`): the
  watchdog's tick is scheduled before `app_net_init()` looks for credentials, and
  reboots a device that counts as offline every `APP_NET_REBOOT_TIMEOUT_S` (on
  by default; without it that device stays offline, which `Stranded` allows
  too). A new window after an idle one (`NewWindow`) is the device's own step, as
  SoftAP opens one unasked, but has no fairness, as Improv and ZTP wait for sw0.
  `SettlesWhenLeftAlone` speaks of devices whose surroundings rest: an access
  point that stays away makes an application with credentials reboot in the same
  way (`LastResortReboot`), which is a step of the environment there and the
  subject of `Connectivity`.
- `ZtpSession`: weak fairness of the main thread (jobs and sends are bounded)
  and of the deadline.
- `ProvisionerImage`: weak fairness of Improv's main thread, and of controller and
  work queue; none of the deadline, which nothing has to wait for.
- `ModbusServer`: weak fairness of the listener (every wait but the one in the
  middle of a frame has a timeout), of the liveness reset that ends that one, and
  of applying parameters to the end; strong fairness of the Modbus core, whose
  cooperative queue preempts the thread that applies parameters.
- `Connectivity`: weak fairness of handlers, of DHCP and the driver where the
  access point answers, and of main's progress but not of its timeout; strong
  fairness of the tick and the reconnect item, which share a queue that runs
  items by their time. `Recovers` assumes besides that ticks do not for ever
  look in the middle of a join that would succeed (`LooksLater`): a network that
  lets nobody in within three seconds, tick after tick, may be met by the last
  resort each time.
- `SnmpDevice`: weak fairness of the threads as long as they do not block, of
  time, of the watchdog's interrupt and of the restart after it.

Nothing is assumed of people, relays, clients, access points, managers, power
or technicians; the properties say what happens once they leave the device alone.

## Findings

1. **The stored network is deleted before the new one is written**
   (`improv.c:555`, `softap.c:386`, `ztp_apply.c` `wifi_commit()`). A power cut
   in between, or a failing write, leaves an operator's window without the
   credentials that `boot_request.h`, `improv.c:586` and the README promise it
   will return to. Run `boot_lost`.
2. **A full event queue swallows a message with the buffer** (`ztp.c:90`).
   `rx_fragment()` marks the buffer busy and posts without looking at the
   result. Four presses of sw0 while an envelope is signed and sent fill the
   queue; the relay's next message is lost and so is every later one. Run
   `ztp_dropped`. On boards without sw0 it cannot happen, as a relay has at most
   one message in flight; `ServiceReturns` of `ztp_session` is about those.
3. **A late answer is the next request's** (`modbus_server.c:254`). The
   specification `modbus-tcp-server` says transaction ids match. Run
   `modbus_late`.
4. **A Modbus write slips in while parameters are applied**
   (`tedge_glue.c:286`): points first, `local_writes` last. Run
   `modbus_control`.
5. **A network that comes up after a minute is never served on** (`main.c:41`
   of each application). `main()` gives up, `net.c` does not: the device is
   connected, its LED steady, the last resort satisfied, and no frontend
   listens until somebody resets it. Run `net_late`.

Seen on the way and not listed as findings, as no line of the repository says
otherwise or only loosely:

- Improv settings that arrive while the window closes are dropped with
  `cur_state` left at "provisioning", which refuses all others until a restart
  (`late` in `Improv`). A press between the acceptance of settings and
  `set_state()` lets second settings into the queue.
- Empty fields of a bundle's cloud settings are not written: a new url can meet
  an older one-time password, and a stale external id stays.
- When storing a tested network fails, the driver is still joined to it; the
  next test then fails at once, as the driver does not accept another request.
- A one-time password is given to the client again after a power cut or a
  failing delete between the hand-over and its end
  (`openspec/specs/ztp-provisioning/spec.md:174-176`).
- A coldStart whose datagram the stack refuses is not repeated, although
  `openspec/specs/snmp-trap-notifications/spec.md:38` says "exactly one"; links
  that change while the manager is unresolved are not reported.
- A device without credentials to which no provisioner was flashed reboots
  itself every five minutes (`net.c:693`, scheduled at `net.c:782` before the
  credentials are looked for), where `prov_handoff.h:16` has it stay offline.
- A power cut inside the write of the request can leave its magic and target
  without the reason (`boot_request.c:47`), which is then no operator's. With a
  stored network the end of the window returns to the application all the same;
  with compile-time credentials alone the provisioner goes idle, although
  `README.md:557` has the window's end return to the application.
- A Modbus client that leaves in the middle of a frame has it served with the
  bytes that the buffers held before: `serve_once()` takes a short read for a
  whole one (`modbus_server.c:244`). A write among those is carried out.
- A GETBULK repeater that has reached the end of the view is left out of later
  rounds, where RFC 3416 repeats endOfMibView; a list longer than
  `SNMP_MAX_RESP_VB` is cut without saying so, which the RFC and
  `openspec/specs/snmp-agent/spec.md:130-133` allow.
- `ber_get_oid()` takes the first octet of a name for its first two arcs
  (`snmp_ber.c:307`), `ber_put_oid()` writes as many octets as 40 * arc1 + arc2
  needs. A GET of 2.999.3 (octets 88 37 03) is answered under the name 81 08 37
  03, although names are to be echoed verbatim
  (`openspec/changes/reduce-memory-footprint/specs/snmp-agent/spec.md:15-16`).
  Nothing is served there: the answer is noSuchInstance under either name.
- A Modbus client that falls silent in the middle of a frame is not dropped
  after the idle timeout, as a silent one is, but by a reset of the device
  through the liveness watchdog.

## Proofs

All theorems hold for every value of the constants under the assumptions named
in the modules (`NetworksAssumption`, `FlashAssumption`, ...), which TLC evaluates
in the runs. Liveness and `ENABLED` are not treated by the prover.

**`BootHandoffProofs`**: the safety properties of the hand-off for any set of
networks, any images and builds, and any faults. `RequestHeldInProvisioner` is
not inductive: that a booting provisioner finds its request follows from the
guard of MCUboot, and that it keeps it from the application not running. `IInv`
adds what each flow of control knows: that the promise read at the start agrees
with the record, that the candidate past its test is joinable, and which labels
go with which hand-over. `NoAutomaticFallback`, `Ownership` and `Refinement`
assume `SoundDevice` (flash operations do not fail, a provisioner is valid or
absent): `SoundInv` adds that a serving application has no request left over and
that a request is written only for a provisioner that is there. `Refinement`
maps each step to a step of `TwoImages` or to a stutter.

**`ConnectivityProofs`**: types and both bounds of the watchdog (`LossNoticed`,
`OnlineNoticed`) for every limit. The properties speak of the step that acts;
what makes them inductive is what earlier looks left behind: after the first
look without a network no reply comes any more and the stall counter is at most
one behind the history, with a usable network each tick leaves a request that is
answered before the next look, and a verdict not yet acted on agrees with the
counters it was made from.

**`ZtpSessionProofs`**: five invariants and the refinement of `OneBuffer`, for
any number of connections and any length of the queue. The heart is that at
most one of "a message waits in the queue", "the worker has one" and "it is
being returned" is true while `rx_busy` is set (`OneMessageInFlight`); a
message is a producer's until then (`OwnPieces`), and what the worker holds is
whole (`WholeResponse`). Lemmas on the queue say what posting, taking and
dropping do to the count of a message. The session needs `BuiltInWindow`, the
status `TaskKnown`.

`RecursionTheorems` is about no code: it supports the two inductions below. The
prover cannot instantiate a theorem that takes a predicate, so induction is
stated for a set of numbers (`SetInduction`, from the library's `WFMin`), and
with it that a recursive definition over `0 .. N` has a solution (`Recursion`),
which is what a fold of the community modules chooses.

**`BundleApplyProofs`**: `AllOrNothing` (bad modules are met while staging, where
nothing is written; what is committed is good), `PasswordKept` (a deletion is
reached only past the client's answer, and nobody replaces the password in
between) and `PasswordOnce`, with any bundles, failures and power cuts.
`BestIsFirst` is an induction over the sections of a module: the loop that keeps
the best so far ends with the first section of the highest priority, whatever
their number. `StagedIsWanted` carries it over the modules, and
`TenantHasNetwork` is then an invariant of the flow (`TenantInv`): what is staged
is what the modules so far ask for, it is committed before any cloud settings,
and until then those are the ones from before. `BundleTypes` needs that a record
is staged or not as a whole.

**`ProvisionerProofs`**, for all networks, queues and bundles. `Authorisation`
and `AcceptedSettings` of Improv split by thread: client and controller cannot
authorise anybody, the main thread loses settings only by starting on them. The
queue argument follows settings past presses that are taken before them.

`OnlyWhatLetsIn` assumes `PromptDhcp`, as the run does: with an address left from
an attempt before, TLC has a bad network stored. `OwnNetwork` says that while a
test runs the driver works for its network or for none; `Certified` that the
interface then has no address but that network's, which has let the device in,
so that a look which finds one passes a good network. `Place` ties the form of
SoftAP to the test it waits for. Improv and ZTP call the same test, which is one step
there and passes for good networks: what the theorem adds for SoftAP is why it may.

`GivesUpWhenTold` counts: every failure a test has used, was told of or still
has in the event queue is one that the driver raised for its network or that
waited when it began (`Counted`), though a full queue loses some. Without the
reset of the semaphore in `Start` one more would be used than counted.
`Bounded` is the other side, which the counter's type needs: an attempt fails
once at most.

`ImageInv` puts the three transports together; a step of one leaves the
variables of the others alone and the store good, so that `ImageTypes`,
`ImageSettings`, `ImageBundles` and `ImagePassword` are about the whole image.

**`ModbusServerProofs`**: types; `RepliesMatch` assuming `PromptCore`, from
`NothingLeftOver` (no answer waits and no token is given while nothing is
asked); `ParametersRule` assuming `Undisturbed`, where `AppliedSoFar` says which
points already hold the parameters.

**`SnmpProofs`**: the watchdog alone never resets a working context
(`WatchdogSound`): a context that runs was fed less than `FeedMin` before its
last report, which is at most `Period` ago (`FedInTime`). The firmware implements
that specification (`DeviceWatchdog`), so `OnlyStalledContextsReset` follows
without a new induction. `ManagerIsTold`: a manager that lost nothing knows
every interface as the watcher last saw it, but for the one being reported
(`ToldAllButOne`), and coldStart comes once and first (`ColdFirst`).

The table of the MIB is in the order of its names for any number of interfaces
(`WalkOrder`), from the arcs in which two names can differ and the order of
quotient and remainder; so the cursor of a GETBULK repeater and the search of
GETNEXT agree at every leaf (`CursorIsLookup`), and a name finds its own leaf
(`ExactIsLookup`).

`AgentConforms` is about `Conforms`, which says of each request what becomes of
it, and does not look at how `handle_request()` goes about it:

- it is dropped if and only if `parse_request()` does not keep it, and otherwise
  answered under its own identifier;
- there is no error if and only if the PDU is one of the three, it has no more
  names than `MaxNames`, and the list that is due has room in the response
  (`Answerable`); an answer with an error has no list;
- for GET each name comes back as it was asked, with an exception just where
  nothing is served; for GETNEXT each with the next name served after it, or
  the end of the view;
- for GETBULK the list is the one of RFC 3416, section 4.2.3, first the
  non-repeaters, then round by round what follows the name of the round before
  (`InRounds`), with two departures that the code makes and `ExpectedBulk` names:
  the end of the view is said once for each repeater and not again in later
  rounds, and what is over `MaxVarbinds` is cut.

Its proof rests on the codec: what `ber_get_int()` has read `ber_put_int()` writes in the same octets
(`IntegersReturn`), by one case for each of the four lengths and an induction
over the octets (`ValueFollows`); what `ber_put_oid()` writes `ber_get_oid()`
reads (`OidsReturn`), by an induction over the arcs, each of which leaves the
reader with that arc more and nothing open (`Reads`, `ArcRead`). Then the names
of leaves and the names that were read are found again by the manager, which
settles GET and GETNEXT. For GETBULK, `Turn` of the firmware and `ExpectedBulk`
are followed side by side: as long as there is room, the list so far is the
expected one, and each walker stands at the leaf the last of its answers names,
or is done just where they have ended (`Stands`, `Abreast`).
`TurnAbreast` is the step, `BulkAnswers` the induction over turns, which ends
also when the list is full before the walkers are.

The theorem is about datagrams that are `Askable`: an identifier of at most four
octets of which none is wasted, names with their first two arcs in one octet
(what happens otherwise is among the things seen on the way) and arcs below
2^28. `RoomAssumption` says
that a name has room for the eleven arcs of a leaf and that the rows are such
arcs. TLC evaluates it in `snmp`, and `MCRequestsAssumption`: all requests of
that run are `Askable`.

Only model-checked: all liveness (`SettlesWhenLeftAlone`, `OperatorReturns`,
`ServiceReturns`, `WindowEnds`, `SeatIsFreed`, `Recovers`, `ImprovAdvertises`,
`StalledIsReset`). Every invariant and every action property of the runs is the
subject of a theorem, for all values of the constants that the assumptions admit.

## Not modelled

- The press classifier of `button_gesture.c`: it stands alone and is tested as a
  pure function; the models take complete gestures. Debouncing in `button.c`.
- Status LED, display, identify, progress: nothing depends on them.
- OPC UA: a thin layer over vendored open62541, which keeps the state.
- Cryptography, base64, key-value and INI syntax, sealing, rendering.
- ZTP's time characteristic and the device clock.
- HTTP, DNS and the pages of SoftAP; corrupt frames, device information and the
  error characteristic of Improv.
- Telemetry, operations and shell of the tedge glue; the pump's numbers and the
  switch's counters; identity records.
- Nesting and lengths of BER, malformed datagrams, sockets that cannot be opened.
- `diag.c`, boot-log lines and the hardware watchdog behind the task watchdog.
- Host tools and release scripts; MCUboot beyond its hook.

## Plan

1. The time-sync characteristic in `ZtpSession`; the tedge glue's operations.
2. The press classifier against its table of gestures.
