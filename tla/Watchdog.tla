------------------------------ MODULE Watchdog ------------------------------
(***************************************************************************)
(* The liveness watchdog (liveness.c): each context that reports progress  *)
(* gets a channel of Zephyr's task watchdog with its first report, and the *)
(* device is reset when one reports nothing for as long as its timeout.    *)
(* Reports that follow each other closely feed only once.  A record that   *)
(* survives the reset tells the next boot who it was.                      *)
(*                                                                         *)
(* Time passes in units of which a working context needs at most Period    *)
(* between two reports.  Zephyr's task watchdog is external.               *)
(***************************************************************************)
EXTENDS Naturals, FiniteSets

CONSTANTS
  Contexts,     \* enum app_ctx, those a firmware has
  NoContext,    \* REC_NONE
  Timeout,      \* ctx_timeout_ms() of each context
  Period,       \* the longest a working context goes without a report
  FeedMin,      \* FEED_MIN_MS
  Channels      \* CONFIG_TASK_WDT_CHANNELS

ASSUME WatchdogAssumption ==
  /\ NoContext \notin Contexts /\ IsFiniteSet(Contexts)
  /\ Channels \in Nat /\ Channels >= Cardinality(Contexts)
  /\ Timeout \in [Contexts -> Nat] /\ Period \in Nat /\ FeedMin \in Nat \ {0}
  /\ \A c \in Contexts : Timeout[c] >= Period + FeedMin

VARIABLES
  ready,        \* has the watchdog been initialised, and has it not failed?
  watched,      \* the contexts with a channel
  age,          \* time since each channel was fed
  quiet,        \* time since each context reported
  stalled,      \* the contexts that report no more
  record,       \* rec.ctx, in memory that survives a reset
  reported      \* the context the boot log names

watchVars == <<ready, watched, age, quiet, stalled, record, reported>>

WatchTypeOK ==
  /\ ready \in BOOLEAN
  /\ watched \in SUBSET Contexts /\ stalled \in SUBSET Contexts
  /\ age \in [Contexts -> Nat] /\ quiet \in [Contexts -> Nat]
  /\ record \in Contexts \cup {NoContext}
  /\ reported \in Contexts \cup {NoContext}

Zero == [c \in Contexts |-> 0]

\* After power-on, when the record is garbage.
WatchInit ==
  /\ ready = TRUE /\ watched = {} /\ age = Zero /\ quiet = Zero
  /\ stalled = {} /\ record = NoContext /\ reported = NoContext

\* Fault: reports come from a timer, whether or not the context works.
AliveByTimer(c) ==
  /\ quiet' = [quiet EXCEPT ![c] = 0]
  /\ ready' = (ready /\ (c \in watched \/ Cardinality(watched) < Channels))
  /\ watched' = IF ready' THEN watched \cup {c} ELSE watched
  /\ age' = IF ready' /\ (c \notin watched \/ age[c] >= FeedMin)
            THEN [age EXCEPT ![c] = 0] ELSE age
  /\ UNCHANGED <<stalled, record, reported>>

\* app_liveness_feed()
Alive(c) ==
  /\ c \notin stalled
  /\ quiet' = [quiet EXCEPT ![c] = 0]
  /\ ready' = (ready /\ (c \in watched \/ Cardinality(watched) < Channels))
  /\ watched' = IF ready' THEN watched \cup {c} ELSE watched
  /\ age' = IF ready' /\ (c \notin watched \/ age[c] >= FeedMin)
            THEN [age EXCEPT ![c] = 0] ELSE age
  /\ UNCHANGED <<stalled, record, reported>>

\* Something blocks a context for good.
Stall(c) ==
  /\ c \notin stalled
  /\ stalled' = stalled \cup {c}
  /\ UNCHANGED <<ready, watched, age, quiet, record, reported>>

Due(c) == c \in watched /\ age[c] >= Timeout[c]

\* A context that works has reported when it is time.
WatchTick ==
  /\ \A c \in watched : ~ Due(c) /\ (c \in stalled \/ quiet[c] < Period)
  /\ age' = [c \in Contexts |-> IF c \in watched THEN age[c] + 1 ELSE 0]
  /\ quiet' = [c \in Contexts |-> IF c \in watched \ stalled THEN quiet[c] + 1 ELSE 0]
  /\ UNCHANGED <<ready, watched, stalled, record, reported>>

\* channel_expired(), in the timer's interrupt.  The last of several is kept.
Expire(c) ==
  /\ Due(c) /\ record # c
  /\ record' = c
  /\ UNCHANGED <<ready, watched, age, quiet, stalled, reported>>

\* liveness_init() after any reset: the record is read, and cleared.
Boot ==
  /\ reported' = record
  /\ record' = NoContext
  /\ ready' = TRUE /\ watched' = {} /\ age' = Zero /\ quiet' = Zero /\ stalled' = {}

\* Fault: the record is read but not cleared.
ReapKeepsRecord ==
  /\ record # NoContext
  /\ reported' = record
  /\ ready' = TRUE /\ watched' = {} /\ age' = Zero /\ quiet' = Zero /\ stalled' = {}
  /\ UNCHANGED record

\* reaper_main(), and the boot after it
Reap ==
  /\ record # NoContext
  /\ Boot

-----------------------------------------------------------------------------
(* The watchdog among contexts that report, or do not, at any time *)

WatchNext ==
  \/ \E c \in Contexts : Alive(c) \/ Stall(c) \/ Expire(c)
  \/ WatchTick \/ Reap

WatchSpec == WatchInit /\ [][WatchNext]_watchVars

-----------------------------------------------------------------------------
(* Properties *)

(* The device is never reset for a context that works, however its reports fall
   between those that feed and those that are too close to feed; and the boot
   log never names a context that has not stalled in the boot before. *)
OnlyStalledReset == record # NoContext => record \in stalled

(* A context that has once reported, and stalls, has the device reset. *)
StalledIsReset ==
  \A c \in Contexts : c \in stalled /\ c \in watched ~> c \notin stalled
=============================================================================
