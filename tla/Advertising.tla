----------------------------- MODULE Advertising -----------------------------
(***************************************************************************)
(* Who advertises when: adv_start(), adv_stop() and the connection         *)
(* callbacks, which improv.c and ztp.c share word for word.                *)
(*                                                                         *)
(* Main starts and stops advertising, the Bluetooth thread learns of       *)
(* connections, and the system work queue starts it again once the only    *)
(* connection object has been recycled.  adv_running is what they believe, *)
(* radio what is true: a start asks the controller, waits for it, and sets *)
(* the flag when it runs again.                                            *)
(***************************************************************************)

CONSTANT Overtaken   \* may a connection be reported before the thread that
                     \* started advertising has set its flag?

ASSUME OvertakenAssumption == Overtaken \in BOOLEAN

VARIABLES
  advWanted,     \* adv_wanted
  advRunning,    \* adv_running
  radio,         \* does the controller advertise?
  link,          \* the connection object, and whether cur_conn names it
  starting,      \* where each thread is in adv_start()
  restart        \* is adv_restart_work submitted?

advVars == <<advWanted, advRunning, radio, link, starting, restart>>

Starters == {"main", "workq"}

AdvTypeOK ==
  /\ advWanted \in BOOLEAN /\ advRunning \in BOOLEAN
  /\ radio \in BOOLEAN /\ restart \in BOOLEAN
  /\ link \in {"free", "client", "ending", "closing"}
  /\ starting \in [Starters -> {"no", "asked", "started"}]

\* cur_conn # NULL; a connection being ended is still there.
HasClient == link \in {"client", "ending"}

\* A flag that is about to be set is set before time passes.
Prompt == \A t \in Starters : starting[t] # "started"

\* The work queue precedes the main thread, which waits for its own start.
MainRuns == starting["main"] = "no" /\ starting["workq"] # "started"

\* adv_start() up to the controller
Ask(t) ==
  starting' = [starting EXCEPT ![t] =
                 IF advWanted' /\ ~ advRunning /\ ~ HasClient THEN "asked" ELSE "no"]

\* bt_le_adv_start(): fails while it advertises or no connection is free.
RadioAnswers(t) ==
  /\ starting[t] = "asked"
  /\ IF radio \/ link # "free"
     THEN starting' = [starting EXCEPT ![t] = "no"] /\ UNCHANGED radio
     ELSE starting' = [starting EXCEPT ![t] = "started"] /\ radio' = TRUE
  /\ UNCHANGED <<advWanted, advRunning, link, restart>>

SetRunning(t) ==
  /\ starting[t] = "started"
  /\ starting' = [starting EXCEPT ![t] = "no"]
  /\ advRunning' = TRUE
  /\ UNCHANGED <<advWanted, radio, link, restart>>

\* Fault: the window ends with the advertising flag left set.
StopKeepsFlag ==
  /\ advWanted' = FALSE
  /\ radio' = (radio /\ ~ advRunning)
  /\ UNCHANGED <<advRunning, link, starting, restart>>

\* adv_stop(), on the main thread
Stop ==
  /\ advWanted' = FALSE
  /\ advRunning' = FALSE
  /\ radio' = (radio /\ ~ advRunning)
  /\ UNCHANGED <<link, starting, restart>>

\* on_connected
Connects ==
  /\ radio /\ link = "free"
  /\ Overtaken \/ Prompt
  /\ link' = "client" /\ radio' = FALSE /\ advRunning' = FALSE
  /\ UNCHANGED <<advWanted, starting, restart>>

\* bt_conn_disconnect() when there is a client
EndClient == link' = IF link = "client" THEN "ending" ELSE link

\* on_disconnected
Disconnects ==
  /\ HasClient /\ Prompt
  /\ link' = "closing"
  /\ UNCHANGED <<advWanted, advRunning, radio, starting, restart>>

\* on_recycled
Recycled ==
  /\ link = "closing" /\ Prompt
  /\ link' = "free" /\ restart' = TRUE
  /\ UNCHANGED <<advWanted, advRunning, radio, starting>>

\* adv_restart_fn
Restart ==
  /\ restart /\ starting["workq"] = "no"
  /\ restart' = FALSE
  /\ UNCHANGED <<advWanted, advRunning, radio, link>>
  /\ Ask("workq")

\* What must happen: the controller answers, threads that can run do, and a
\* connection that is being ended ends.
AdvMoves ==
  \/ \E t \in Starters : RadioAnswers(t) \/ SetRunning(t)
  \/ Recycled \/ Restart
  \/ link = "ending" /\ Disconnects

\* Nothing under way: what takes milliseconds is over before a window is.
AdvSettled ==
  /\ \A t \in Starters : starting[t] = "no"
  /\ ~ restart /\ link \notin {"ending", "closing"}
=============================================================================
