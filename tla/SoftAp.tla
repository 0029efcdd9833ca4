------------------------------- MODULE SoftAp -------------------------------
(***************************************************************************)
(* The SoftAP provisioner (softap.c): one thread serves a form over HTTP,  *)
(* tests what comes in, stores it and leaves.  A phone that asks for a     *)
(* page while a test runs waits in the backlog.                            *)
(*                                                                         *)
(* HTTP, DNS and the page are left out, and so are requests that only show *)
(* a page.                                                                 *)
(***************************************************************************)
EXTENDS CredentialTest

VARIABLES
  apPc,       \* where softap_run() is
  pending     \* the credentials of the form

apVars == <<apPc, pending>>

ApTypeOK ==
  /\ apPc \in {"poll", "reply", "testing", "store", "final", "exit"}
  /\ pending \in Networks \cup {NoNetwork}

ApInit ==
  /\ apPc = "poll"
  /\ pending = NoNetwork

\* http_handle(): the form with a network's name.  One without is asked for
\* again, with nothing pending.
PostForm(n) ==
  /\ apPc = "poll"
  /\ apPc' = "reply" /\ pending' = n
  /\ UNCHANGED <<stored, testVars>>

\* try_pending()
BeginTest ==
  /\ apPc = "reply"
  /\ Start(pending)
  /\ apPc' = "testing"
  /\ UNCHANGED <<stored, pending>>

TestFailed ==
  /\ apPc = "testing" /\ Fails
  /\ apPc' = "poll" /\ pending' = NoNetwork
  /\ UNCHANGED stored

TestPassed ==
  /\ apPc = "testing" /\ Passes
  /\ apPc' = "store"
  /\ UNCHANGED <<stored, pending>>

\* wifi_credentials_delete_all(), wifi_credentials_set_personal()
Store ==
  /\ apPc = "store"
  /\ pending' = NoNetwork
  /\ \/ Stores(pending) /\ apPc' = "final"
     \/ StoreFails /\ apPc' = "poll"
  /\ UNCHANGED testVars

\* serve_final_page(): a phone that waits, or five seconds.
FinalPage ==
  /\ apPc = "final"
  /\ apPc' = "exit"
  /\ UNCHANGED <<stored, testVars, pending>>

\* The end of the window is looked at between requests.  A window that has
\* nowhere to go is a new window.
WindowOver ==
  /\ apPc = "poll"
  /\ apPc' = "exit"
  /\ UNCHANGED <<stored, testVars, pending>>

\* reboot_now(), whatever runs next, and the next time this image runs.
ApLeaves ==
  /\ apPc = "exit"
  /\ TestReset
  /\ apPc' = "poll" /\ pending' = NoNetwork
  /\ UNCHANGED stored

ApMain ==
  \/ BeginTest \/ TestFailed \/ TestPassed \/ Store \/ FinalPage \/ ApLeaves
  \/ Testing /\ UNCHANGED <<stored, apVars>>

ApNext ==
  \/ \E n \in Networks : PostForm(n)
  \/ WindowOver \/ ApMain
  \/ World /\ UNCHANGED <<stored, apVars>>

-----------------------------------------------------------------------------
(* Properties *)

(* Nothing is stored that did not let the device in, whatever addresses and
   events of earlier networks are still around when it is tested. *)
OnlyGoodStored == stored \in Good \cup {NoNetwork}

(* A test that gives up for failures has been told of three: of its own network,
   or waiting in the event queue when it began.  No event counts twice, and none
   that an earlier test was told of. *)
GivesUpOnFailures ==
  [][At("wait") /\ test'.pc = "failed" => failures >= Attempts]_testVars
=============================================================================
