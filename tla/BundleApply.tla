---------------------------- MODULE BundleApply ----------------------------
(***************************************************************************)
(* A ZTP bundle from the response that carries it to the cloud client that *)
(* uses it: ztp_apply.c stages all modules and commits them in the order   *)
(* of its table, prov_c8y.c writes the cloud settings field by field, and  *)
(* the application hands them to its client and deletes them.              *)
(*                                                                         *)
(* A bundle is a sequence of modules that have been read.  Encodings,      *)
(* seals and INI syntax are abstracted to what becomes of a module: it     *)
(* carries networks, carries settings of one issue of the server, is of a  *)
(* type without an applier, or does not open or parse.  The test of a      *)
(* network is CredentialTest's.                                            *)
(***************************************************************************)
EXTENDS Provisioner, Sequences, Integers

CONSTANTS
  Bundles,     \* the bundles a server may send
  Issues,      \* what the cloud settings of a bundle were issued for
  NoIssue,     \* an empty field
  Faults       \* what may go wrong: "write", "delete", "cut"

ASSUME BundleAssumption ==
  /\ NoIssue \notin Issues
  /\ Faults \subseteq {"write", "delete", "cut"}

VARIABLES
  bundlePc,    \* where ztp_apply_manifest() or prov_c8y_handoff() is
  rest,        \* modules yet to be staged
  staged,      \* what is staged
  field,       \* the field being written or deleted, as an index into Fields
  c8y,         \* prov/c8y/* in the settings store
  client,      \* what the client has accepted, in its own store
  whole,       \* history: the bundle ...
  before,      \* ... and the stores before it came
  otp          \* history: what became of the password in the store

memory == <<bundlePc, rest, staged, field>>
bundleVars == <<memory, c8y, client, whole, before, otp>>

\* The order in which prov_c8y_store() writes and prov_c8y_clear() deletes.
Fields == <<"url", "tenant", "external_id", "otp">>
FieldNames == {Fields[i] : i \in 1 .. Len(Fields)}

Empty4 == [f \in FieldNames |-> NoIssue]
NothingStaged == [wifi |-> NoNetwork, c8y |-> Empty4]

Settings == [FieldNames -> Issues \cup {NoIssue}]

\* What ztp_manifest_next_module() makes of a module.
Modules == [type : {"wifi", "c8y", "unknown", "bad"},
            networks : Seq([net : Networks \cup {NoNetwork}, priority : Nat]),
            settings : Settings]

ASSUME BundlesAssumption == Bundles \subseteq Seq(Modules)

BundleTypeOK ==
  /\ bundlePc \in {"ready", "stage", "wifi", "c8y", "applied",
                   "boot", "give url", "give otp", "clear", "serve"}
  /\ staged \in [wifi : Networks \cup {NoNetwork},
                 c8y : Settings]
  /\ field \in 1 .. Len(Fields) + 1
  /\ c8y \in Settings
  /\ client \in [{"url", "otp"} -> Issues \cup {NoIssue}]
  /\ otp \in {"fresh", "given", "exposed"}

BundleInit ==
  /\ bundlePc = "ready" /\ rest = <<>> /\ staged = NothingStaged /\ field = 1
  /\ c8y = Empty4
  /\ client = [f \in {"url", "otp"} |-> NoIssue]
  /\ whole = <<>>
  /\ before = [stored |-> stored, c8y |-> c8y]
  /\ otp = "fresh"

-----------------------------------------------------------------------------
(* Phase 1: stage *)

\* wifi_close_section() after each section: the first of the highest priority
\* among those that name a network.
Best(networks) ==
  LET better[i \in 0 .. Len(networks)] ==
        IF i = 0 THEN [net |-> NoNetwork, priority |-> 0]
        ELSE LET best == better[i - 1]
             IN  IF /\ networks[i].net # NoNetwork
                    /\ best.net = NoNetwork \/ networks[i].priority > best.priority
                 THEN networks[i] ELSE best
  IN  better[Len(networks)].net

\* reset_all(), and the error that ztp_run() reports.
Refuse ==
  bundlePc' = "ready" /\ staged' = NothingStaged /\ rest' = <<>> /\ field' = 1

\* A response with a bundle for this device.  One with another version or for
\* another device is refused before anything is read.
ReceiveBundle(b) ==
  /\ bundlePc = "ready"
  /\ bundlePc' = "stage" /\ rest' = b /\ staged' = NothingStaged
  /\ whole' = b /\ before' = [stored |-> stored, c8y |-> c8y]
  /\ UNCHANGED <<stored, field, c8y, client, otp>>

\* wifi_stage() and c8y_stage(): both want something to work with.
Stages(m) ==
  \/ /\ m.type = "wifi" /\ Best(m.networks) # NoNetwork
     /\ staged' = [staged EXCEPT !.wifi = Best(m.networks)]
  \/ /\ m.type = "c8y" /\ m.settings["url"] # NoIssue
     /\ staged' = [staged EXCEPT !.c8y = m.settings]
  \/ m.type = "unknown" /\ UNCHANGED staged

Rejects(m) ==
  \/ m.type = "bad"
  \/ m.type = "wifi" /\ Best(m.networks) = NoNetwork
  \/ m.type = "c8y" /\ m.settings["url"] = NoIssue

\* Fault: a module that does not open is passed over.
StageSkipsBad ==
  /\ bundlePc = "stage" /\ rest # <<>>
  /\ rest' = Tail(rest)
  /\ \/ Stages(Head(rest))
     \/ Rejects(Head(rest)) /\ UNCHANGED staged
  /\ UNCHANGED <<stored, bundlePc, field, c8y, client, whole, before, otp>>

Stage ==
  /\ bundlePc = "stage" /\ rest # <<>>
  /\ \/ Stages(Head(rest)) /\ rest' = Tail(rest) /\ UNCHANGED <<bundlePc, field>>
     \/ Rejects(Head(rest)) /\ Refuse
  /\ UNCHANGED <<stored, c8y, client, whole, before, otp>>

\* All modules are staged, if any.
Staged ==
  /\ bundlePc = "stage" /\ rest = <<>>
  /\ IF staged = NothingStaged THEN Refuse
     ELSE bundlePc' = "wifi" /\ UNCHANGED <<rest, staged, field>>
  /\ UNCHANGED <<stored, c8y, client, whole, before, otp>>

-----------------------------------------------------------------------------
(* Phase 2: commit, Wi-Fi first *)

\* Fault: the next module is committed although this one failed.
CommitWifiAnyway ==
  /\ bundlePc = "wifi"
  /\ bundlePc' = "c8y" /\ UNCHANGED <<rest, staged, field>>
  /\ \/ staged.wifi \in Good /\ Stores(staged.wifi)
     \/ UNCHANGED stored
  /\ UNCHANGED <<c8y, client, whole, before, otp>>

\* wifi_commit(): tested, and only then stored.
CommitWifi ==
  /\ bundlePc = "wifi"
  /\ \/ /\ staged.wifi \in Good /\ Stores(staged.wifi)
        /\ bundlePc' = "c8y" /\ UNCHANGED <<rest, staged, field>>
     \/ staged.wifi \in Good /\ "write" \in Faults /\ StoreFails /\ Refuse
     \/ staged.wifi # NoNetwork /\ UNCHANGED stored /\ Refuse
     \/ /\ staged.wifi = NoNetwork
        /\ bundlePc' = "c8y" /\ UNCHANGED <<stored, rest, staged, field>>
  /\ UNCHANGED <<c8y, client, whole, before, otp>>

\* c8y_commit(): prov_c8y_store() writes one field after the other, passes
\* over empty ones and gives up at the first it cannot write.
CommitField ==
  /\ bundlePc = "c8y" /\ field <= Len(Fields)
  /\ LET f == Fields[field] IN
       \/ /\ staged.c8y[f] = NoIssue
          /\ field' = field + 1 /\ UNCHANGED <<c8y, otp, bundlePc, rest, staged>>
       \/ /\ staged.c8y[f] # NoIssue
          /\ c8y' = [c8y EXCEPT ![f] = staged.c8y[f]]
          /\ otp' = IF f = "otp" THEN "fresh" ELSE otp
          /\ field' = field + 1 /\ UNCHANGED <<bundlePc, rest, staged>>
       \/ /\ staged.c8y[f] # NoIssue /\ "write" \in Faults
          /\ Refuse /\ UNCHANGED <<c8y, otp>>
  /\ UNCHANGED <<stored, client, whole, before>>

Committed ==
  /\ bundlePc = "c8y" /\ field > Len(Fields)
  /\ bundlePc' = "applied" /\ staged' = NothingStaged /\ field' = 1
  /\ UNCHANGED <<stored, rest, c8y, client, whole, before, otp>>

-----------------------------------------------------------------------------
(* The application *)

Goes(pc) == bundlePc' = pc

\* A bundle applied, or a window that ends: the application boots.
Leave ==
  /\ bundlePc \in {"applied", "ready"}
  /\ Goes("boot") /\ whole' = <<>>
  /\ UNCHANGED <<stored, rest, staged, field, c8y, client, before, otp>>

\* prov_c8y_load(): the URL or the password
Load ==
  /\ bundlePc = "boot"
  /\ Goes(IF c8y["url"] # NoIssue \/ c8y["otp"] # NoIssue THEN "give url" ELSE "serve")
  /\ UNCHANGED <<stored, rest, staged, field, c8y, client, whole, before, otp>>

\* prov_c8y_handoff(): what is there is given to the client, which may refuse.
GiveUrl ==
  /\ bundlePc = "give url"
  /\ \/ c8y["url"] = NoIssue /\ Goes("give otp") /\ UNCHANGED client
     \/ /\ c8y["url"] # NoIssue /\ Goes("give otp")
        /\ client' = [client EXCEPT !["url"] = c8y["url"]]
     \/ c8y["url"] # NoIssue /\ Goes("serve") /\ UNCHANGED client
  /\ UNCHANGED <<stored, rest, staged, field, c8y, whole, before, otp>>

\* Fault: what the client refused is deleted like what it accepted.
GiveOtpOnce ==
  /\ bundlePc = "give otp"
  /\ Goes("clear")
  /\ \/ UNCHANGED <<client, otp>>
     \/ /\ c8y["otp"] # NoIssue /\ otp' = "given"
        /\ client' = [client EXCEPT !["otp"] = c8y["otp"]]
  /\ UNCHANGED <<stored, rest, staged, field, c8y, whole, before>>

GiveOtp ==
  /\ bundlePc = "give otp"
  /\ \/ c8y["otp"] = NoIssue /\ Goes("clear") /\ UNCHANGED <<client, otp>>
     \/ /\ c8y["otp"] # NoIssue /\ Goes("clear") /\ otp' = "given"
        /\ client' = [client EXCEPT !["otp"] = c8y["otp"]]
     \/ c8y["otp"] # NoIssue /\ Goes("serve") /\ UNCHANGED <<client, otp>>
  /\ UNCHANGED <<stored, rest, staged, field, c8y, whole, before>>

\* A password that was given, and is still there when something goes wrong.
Exposed == otp' = IF otp = "given" THEN "exposed" ELSE otp

\* Fault: what is cleared ends before the last field.
ClearAllButLast ==
  /\ bundlePc = "clear" /\ field <= Len(Fields)
  /\ field' = field + 1
  /\ c8y' = IF Fields[field] \in {"url", "tenant"}
            THEN [c8y EXCEPT ![Fields[field]] = NoIssue] ELSE c8y
  /\ UNCHANGED <<stored, bundlePc, rest, staged, client, whole, before, otp>>

\* prov_c8y_clear(): all but the external ID, and results are ignored.
ClearField ==
  /\ bundlePc = "clear" /\ field <= Len(Fields)
  /\ field' = field + 1
  /\ \/ /\ Fields[field] # "external_id" /\ UNCHANGED otp
        /\ c8y' = [c8y EXCEPT ![Fields[field]] = NoIssue]
     \/ Fields[field] = "external_id" /\ UNCHANGED <<c8y, otp>>
     \/ /\ Fields[field] # "external_id" /\ "delete" \in Faults
        /\ UNCHANGED c8y
        /\ IF Fields[field] = "otp" THEN Exposed ELSE UNCHANGED otp
  /\ UNCHANGED <<stored, bundlePc, rest, staged, client, whole, before>>

Cleared ==
  /\ bundlePc = "clear" /\ field > Len(Fields)
  /\ Goes("serve") /\ field' = 1
  /\ UNCHANGED <<stored, rest, staged, c8y, client, whole, before, otp>>

\* A reset of the application, or an operator's request for the provisioner.
Reboot ==
  /\ bundlePc = "serve"
  /\ Goes("boot") \/ Goes("ready")
  /\ UNCHANGED <<stored, rest, staged, field, c8y, client, whole, before, otp>>

\* A power cut: the image that runs starts again (BootHandoff).
PowerCut ==
  /\ "cut" \in Faults
  /\ IF bundlePc \in {"ready", "stage", "wifi", "c8y", "applied"}
     THEN Goes("ready") ELSE Goes("boot")
  /\ rest' = <<>> /\ staged' = NothingStaged /\ field' = 1
  /\ Exposed
  /\ UNCHANGED <<stored, c8y, client, whole, before>>

BundleNext ==
  \/ \E b \in Bundles : ReceiveBundle(b)
  \/ Stage \/ Staged \/ CommitWifi \/ CommitField \/ Committed
  \/ Leave \/ Load \/ GiveUrl \/ GiveOtp \/ ClearField \/ Cleared \/ Reboot
  \/ PowerCut

\* Bundles one after the other, on a device with any network.
BundleSpec == BundleInit /\ StoreOK /\ [][BundleNext]_<<stored, bundleVars>>

-----------------------------------------------------------------------------
(* Properties *)

InProvisioner == bundlePc \in {"ready", "stage", "wifi", "c8y", "applied"}

\* The network a bundle asks for: of its last Wi-Fi module, the first of those
\* with the highest priority.
Wanted(b) ==
  LET wifis == {i \in 1 .. Len(b) : b[i].type = "wifi"}
      last == CHOOSE i \in wifis : \A j \in wifis : j <= i
      named == {i \in 1 .. Len(b[last].networks) : b[last].networks[i].net # NoNetwork}
      first == CHOOSE i \in named : \A j \in named :
                 \/ b[last].networks[j].priority < b[last].networks[i].priority
                 \/ /\ b[last].networks[j].priority = b[last].networks[i].priority
                    /\ i <= j
  IN  IF wifis = {} \/ named = {} THEN NoNetwork ELSE b[last].networks[first].net

(* Cloud settings are kept only for a device that has the network they came
   with: whatever fails, and wherever the power goes, a bundle never leaves a
   tenant without the network the same bundle asked for. *)
TenantNeedsNetwork ==
  InProvisioner /\ c8y # before.c8y /\ Wanted(whole) # NoNetwork =>
    stored = Wanted(whole)

(* One module that does not open, or cannot be used, and nothing of its bundle
   is applied, not even the modules before it. *)
BadBundleChangesNothing ==
  InProvisioner /\ (\E i \in 1 .. Len(whole) : Rejects(whole[i])) =>
    stored = before.stored /\ c8y = before.c8y

(* A one-time password is deleted only when the client has it: a handoff that
   is refused, or interrupted, is tried again at the next boot. *)
PasswordNotLost ==
  [][c8y["otp"] # NoIssue /\ c8y'["otp"] = NoIssue => client["otp"] = c8y["otp"]]_bundleVars

(* A one-time password is given to the client once.  It is given again only if
   the power went between the client's yes and the end of prov_c8y_clear(), or
   the settings store did not delete it. *)
PasswordGivenOnce ==
  [][GiveOtp /\ otp = "given" => c8y["otp"] = NoIssue]_bundleVars
=============================================================================
