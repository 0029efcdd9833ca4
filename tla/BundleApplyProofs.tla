-------------------------- MODULE BundleApplyProofs --------------------------
(***************************************************************************)
(* Proofs about BundleApply, for any bundles and networks: a bundle with a *)
(* bad module changes nothing, and a one-time password is neither lost nor *)
(* given twice.                                                            *)
(***************************************************************************)
EXTENDS BundleApply, RecursionTheorems, TLAPS

applyVars == <<stored, bundleVars>>

Application == {"boot", "give url", "give otp", "clear", "serve"}

USE DEF memory, bundleVars, applyVars, InProvisioner

-----------------------------------------------------------------------------
(* All or nothing                                                          *)

HasBad == \E i \in 1 .. Len(whole) : Rejects(whole[i])

\* Of the bundle, k modules have been staged, and the rest is to come.
StagedSoFar(k) ==
  /\ Len(rest) + k = Len(whole)
  /\ \A i \in 1 .. k : ~ Rejects(whole[i])
  /\ \A i \in 1 .. Len(rest) : rest[i] = whole[k + i]

\* What is committed has no bad module; one that has was refused.
CommitsGood ==
  /\ HasBad => /\ bundlePc \in {"ready", "stage"}
               /\ stored = before.stored /\ c8y = before.c8y
  /\ bundlePc \in Application => whole = <<>>
  /\ bundlePc \in Application \cup {"ready", "stage", "wifi", "c8y", "applied"}
  /\ bundlePc = "stage" => \E k \in Nat : StagedSoFar(k)
  /\ whole \in Seq(Modules) /\ rest \in Seq(Modules)

\* Whether a bundle has a bad module depends on nothing else.
LEMMA BadKept == (UNCHANGED whole => (HasBad' <=> HasBad)) /\ (whole' = <<>> => ~ HasBad')
BY DEF HasBad, Rejects

LEMMA NoModules == <<>> \in Seq(Modules)
OBVIOUS

LEMMA GoodInitial == BundleInit => CommitsGood
BY DEF BundleInit, CommitsGood, HasBad, Application

\* A bundle comes: nothing of it is staged.
LEMMA GoodReceive ==
  ASSUME CommitsGood, NEW b \in Bundles, ReceiveBundle(b) PROVE CommitsGood'
<1>1. b \in Seq(Modules) /\ whole' = b /\ rest' = b
  BY BundlesAssumption DEF ReceiveBundle
<1>2. StagedSoFar(0)'
  BY <1>1 DEF StagedSoFar
<1>3. QED
  BY <1>1, <1>2 DEF ReceiveBundle, CommitsGood, Application

\* One more module is staged, or the bundle is refused.
LEMMA GoodStage == ASSUME CommitsGood, Stage PROVE CommitsGood'
<1> USE DEF CommitsGood
<1>1. PICK k \in Nat : StagedSoFar(k)
  BY DEF Stage
<1>2. rest # <<>> /\ Head(rest) = rest[1] /\ Head(rest) = whole[k + 1]
  BY <1>1 DEF Stage, StagedSoFar
<1>3. UNCHANGED <<stored, c8y, whole, before>>
  BY DEF Stage
<1>4. CASE Stages(Head(rest)) /\ rest' = Tail(rest) /\ UNCHANGED <<bundlePc, field>>
  <2>1. ~ Rejects(Head(rest))
    BY <1>4 DEF Stages, Rejects
  <2>2. Len(rest') + (k + 1) = Len(whole) /\ rest' \in Seq(Modules)
    BY <1>1, <1>2, <1>4 DEF StagedSoFar
  <2>3. \A i \in 1 .. k + 1 : ~ Rejects(whole[i])
    BY <1>1, <1>2, <2>1 DEF StagedSoFar
  <2>4. \A i \in 1 .. Len(rest') : rest'[i] = whole[(k + 1) + i]
    BY <1>1, <1>2, <1>4 DEF StagedSoFar
  <2>5. StagedSoFar(k + 1)'
    BY <1>3, <2>2, <2>3, <2>4 DEF StagedSoFar, Rejects
  <2>6. QED
    BY <1>3, <1>4, <2>2, <2>5 DEF Stage, HasBad, Rejects, Application
<1>5. CASE Rejects(Head(rest)) /\ Refuse
  BY <1>3, <1>5 DEF Stage, Refuse, HasBad, Rejects, Application
<1>6. QED
  BY <1>4, <1>5 DEF Stage

\* All are staged: none was bad.
LEMMA GoodStaged == ASSUME CommitsGood, Staged PROVE CommitsGood'
<1> USE DEF CommitsGood
<1>1. PICK k \in Nat : StagedSoFar(k)
  BY DEF Staged
<1>2. ~ HasBad
  BY <1>1 DEF Staged, StagedSoFar, HasBad
<1>3. UNCHANGED whole /\ rest' \in Seq(Modules) /\ bundlePc' \in {"ready", "wifi"}
  BY DEF Staged, Refuse
<1>4. QED
  BY <1>2, <1>3 DEF HasBad, Rejects, Application

\* The rest happens without a bad module in hand.
LEMMA GoodRest ==
  ASSUME CommitsGood,
         \/ CommitWifi \/ CommitField \/ Committed \/ Leave \/ Load \/ GiveUrl \/ GiveOtp
         \/ ClearField \/ Cleared \/ Reboot \/ PowerCut
  PROVE  CommitsGood'
<1> USE BadKept DEF CommitsGood, Goes, Application
<1>1. CASE CommitWifi \/ CommitField \/ Committed
  <2>1. ~ HasBad /\ UNCHANGED whole
    BY <1>1 DEF CommitWifi, CommitField, Committed
  <2>2. bundlePc' \in {"ready", "wifi", "c8y", "applied"} /\ rest' \in Seq(Modules)
    BY <1>1, NoModules DEF CommitWifi, CommitField, Committed, Refuse
  <2>3. QED
    BY <2>1, <2>2
<1>2. CASE Leave
  <2>1. whole' = <<>> /\ bundlePc' = "boot" /\ UNCHANGED rest
    BY <1>2 DEF Leave
  <2>2. whole' \in Seq(Modules)
    BY <2>1, NoModules
  <2>3. QED
    BY <2>1, <2>2
<1>3. CASE Load \/ GiveUrl \/ GiveOtp
  BY <1>3 DEF Load, GiveUrl, GiveOtp
<1>4. CASE ClearField \/ Cleared \/ Reboot
  BY <1>4 DEF ClearField, Cleared, Reboot
<1>5. CASE PowerCut
  <2>1. UNCHANGED <<stored, c8y, whole, before>> /\ rest' = <<>>
    BY <1>5 DEF PowerCut
  <2>2. rest' \in Seq(Modules)
    BY <2>1, NoModules
  <2>3. CASE bundlePc \in {"ready", "stage", "wifi", "c8y", "applied"}
    BY <1>5, <2>1, <2>2, <2>3 DEF PowerCut
  <2>4. CASE bundlePc \notin {"ready", "stage", "wifi", "c8y", "applied"}
    BY <1>5, <2>1, <2>2, <2>4 DEF PowerCut
  <2>5. QED
    BY <2>3, <2>4
<1>6. QED
  BY <1>1, <1>2, <1>3, <1>4, <1>5

(* Whatever the modules before it, and whatever fails or is cut: a module that
   does not open or cannot be used leaves both stores as they were. *)
THEOREM AllOrNothing == BundleSpec => []BadBundleChangesNothing
<1>1. CommitsGood /\ [BundleNext]_applyVars => CommitsGood'
  <2> SUFFICES ASSUME CommitsGood, [BundleNext]_applyVars PROVE CommitsGood'
    OBVIOUS
  <2>1. CASE UNCHANGED applyVars
    BY <2>1 DEF CommitsGood, HasBad, Rejects, StagedSoFar, Application
  <2>2. CASE BundleNext
    BY <2>2, GoodReceive, GoodStage, GoodStaged, GoodRest DEF BundleNext
  <2>3. QED
    BY <2>1, <2>2
<1>2. CommitsGood => BadBundleChangesNothing
  BY DEF CommitsGood, HasBad, BadBundleChangesNothing
<1>3. QED
  BY <1>1, <1>2, GoodInitial, PTL DEF BundleSpec

-----------------------------------------------------------------------------
(* The network of a bundle                                                 *)

Sections == [net : Networks \cup {NoNetwork}, priority : Nat]
NoSection == [net |-> NoNetwork, priority |-> 0]

\* What wifi_close_section() makes of the best section so far and the i-th.
Closed(networks, i, best) ==
  IF /\ networks[i].net # NoNetwork
     /\ best.net = NoNetwork \/ networks[i].priority > best.priority
  THEN networks[i] ELSE best

Beats(networks, i, j) ==
  \/ networks[j].priority < networks[i].priority
  \/ networks[j].priority = networks[i].priority /\ i <= j

NamedIn(networks) == {i \in 1 .. Len(networks) : networks[i].net # NoNetwork}

\* v is the first section of the highest priority of the first n, if any.
Chosen(networks, n, v) ==
  \/ v = NoSection /\ \A i \in 1 .. n : networks[i].net = NoNetwork
  \/ \E i \in 1 .. n :
       /\ v = networks[i] /\ networks[i].net # NoNetwork
       /\ \A j \in 1 .. n : networks[j].net # NoNetwork => Beats(networks, i, j)

LEMMA NoSectionIs == NoSection \in Sections /\ NoSection.net = NoNetwork
BY DEF NoSection, Sections

\* Best() is the end of a recursion that every list has.
LEMMA BestFollows ==
  ASSUME NEW networks \in Seq(Sections)
  PROVE  \E f : /\ Best(networks) = f[Len(networks)].net
                /\ f[0] = NoSection
                /\ \A i \in 1 .. Len(networks) : f[i] = Closed(networks, i, f[i - 1])
<1> DEFINE N == Len(networks)
           IsBetter(f) == f = [i \in 0 .. N |->
                            IF i = 0 THEN [net |-> NoNetwork, priority |-> 0]
                            ELSE LET best == f[i - 1]
                                 IN  IF /\ networks[i].net # NoNetwork
                                        /\ \/ best.net = NoNetwork
                                           \/ networks[i].priority > best.priority
                                     THEN networks[i] ELSE best]
           step == [i \in 1 .. N |-> [best \in Sections |-> Closed(networks, i, best)]]
           better == CHOOSE f : IsBetter(f)
<1>1. Best(networks) = better[N].net
  BY Zenon DEF Best
<1>2. N \in Nat
  OBVIOUS
<1>3. step \in [1 .. N -> [Sections -> Sections]]
  <2>1. ASSUME NEW i \in 1 .. N, NEW best \in Sections PROVE Closed(networks, i, best) \in Sections
    BY DEF Closed
  <2>2. QED
    BY <2>1
<1>4. PICK f \in [0 .. N -> Sections] : Follows(f, NoSection, step, N)
  <2> HIDE DEF step, N
  <2>1. QED
    BY <1>2, <1>3, NoSectionIs, Recursion
<1>5. f[0] = NoSection /\ \A i \in 1 .. N : f[i] = Closed(networks, i, f[i - 1])
  <2>1. ASSUME NEW i \in 1 .. N PROVE f[i - 1] \in Sections
    BY <1>2
  <2>2. QED
    BY <1>4, <2>1 DEF Follows
<1>6. IsBetter(f)
  <2>1. f = [i \in 0 .. N |-> f[i]]
    OBVIOUS
  <2>2. ASSUME NEW i \in 0 .. N PROVE i = 0 \/ i \in 1 .. N
    BY <1>2
  <2>3. QED
    BY <1>5, <2>1, <2>2 DEF Closed, NoSection
<1>7. IsBetter(better)
  <2> HIDE DEF IsBetter
  <2>1. QED
    BY <1>6
<1>8. better[0] = NoSection
  <2>1. 0 \in 0 .. N
    BY <1>2
  <2> HIDE DEF better
  <2>2. QED
    BY <1>7, <2>1 DEF NoSection
<1>9. ASSUME NEW i \in 1 .. N PROVE better[i] = Closed(networks, i, better[i - 1])
  <2>1. i \in 0 .. N /\ i # 0
    BY <1>2
  <2> HIDE DEF better
  <2>2. QED
    BY <1>7, <2>1 DEF Closed
<1> HIDE DEF better
<1>10. QED
  BY <1>1, <1>8, <1>9

LEMMA ChosenOn ==
  ASSUME NEW networks \in Seq(Sections), NEW n \in Nat, n + 1 <= Len(networks),
         NEW v, Chosen(networks, n, v)
  PROVE  Chosen(networks, n + 1, Closed(networks, n + 1, v))
<1>1. \A i \in 1 .. n + 1 : networks[i] \in Sections
  OBVIOUS
<1>2. \A i \in 1 .. n + 1 : i = n + 1 \/ i \in 1 .. n
  OBVIOUS
<1>3. NoSection.net = NoNetwork
  BY NoSectionIs
<1>4. QED
  BY <1>1, <1>2, <1>3 DEF Chosen, Closed, Beats, Sections

THEOREM BestIsFirst ==
  ASSUME NEW networks \in Seq(Sections)
  PROVE  \E v : Best(networks) = v.net /\ Chosen(networks, Len(networks), v)
<1>1. PICK f : /\ Best(networks) = f[Len(networks)].net
               /\ f[0] = NoSection
               /\ \A i \in 1 .. Len(networks) : f[i] = Closed(networks, i, f[i - 1])
  BY BestFollows
<1> DEFINE S == {n \in Nat : n <= Len(networks) => Chosen(networks, n, f[n])}
<1>2. Len(networks) \in Nat
  OBVIOUS
<1>3. 0 \in S
  BY <1>1 DEF Chosen
<1>4. ASSUME NEW n \in Nat, n \in S PROVE n + 1 \in S
  <2>1. SUFFICES ASSUME n + 1 <= Len(networks)
                 PROVE  Chosen(networks, n + 1, f[n + 1])
    OBVIOUS
  <2>2. Chosen(networks, n, f[n])
    BY <1>4, <2>1
  <2>3. f[n + 1] = Closed(networks, n + 1, f[n])
    BY <1>1, <2>1
  <2>4. QED
    BY <2>1, <2>2, <2>3, ChosenOn
<1> HIDE DEF S
<1>5. Nat \subseteq S
  BY <1>3, <1>4, SetInduction
<1>6. Chosen(networks, Len(networks), f[Len(networks)])
  BY <1>2, <1>5 DEF S
<1>7. QED
  BY <1>1, <1>6

LEMMA BestTyped ==
  ASSUME NEW m \in Modules PROVE Best(m.networks) \in Networks \cup {NoNetwork}
<1>1. m.networks \in Seq(Sections)
  BY DEF Modules, Sections
<1>2. PICK v : Best(m.networks) = v.net /\ Chosen(m.networks, Len(m.networks), v)
  BY <1>1, BestIsFirst
<1>3. v \in Sections
  BY <1>1, <1>2, NoSectionIs DEF Chosen
<1>4. QED
  BY <1>2, <1>3 DEF Sections

\* Of the first k modules of a bundle, the last with networks asks for n.
LastWifi(b, k, n) ==
  \/ n = NoNetwork /\ \A i \in 1 .. k : b[i].type # "wifi"
  \/ \E i \in 1 .. k : /\ b[i].type = "wifi" /\ n = Best(b[i].networks)
                       /\ \A j \in 1 .. k : b[j].type = "wifi" => j <= i

(* What is staged when all modules are is what the bundle asks for: the
   sections' loop, which keeps the best so far, ends with the first section of
   the highest priority, and a later module with networks replaces an earlier. *)
THEOREM StagedIsWanted ==
  ASSUME NEW b \in Seq(Modules), NEW n, LastWifi(b, Len(b), n)
  PROVE  n = Wanted(b)
<1> DEFINE wifis == {i \in 1 .. Len(b) : b[i].type = "wifi"}
           last == CHOOSE i \in wifis : \A j \in wifis : j <= i
           list == b[last].networks
           named == {i \in 1 .. Len(list) : list[i].net # NoNetwork}
           first == CHOOSE i \in named : \A j \in named : Beats(list, i, j)
<1>1. Wanted(b) = IF wifis = {} \/ named = {} THEN NoNetwork ELSE list[first].net
  BY Zenon DEF Wanted, Beats
<1>2. CASE wifis = {}
  BY <1>1, <1>2 DEF LastWifi
<1>3. CASE wifis # {}
  <2>1. PICK i \in 1 .. Len(b) :
          /\ b[i].type = "wifi" /\ n = Best(b[i].networks)
          /\ \A j \in 1 .. Len(b) : b[j].type = "wifi" => j <= i
    BY <1>3 DEF LastWifi
  <2>2. last = i
    <3>1. i \in wifis /\ \A j \in wifis : j <= i
      BY <2>1
    <3>2. ASSUME NEW k \in wifis, \A j \in wifis : j <= k PROVE k = i
      BY <3>1, <3>2
    <3> HIDE DEF wifis
    <3>3. QED
      BY <3>1, <3>2
  <2>3. list \in Seq(Sections) /\ n = Best(list)
    <3>1. b[i] \in Modules
      OBVIOUS
    <3>2. b[i].networks \in Seq(Sections)
      BY <3>1 DEF Modules, Sections
    <3> HIDE DEF last
    <3>3. QED
      BY <2>1, <2>2, <3>2
  <2> HIDE DEF list
  <2>4. PICK v : n = v.net /\ Chosen(list, Len(list), v)
    BY <2>3, BestIsFirst
  <2>5. CASE named = {}
    BY <1>1, <2>4, <2>5, NoSectionIs DEF Chosen
  <2>6. CASE named # {}
    <3>1. PICK k \in named : v = list[k] /\ \A j \in named : Beats(list, k, j)
      BY <2>4, <2>6 DEF Chosen
    <3>2. ASSUME NEW l \in named, \A j \in named : Beats(list, l, j) PROVE l = k
      <4>1. Beats(list, k, l) /\ Beats(list, l, k)
        BY <3>1, <3>2
      <4>2. list[k].priority \in Nat /\ list[l].priority \in Nat /\ k \in Nat /\ l \in Nat
        <5>1. k \in 1 .. Len(list) /\ l \in 1 .. Len(list)
          OBVIOUS
        <5> HIDE DEF named
        <5>2. list[k] \in Sections /\ list[l] \in Sections
          BY <2>3, <5>1
        <5>3. QED
          BY <5>1, <5>2 DEF Sections
      <4>3. QED
        BY <4>1, <4>2 DEF Beats
    <3>3. first = k
      <4> HIDE DEF named
      <4>1. QED
        BY <3>1, <3>2
    <3>4. QED
      BY <1>1, <1>3, <2>4, <2>6, <3>1, <3>3
  <2>7. QED
    BY <2>5, <2>6
<1>4. QED
  BY <1>2, <1>3

-----------------------------------------------------------------------------
(* The one-time password                                                   *)

\* The fields, which no step takes or adds.
Shape ==
  /\ c8y = [f \in FieldNames |-> c8y[f]]
  /\ client = [f \in {"url", "otp"} |-> client[f]]

\* A loop over the fields begins with the first.
FirstField ==
  /\ field \in 1 .. 5
  /\ bundlePc \notin {"c8y", "clear"} => field = 1

\* Where the password is: deleted only when the client has it, and once it has,
\* on the way to be deleted.
Handed ==
  /\ bundlePc = "clear" => c8y["otp"] \in {NoIssue, client["otp"]}
  /\ otp = "given" => c8y["otp"] = NoIssue \/ (bundlePc = "clear" /\ field <= 4)

PasswordInv == Shape /\ FirstField /\ Handed

LEMMA FieldsAre ==
  /\ Len(Fields) = 4 /\ FieldNames = {"url", "tenant", "external_id", "otp"}
  /\ Fields[1] = "url" /\ Fields[2] = "tenant" /\ Fields[3] = "external_id"
  /\ Fields[4] = "otp"
BY DEF Fields, FieldNames

LEMMA PasswordInitial == BundleInit => PasswordInv
BY FieldsAre DEF BundleInit, PasswordInv, Shape, FirstField, Handed, Empty4

LEMMA ShapeStep == ASSUME PasswordInv, BundleNext PROVE Shape'
<1> USE DEF PasswordInv, Shape, Goes
<1>1. ASSUME NEW b \in Bundles, ReceiveBundle(b) PROVE Shape'
  BY <1>1 DEF ReceiveBundle
<1>2. CASE Stage \/ Staged
  BY <1>2 DEF Stage, Staged, Refuse
<1>3. CASE CommitWifi
  BY <1>3 DEF CommitWifi, Refuse
<1>4. CASE CommitField
  BY <1>4 DEF CommitField, Refuse
<1>5. CASE Committed \/ Leave \/ Load \/ Cleared \/ Reboot
  <2>1. CASE Committed \/ Leave
    BY <2>1 DEF Committed, Leave
  <2>2. CASE Load
    BY <2>2 DEF Load
  <2>3. CASE Cleared
    BY <2>3 DEF Cleared
  <2>4. CASE Reboot
    BY <2>4 DEF Reboot
  <2>5. QED
    BY <1>5, <2>1, <2>2, <2>3, <2>4
<1>6. CASE GiveUrl
  BY <1>6 DEF GiveUrl
<1>7. CASE GiveOtp
  BY <1>7 DEF GiveOtp
<1>8. CASE ClearField
  BY <1>8 DEF ClearField, Exposed
<1>9. CASE PowerCut
  BY <1>9 DEF PowerCut, Exposed
<1>10. QED
  BY <1>1, <1>2, <1>3, <1>4, <1>5, <1>6, <1>7, <1>8, <1>9 DEF BundleNext

LEMMA FieldStep == ASSUME PasswordInv, BundleNext PROVE FirstField'
<1> USE FieldsAre DEF PasswordInv, FirstField, Goes
<1>1. ASSUME NEW b \in Bundles, ReceiveBundle(b) PROVE FirstField'
  BY <1>1 DEF ReceiveBundle
<1>2. CASE Stage \/ Staged
  BY <1>2 DEF Stage, Staged, Refuse
<1>3. CASE CommitWifi
  BY <1>3 DEF CommitWifi, Refuse
<1>4. CASE CommitField
  BY <1>4 DEF CommitField, Refuse
<1>5. CASE Committed \/ Leave \/ Load \/ Cleared \/ Reboot
  <2>1. CASE Committed \/ Leave
    BY <2>1 DEF Committed, Leave
  <2>2. CASE Load
    BY <2>2 DEF Load
  <2>3. CASE Cleared
    BY <2>3 DEF Cleared
  <2>4. CASE Reboot
    BY <2>4 DEF Reboot
  <2>5. QED
    BY <1>5, <2>1, <2>2, <2>3, <2>4
<1>6. CASE GiveUrl
  BY <1>6 DEF GiveUrl
<1>7. CASE GiveOtp
  BY <1>7 DEF GiveOtp
<1>8. CASE ClearField
  BY <1>8 DEF ClearField, Exposed
<1>9. CASE PowerCut
  BY <1>9 DEF PowerCut, Exposed
<1>10. QED
  BY <1>1, <1>2, <1>3, <1>4, <1>5, <1>6, <1>7, <1>8, <1>9 DEF BundleNext

LEMMA HandedStep == ASSUME PasswordInv, BundleNext PROVE Handed'
<1> USE FieldsAre DEF PasswordInv, Shape, FirstField, Handed, Goes
<1>1. ASSUME NEW b \in Bundles, ReceiveBundle(b) PROVE Handed'
  BY <1>1 DEF ReceiveBundle
<1>2. CASE Stage \/ Staged
  BY <1>2 DEF Stage, Staged, Refuse
<1>3. CASE CommitWifi
  BY <1>3 DEF CommitWifi, Refuse
<1>4. CASE CommitField
  BY <1>4 DEF CommitField, Refuse
<1>5. CASE Committed \/ Leave \/ Load \/ Cleared \/ Reboot
  <2>1. CASE Committed \/ Leave
    BY <2>1 DEF Committed, Leave
  <2>2. CASE Load
    BY <2>2 DEF Load
  <2>3. CASE Cleared
    BY <2>3 DEF Cleared
  <2>4. CASE Reboot
    BY <2>4 DEF Reboot
  <2>5. QED
    BY <1>5, <2>1, <2>2, <2>3, <2>4
<1>6. CASE GiveUrl
  BY <1>6 DEF GiveUrl
<1>7. CASE GiveOtp
  <2>1. CASE bundlePc' = "clear" /\ c8y["otp"] # NoIssue
    <3>1. client' = [client EXCEPT !["otp"] = c8y["otp"]] /\ UNCHANGED <<c8y, field>>
      BY <1>7, <2>1 DEF GiveOtp
    <3>2. client'["otp"] = c8y'["otp"]
      BY <3>1
    <3>3. field' = 1
      BY <1>7, <3>1 DEF GiveOtp
    <3>4. QED
      BY <2>1, <3>2, <3>3
  <2>2. CASE bundlePc' # "clear" \/ c8y["otp"] = NoIssue
    BY <1>7, <2>2 DEF GiveOtp
  <2>3. QED
    BY <2>1, <2>2
<1>8. CASE ClearField
  BY <1>8 DEF ClearField, Exposed
<1>9. CASE PowerCut
  BY <1>9 DEF PowerCut, Exposed
<1>10. QED
  BY <1>1, <1>2, <1>3, <1>4, <1>5, <1>6, <1>7, <1>8, <1>9 DEF BundleNext

\* The invariant behind both properties of the password
LEMMA PasswordInvariance == BundleSpec => []PasswordInv
<1>1. PasswordInv /\ [BundleNext]_applyVars => PasswordInv'
  BY ShapeStep, FieldStep, HandedStep DEF PasswordInv, Shape, FirstField, Handed
<1>2. QED
  BY <1>1, PasswordInitial, PTL DEF BundleSpec

\* Steps that leave the settings store alone.
LEMMA StoreUntouched ==
  ASSUME BundleNext, ~ CommitField, ~ ClearField PROVE UNCHANGED c8y
BY DEF BundleNext, ReceiveBundle, Stage, Staged, CommitWifi, Committed, Leave, Load, GiveUrl,
       GiveOtp, Cleared, Reboot, PowerCut, Refuse

LEMMA NotLostStep ==
  ASSUME PasswordInv, BundleNext, c8y["otp"] # NoIssue, c8y'["otp"] = NoIssue
  PROVE  client["otp"] = c8y["otp"]
<1>1. CASE CommitField
  BY <1>1, FieldsAre DEF CommitField, PasswordInv, Shape
<1>2. CASE ClearField
  BY <1>2 DEF ClearField, PasswordInv, Handed
<1>3. QED
  BY <1>1, <1>2, StoreUntouched

(* A password is deleted only when the client has it, at any field a handoff or
   a deletion is interrupted. *)
THEOREM PasswordKept == BundleSpec => PasswordNotLost
<1>1. PasswordInv /\ [BundleNext]_applyVars =>
        [c8y["otp"] # NoIssue /\ c8y'["otp"] = NoIssue => client["otp"] = c8y["otp"]]_bundleVars
  BY NotLostStep
<1>2. QED
  BY <1>1, PasswordInvariance, PTL DEF BundleSpec, PasswordNotLost

(* The client is given a password once, unless the power or a deletion fails. *)
THEOREM PasswordOnce == BundleSpec => PasswordGivenOnce
<1>1. PasswordInv /\ [BundleNext]_applyVars =>
        [GiveOtp /\ otp = "given" => c8y["otp"] = NoIssue]_bundleVars
  BY DEF PasswordInv, Handed, GiveOtp
<1>2. QED
  BY <1>1, PasswordInvariance, PTL DEF BundleSpec, PasswordGivenOnce

-----------------------------------------------------------------------------
(* A tenant and its network                                                *)

Asked(n) == n # NoNetwork => stored = n

\* What is staged is what the modules so far ask for; it is committed before
\* any cloud settings, which are those from before until then.
TenantInv ==
  /\ bundlePc = "stage" => \E k \in Nat : StagedSoFar(k) /\ LastWifi(whole, k, staged.wifi)
  /\ bundlePc = "wifi" => LastWifi(whole, Len(whole), staged.wifi)
  /\ bundlePc \in {"stage", "wifi"} => c8y = before.c8y
  /\ bundlePc \in {"c8y", "applied"} => Asked(Wanted(whole))
  /\ TenantNeedsNetwork

BundleInv == CommitsGood /\ BundleTypeOK /\ TenantInv

LEMMA NothingWanted == Wanted(<<>>) = NoNetwork
<1>1. <<>> \in Seq(Modules) /\ LastWifi(<<>>, Len(<<>>), NoNetwork)
  BY DEF LastWifi
<1>2. QED
  BY <1>1, StagedIsWanted

LEMMA TenantInitial == BundleInit => TenantInv
BY DEF BundleInit, TenantInv, TenantNeedsNetwork

LEMMA TenantReceive ==
  ASSUME BundleInv, NEW b \in Bundles, ReceiveBundle(b) PROVE TenantInv'
<1>1. b \in Seq(Modules) /\ whole' = b /\ rest' = b /\ staged' = NothingStaged
  BY BundlesAssumption DEF ReceiveBundle
<1>2. StagedSoFar(0)'
  BY <1>1 DEF StagedSoFar
<1>3. LastWifi(whole', 0, staged'.wifi)
  BY <1>1 DEF LastWifi, NothingStaged
<1>4. bundlePc' = "stage" /\ c8y' = before'.c8y
  BY DEF ReceiveBundle
<1>5. QED
  BY <1>2, <1>3, <1>4 DEF TenantInv, TenantNeedsNetwork

\* One more module is staged.
LEMMA TenantStage == ASSUME BundleInv, Stage PROVE TenantInv'
<1>1. PICK k \in Nat : StagedSoFar(k) /\ LastWifi(whole, k, staged.wifi)
  BY DEF Stage, BundleInv, TenantInv
<1>2. /\ UNCHANGED <<stored, c8y, whole, before>>
      /\ c8y = before.c8y /\ rest \in Seq(Modules)
  BY DEF Stage, BundleInv, TenantInv, CommitsGood
<1> DEFINE m == whole[k + 1]
<1>3. /\ rest # <<>> /\ Head(rest) = m /\ m \in Modules /\ k + 1 <= Len(whole)
      /\ Len(rest) \in Nat /\ Len(whole) \in Nat
  <2>1. rest # <<>> /\ Head(rest) = rest[1] /\ Head(rest) \in Modules
    BY <1>2 DEF Stage
  <2>2. Len(rest) \in Nat /\ Len(rest) >= 1 /\ Len(whole) \in Nat
    BY <1>2, <2>1 DEF BundleInv, CommitsGood
  <2>3. rest[1] = whole[k + 1] /\ Len(rest) + k = Len(whole)
    BY <1>1, <2>2 DEF StagedSoFar
  <2>4. QED
    BY <2>1, <2>2, <2>3
<1>4. CASE Stages(m) /\ rest' = Tail(rest) /\ UNCHANGED <<bundlePc, field>>
  <2>1. StagedSoFar(k + 1)'
    <3>1. ~ Rejects(m)
      BY <1>4 DEF Stages, Rejects
    <3>2. Len(rest') = Len(rest) - 1
      BY <1>2, <1>3, <1>4
    <3>3. \A i \in 1 .. Len(rest') : rest'[i] = rest[i + 1]
      BY <1>2, <1>3, <1>4
    <3>4. ASSUME NEW i \in 1 .. Len(rest') PROVE rest'[i] = whole[(k + 1) + i]
      <4>1. i + 1 \in 1 .. Len(rest) /\ k + (i + 1) = (k + 1) + i
        BY <1>3, <3>2
      <4>2. rest[i + 1] = whole[k + (i + 1)]
        BY <1>1, <4>1 DEF StagedSoFar
      <4>3. QED
        BY <3>3, <4>1, <4>2
    <3>5. \A i \in 1 .. k + 1 : ~ Rejects(whole[i])
      BY <1>1, <3>1 DEF StagedSoFar
    <3>6. Len(rest') + (k + 1) = Len(whole)
      BY <1>1, <1>3, <3>2 DEF StagedSoFar
    <3>7. QED
      BY <1>2, <3>4, <3>5, <3>6 DEF StagedSoFar, Rejects
  <2>2. LastWifi(whole, k + 1, staged'.wifi)
    <3>1. \A i \in 1 .. k + 1 : i = k + 1 \/ i \in 1 .. k
      OBVIOUS
    <3>2. CASE m.type = "wifi"
      <4>1. staged'.wifi = Best(m.networks)
        BY <1>4, <3>2 DEF Stages, BundleInv, BundleTypeOK
      <4>2. QED
        BY <3>2, <4>1 DEF LastWifi
    <3>3. CASE m.type # "wifi"
      <4>1. staged'.wifi = staged.wifi
        BY <1>4, <3>3 DEF Stages, BundleInv, BundleTypeOK
      <4>2. QED
        BY <1>1, <3>1, <3>3, <4>1 DEF LastWifi
    <3>4. QED
      BY <3>2, <3>3
  <2>3. bundlePc' = "stage"
    BY <1>4 DEF Stage
  <2>4. QED
    BY <1>2, <2>1, <2>2, <2>3 DEF TenantInv, TenantNeedsNetwork
<1>5. CASE Rejects(m) /\ Refuse
  BY <1>2, <1>5 DEF Refuse, TenantInv, TenantNeedsNetwork
<1>6. QED
  BY <1>3, <1>4, <1>5 DEF Stage

LEMMA TenantStaged == ASSUME BundleInv, Staged PROVE TenantInv'
<1>1. PICK k \in Nat : StagedSoFar(k) /\ LastWifi(whole, k, staged.wifi)
  BY DEF Staged, BundleInv, TenantInv
<1>2. Len(whole) = k
  BY <1>1 DEF Staged, StagedSoFar
<1>3. UNCHANGED <<stored, c8y, whole, before>> /\ c8y = before.c8y
  BY DEF Staged, BundleInv, TenantInv
<1>4. CASE Refuse
  BY <1>3, <1>4 DEF Refuse, TenantInv, TenantNeedsNetwork
<1>5. CASE bundlePc' = "wifi" /\ UNCHANGED staged
  BY <1>1, <1>2, <1>3, <1>5 DEF TenantInv, TenantNeedsNetwork
<1>6. QED
  BY <1>4, <1>5 DEF Staged

\* The network goes first: it is stored, or the rest of the bundle is refused.
LEMMA TenantCommitWifi == ASSUME BundleInv, CommitWifi PROVE TenantInv'
<1>1. staged.wifi = Wanted(whole)
  BY StagedIsWanted DEF CommitWifi, BundleInv, TenantInv, CommitsGood
<1>2. UNCHANGED <<c8y, whole, before>> /\ c8y = before.c8y
  BY DEF CommitWifi, BundleInv, TenantInv
<1>3. CASE Refuse
  BY <1>2, <1>3 DEF Refuse, TenantInv, TenantNeedsNetwork
<1>4. CASE bundlePc' = "c8y" /\ Asked(Wanted(whole))'
  BY <1>2, <1>4 DEF TenantInv, TenantNeedsNetwork
<1>5. CASE bundlePc' = "c8y" /\ (stored' = staged.wifi \/ staged.wifi = NoNetwork)
  BY <1>1, <1>2, <1>4, <1>5 DEF Asked
<1>6. QED
  BY <1>3, <1>5 DEF CommitWifi, Stores

LEMMA TenantRest ==
  ASSUME BundleInv,
         \/ CommitField \/ Committed \/ Leave \/ Load \/ GiveUrl \/ GiveOtp
         \/ ClearField \/ Cleared \/ Reboot \/ PowerCut
  PROVE  TenantInv'
<1> USE DEF BundleInv, TenantInv, Asked
<1>1. CASE CommitField \/ Committed
  <2>1. UNCHANGED <<stored, whole, before>> /\ Asked(Wanted(whole))
    BY <1>1 DEF CommitField, Committed
  <2>2. bundlePc' \in {"ready", "c8y", "applied"}
    BY <1>1 DEF CommitField, Committed, Refuse
  <2>3. QED
    BY <2>1, <2>2 DEF TenantNeedsNetwork
<1>2. CASE Leave
  BY <1>2 DEF Leave, Goes, TenantNeedsNetwork
<1>3. CASE Load \/ GiveUrl \/ GiveOtp \/ ClearField \/ Cleared \/ Reboot
  <2>1. whole = <<>> /\ UNCHANGED whole
    BY <1>3 DEF Load, GiveUrl, GiveOtp, ClearField, Cleared, Reboot, CommitsGood, Application
  <2>2. bundlePc' \in Application \cup {"ready"}
    BY <1>3 DEF Load, GiveUrl, GiveOtp, ClearField, Cleared, Reboot, Goes, Application
  <2>3. QED
    BY <2>1, <2>2, NothingWanted DEF Application, TenantNeedsNetwork
<1>4. CASE PowerCut
  <2>1. UNCHANGED <<stored, c8y, whole, before>> /\ bundlePc' \in {"ready", "boot"}
        /\ (bundlePc' = "ready" => InProvisioner)
    BY <1>4 DEF PowerCut, Goes
  <2>2. CASE bundlePc' = "boot"
    BY <2>1, <2>2 DEF TenantNeedsNetwork
  <2>3. CASE bundlePc' = "ready"
    BY <2>1, <2>3 DEF TenantNeedsNetwork
  <2>4. QED
    BY <2>1, <2>2, <2>3
<1>5. QED
  BY <1>1, <1>2, <1>3, <1>4

LEMMA NothingTyped == NothingStaged \in [wifi : Networks \cup {NoNetwork}, c8y : Settings]
BY FieldsAre DEF NothingStaged, Empty4, Settings

LEMMA OneTyped == 1 \in 1 .. Len(Fields) + 1
BY FieldsAre

LEMMA RefuseTypes ==
  ASSUME Refuse
  PROVE  /\ bundlePc' = "ready" /\ field' \in 1 .. Len(Fields) + 1
         /\ staged' \in [wifi : Networks \cup {NoNetwork}, c8y : Settings]
BY NothingTyped, FieldsAre DEF Refuse

LEMMA TypesInitial == BundleInit => BundleTypeOK
BY NothingTyped, FieldsAre DEF BundleInit, BundleTypeOK, Empty4, Settings

LEMMA TypesStaging ==
  ASSUME BundleInv, Stage \/ Staged \/ CommitWifi PROVE BundleTypeOK'
<1> USE DEF BundleInv, BundleTypeOK
<1>1. UNCHANGED <<c8y, client, otp>>
  BY DEF Stage, Staged, CommitWifi
<1>2. CASE Refuse
  BY <1>1, <1>2, RefuseTypes
<1>3. CASE \/ Staged /\ ~ Refuse
           \/ CommitWifi /\ ~ Refuse
  BY <1>1, <1>3 DEF Staged, CommitWifi
<1>4. CASE Stage /\ ~ Refuse
  <2>1. Head(rest) \in Modules
    BY <1>4 DEF Stage, CommitsGood
  <2>2. Stages(Head(rest)) /\ UNCHANGED <<bundlePc, field>>
    BY <1>4 DEF Stage
  <2>3. Best(Head(rest).networks) \in Networks \cup {NoNetwork}
        /\ Head(rest).settings \in Settings
    BY <2>1, BestTyped DEF Modules
  <2>4. staged' \in [wifi : Networks \cup {NoNetwork}, c8y : Settings]
    BY <2>2, <2>3 DEF Stages
  <2>5. QED
    BY <1>1, <2>2, <2>4
<1>5. QED
  BY <1>2, <1>3, <1>4

LEMMA TypesCommit ==
  ASSUME BundleInv, CommitField \/ Committed PROVE BundleTypeOK'
<1> USE DEF BundleInv, BundleTypeOK
<1>1. CASE Refuse /\ CommitField
  <2>1. UNCHANGED <<client, c8y, otp>>
    BY <1>1, FieldsAre DEF CommitField, Refuse
  <2>2. QED
    BY <1>1, <2>1, RefuseTypes
<1>2. CASE CommitField /\ ~ Refuse
  <2>1. Fields[field] \in FieldNames /\ field' = field + 1 /\ UNCHANGED <<bundlePc, staged, client>>
    BY <1>2, FieldsAre DEF CommitField
  <2>2. staged.c8y[Fields[field]] \in Issues \cup {NoIssue}
    BY <2>1 DEF Settings
  <2>3. c8y' \in Settings /\ otp' \in {"fresh", "given", "exposed"}
    BY <1>2, <2>2 DEF CommitField, Settings
  <2>4. field' \in 1 .. Len(Fields) + 1
    BY <1>2, <2>1, FieldsAre DEF CommitField
  <2>5. QED
    BY <2>1, <2>3, <2>4
<1>3. CASE Committed
  BY <1>3, NothingTyped, FieldsAre DEF Committed
<1>4. QED
  BY <1>1, <1>2, <1>3

LEMMA TypesApplication ==
  ASSUME BundleInv,
         \/ Leave \/ Load \/ GiveUrl \/ GiveOtp \/ ClearField \/ Cleared \/ Reboot \/ PowerCut
  PROVE  BundleTypeOK'
<1> USE FieldsAre DEF BundleInv, BundleTypeOK, Goes
<1>1. CASE Leave \/ Load \/ Cleared \/ Reboot
  <2>1. CASE Leave \/ Load
    BY <2>1 DEF Leave, Load
  <2>2. CASE Cleared
    BY <2>2 DEF Cleared
  <2>3. CASE Reboot
    BY <2>3 DEF Reboot
  <2>4. QED
    BY <1>1, <2>1, <2>2, <2>3
<1>2. CASE GiveUrl
  <2>1. c8y["url"] \in Issues \cup {NoIssue}
    BY DEF Settings
  <2>2. QED
    BY <1>2, <2>1 DEF GiveUrl
<1>3. CASE GiveOtp
  <2>1. c8y["otp"] \in Issues \cup {NoIssue}
    BY DEF Settings
  <2>2. QED
    BY <1>3, <2>1 DEF GiveOtp
<1>4. CASE ClearField
  <2>1. c8y' \in Settings /\ otp' \in {"fresh", "given", "exposed"}
    BY <1>4 DEF ClearField, Exposed, Settings
  <2>2. QED
    BY <1>4, <2>1 DEF ClearField
<1>5. CASE PowerCut
  <2>1. bundlePc' \in {"ready", "boot"} /\ otp' \in {"fresh", "given", "exposed"}
    BY <1>5 DEF PowerCut, Exposed
  <2>2. staged' = NothingStaged /\ field' = 1 /\ UNCHANGED <<c8y, client>>
    BY <1>5 DEF PowerCut
  <2>3. staged' \in [wifi : Networks \cup {NoNetwork}, c8y : Settings]
    BY <2>2, NothingTyped, Zenon
  <2>4. field' \in 1 .. Len(Fields) + 1
    BY <2>2, OneTyped, Zenon
  <2>5. c8y' \in Settings /\ client' \in [{"url", "otp"} -> Issues \cup {NoIssue}]
    BY <2>2
  <2>6. QED
    BY <2>1, <2>3, <2>4, <2>5
<1>6. QED
  BY <1>1, <1>2, <1>3, <1>4, <1>5

\* Of a bundle only what passed its test is stored.
LEMMA BundleStoresGood ==
  ASSUME BundleNext, stored' # stored PROVE stored' \in Good \cup {NoNetwork}
BY DEF BundleNext, ReceiveBundle, Stage, Staged, CommitWifi, CommitField, Committed, Leave, Load,
       GiveUrl, GiveOtp, ClearField, Cleared, Reboot, PowerCut, Stores, StoreFails

LEMMA BundleInitial == BundleInit => BundleInv
BY GoodInitial, TypesInitial, TenantInitial DEF BundleInv

LEMMA BundleStep == ASSUME BundleInv, BundleNext PROVE BundleInv'
<1>1. ASSUME NEW b \in Bundles, ReceiveBundle(b) PROVE BundleInv'
  <2>1. BundleTypeOK'
    BY <1>1, NothingTyped DEF ReceiveBundle, BundleInv, BundleTypeOK
  <2>2. QED
    BY <1>1, <2>1, GoodReceive, TenantReceive DEF BundleInv
<1>2. CASE Stage
  BY <1>2, GoodStage, TypesStaging, TenantStage DEF BundleInv
<1>3. CASE Staged
  BY <1>3, GoodStaged, TypesStaging, TenantStaged DEF BundleInv
<1>4. CASE CommitWifi
  BY <1>4, GoodRest, TypesStaging, TenantCommitWifi DEF BundleInv
<1>5. CASE CommitField \/ Committed
  BY <1>5, GoodRest, TypesCommit, TenantRest DEF BundleInv
<1>6. CASE Leave \/ Load \/ GiveUrl \/ GiveOtp \/ ClearField \/ Cleared \/ Reboot \/ PowerCut
  BY <1>6, GoodRest, TypesApplication, TenantRest DEF BundleInv
<1>7. QED
  BY <1>1, <1>2, <1>3, <1>4, <1>5, <1>6 DEF BundleNext

\* A step that is not a bundle's, and leaves its store alone.
LEMMA BundleStutters == ASSUME BundleInv, UNCHANGED applyVars PROVE BundleInv'
<1>1. CommitsGood'
  BY DEF BundleInv, CommitsGood, HasBad, Rejects, StagedSoFar, Application
<1>2. BundleTypeOK'
  BY DEF BundleInv, BundleTypeOK
<1>3. TenantInv'
  BY DEF BundleInv, TenantInv, Asked, StagedSoFar, TenantNeedsNetwork
<1>4. QED
  BY <1>1, <1>2, <1>3 DEF BundleInv

LEMMA BundleInvariance == BundleSpec => []BundleInv
<1>1. BundleInv /\ [BundleNext]_applyVars => BundleInv'
  BY BundleStep, BundleStutters
<1>2. QED
  BY <1>1, BundleInitial, PTL DEF BundleSpec

(* Whatever fails, and wherever the power goes: no cloud settings of a bundle
   are kept without the network that the same bundle asked for. *)
THEOREM TenantHasNetwork == BundleSpec => []TenantNeedsNetwork
<1>1. BundleInv => TenantNeedsNetwork
  BY DEF BundleInv, TenantInv
<1>2. QED
  BY <1>1, BundleInvariance, PTL

(* Type correctness of the appliers and of the handoff. *)
THEOREM BundleTypes == BundleSpec => []BundleTypeOK
<1>1. BundleInv => BundleTypeOK
  BY DEF BundleInv
<1>2. QED
  BY <1>1, BundleInvariance, PTL
=============================================================================
