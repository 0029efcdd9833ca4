---------------------------- MODULE MCProvisioner ----------------------------
(***************************************************************************)
(* The provisioner image for TLC.  Three networks, of which one does not   *)
(* let the device in; for ZTP, bundles with networks of equal and          *)
(* different priority, two issues of cloud settings with and without a     *)
(* password, and modules that are unknown or bad.                          *)
(***************************************************************************)
EXTENDS ProvisionerImage

CONSTANTS home, depot, wrong, issue1, issue2

MCNetworks == {home, depot, wrong}
MCGood == {home, depot}
MCIssues == {issue1, issue2}

Section(n, p) == [net |-> n, priority |-> p]
Wifi(networks) == [type |-> "wifi", networks |-> networks, settings |-> Empty4]
C8y(issue, fields) ==
  [type |-> "c8y", networks |-> <<>>,
   settings |-> [f \in FieldNames |-> IF f \in fields THEN issue ELSE NoIssue]]
Other(type) == [type |-> type, networks |-> <<>>, settings |-> Empty4]

MCBundles ==
  { <<Wifi(<<Section(home, 1), Section(depot, 1)>>), C8y(issue1, FieldNames)>>,
    <<C8y(issue2, {"url", "tenant"}), Other("unknown"),
      Wifi(<<Section(home, 0), Section(depot, 2)>>)>>,
    <<Wifi(<<Section(wrong, 0)>>), C8y(issue2, {"url", "otp"})>>,
    <<C8y(issue1, FieldNames), Other("bad")>>,
    <<Wifi(<<Section(depot, 0)>>), C8y(issue1, {"otp"})>>,
    <<C8y(issue2, {"url", "otp"})>>,
    <<Wifi(<<Section(NoNetwork, 0)>>), Other("unknown")>>,
    <<Other("unknown")>> }
=============================================================================
