------------------------- MODULE MCPluginRegistration -------------------------
(* PluginRegistration with three processes that have different plugins.    *)
EXTENDS PluginRegistration, TLC

CONSTANTS p1, p2, p3, email, webhook, slack

MCProcesses == {p1, p2, p3}
MCTypes == {email, webhook, slack}
MCEnabled == p1 :> {email, webhook, slack} @@ p2 :> {slack} @@ p3 :> {email}
=============================================================================
