-------------------------- MODULE MCGatewayMonitor --------------------------
(* Three subscriptions, under one downstream name or two.                     *)
EXTENDS GatewayMonitor, TLC

CONSTANTS s1, s2, s3

MCSubs == {s1, s2, s3}
OneName == {"pv"}
AllOne == [s \in MCSubs |-> "pv"]
TwoNames == {"pv", "alias"}
Aliased == (s1 :> "pv") @@ (s2 :> "pv") @@ (s3 :> "alias")
=============================================================================
