-------------------------- MODULE MCMonitorRegistry --------------------------
(* Connection a has a channel that carries two monitors; connection b has a   *)
(* channel with one.  The small instance has one monitor on each.             *)
EXTENDS MonitorRegistry, TLC

CONSTANTS s1, s2, s3

MCConns == {"a", "b"}
MCChannels == {"x", "y"}
MCRecreated == {"x"}
MCConnOf == ("x" :> "a") @@ ("y" :> "b")

MCSubs == {s1, s2, s3}
MCChannelOf == (s1 :> "x") @@ (s2 :> "x") @@ (s3 :> "y")

SmallSubs == {s1, s3}
SmallChannelOf == (s1 :> "x") @@ (s3 :> "y")

\* The two monitors of channel x are alike.
SubSymmetry == Permutations({s1, s2})
=============================================================================
