--------------------------- MODULE MCChannelTables ---------------------------
(* One connection with two cids and two request ids, on one PV or two.      *)
EXTENDS ChannelTables, TLC

CONSTANTS i1, i2, x, y

MCCids == {0, 5}
MCIoids == {i1, i2}
OneDying == {1}
OnePV == {x}
TwoPVs == {x, y}
=============================================================================
