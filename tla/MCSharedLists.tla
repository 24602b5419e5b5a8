---------------------------- MODULE MCSharedLists ----------------------------
(* Two sets of lists that independent tasks edit under short locks: the IOC's *)
(* scan lists, and the channel tables of a server connection.  A behaviour    *)
(* exercises one of them, chosen in its initial state.                        *)
EXTENDS MCScanEngine, MCChannelTables

VARIABLE part   \* the component this behaviour exercises
listsVars == <<vars, tablesVars, part>>

ListsInit == part \in {"scan", "tables"} /\ Init /\ TablesInit
ListsNext ==
  \/ part = "scan" /\ Next /\ UNCHANGED <<tablesVars, part>>
  \/ part = "tables" /\ TablesNext /\ UNCHANGED <<vars, part>>
ListsSpec == ListsInit /\ [][ListsNext]_listsVars
=============================================================================
