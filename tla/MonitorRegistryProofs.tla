-------------------------- MODULE MonitorRegistryProofs --------------------------
(***************************************************************************)
(* Proofs about MonitorRegistry, for any number of connections, channels,  *)
(* subscriptions and pump generations: its types, and who works on what.   *)
(***************************************************************************)
EXTENDS MonitorRegistry, TLAPS

\* A connection task works on its own requests, and cleans up after itself.
OwnerInv ==
  /\ \A c \in Conns : handler[c].pc \in Busy => Owner(handler[c].sub) = c
  /\ \A s \in monitors : handler[Owner(s)].pc \notin Left \ {"dropped"}

(***************************************************************************)
(* Every step keeps the types (the bookkeeping under all that follows).    *)
(***************************************************************************)
LEMMA TypeStep == TypeOK /\ [Next]_vars => TypeOK'
<1> SUFFICES ASSUME TypeOK, [Next]_vars PROVE TypeOK'
  OBVIOUS
<1> USE RegistryAssumption DEF TypeOK, vars, pumpVars, connVars, tableVars, TaskPcs, HandlerPcs, Owner, Pumps, PumpHandle, Goto, At, Busy, NoSub
<1>1. ASSUME NEW s \in Subs, InitLookup(s) PROVE TypeOK'
  BY <1>1 DEF InitLookup
<1>2. ASSUME NEW s \in Subs, DestroyRequest(s) PROVE TypeOK'
  BY <1>2 DEF DestroyRequest, BeginRemove
<1>3. ASSUME NEW s \in Subs, MonitorDestroy(s) PROVE TypeOK'
  BY <1>3 DEF MonitorDestroy, BeginRemove
<1>4. ASSUME NEW ch \in Channels, DestroyChannel(ch) PROVE TypeOK'
  BY <1>4 DEF DestroyChannel, CloseChannel
<1>5. ASSUME NEW c \in Conns, InitBind(c) PROVE TypeOK'
  BY <1>5 DEF InitBind
<1>6. ASSUME NEW c \in Conns, InitPush(c) PROVE TypeOK'
  BY <1>6 DEF InitPush
<1>7. ASSUME NEW c \in Conns, InitSubscribe(c) PROVE TypeOK'
  BY <1>7 DEF InitSubscribe
<1>8. ASSUME NEW c \in Conns, InitNoStream(c) PROVE TypeOK'
  BY <1>8 DEF InitNoStream
<1>9. ASSUME NEW c \in Conns, KeepPump(c) PROVE TypeOK'
  BY <1>9 DEF KeepPump, LivePump
<1>10. ASSUME NEW c \in Conns, SpawnPump(c) PROVE TypeOK'
  <2>1. pumps' \in PumpHandle /\ seq' \in Pumps
    BY <1>10 DEF SpawnPump, NextId, LivePump
  <2>2. signalled' \subseteq Pumps
    BY Zenon, <1>10 DEF SpawnPump
  <2>3. task' \in [Pumps -> TaskPcs] /\ seq' \in 0 .. MaxPumps
    BY <1>10, <2>1 DEF SpawnPump
  <2>4. /\ handler' \in [Conns -> [pc : HandlerPcs, sub : Subs \union {NoSub}]]
        /\ \A d \in Conns : handler'[d].pc \in Busy <=> handler'[d].sub \in Subs
    BY <1>10 DEF SpawnPump
  <2> QED
    BY <1>10, <2>1, <2>2, <2>3, <2>4 DEF SpawnPump
<1>11. ASSUME NEW c \in Conns, FinishRemove(c) PROVE TypeOK'
  BY Zenon, <1>11 DEF FinishRemove, RetireIfIdle, Idle
<1>12. ASSUME NEW c \in Conns, CleanupMonitors(c) PROVE TypeOK'
  BY <1>12 DEF CleanupMonitors
<1>13. ASSUME NEW c \in Conns, CleanupTables(c) PROVE TypeOK'
  BY <1>13 DEF CleanupTables
<1>14. ASSUME NEW c \in Conns, CleanupPump(c) PROVE TypeOK'
  BY Zenon, <1>14 DEF CleanupPump, RetireIfIdle, Idle
<1>15. ASSUME NEW c \in Conns, Disconnect(c) PROVE TypeOK'
  BY <1>15 DEF Disconnect
<1>16. ASSUME NEW p \in Pumps, Deposit(p) PROVE TypeOK'
  BY <1>16 DEF Deposit
<1>17. ASSUME NEW p \in Pumps, BeginTeardown(p) PROVE TypeOK'
  BY Zenon, <1>17 DEF BeginTeardown, Custody, Mine
<1>18. ASSUME NEW p \in Pumps, RetractSub(p) PROVE TypeOK'
  BY <1>18 DEF RetractSub, Owed, CloseChannel, Reachable
<1>19. ASSUME NEW p \in Pumps, AnnounceSub(p) PROVE TypeOK'
  BY <1>19 DEF AnnounceSub
<1>20. ASSUME NEW ch \in Channels, Supersede(ch) PROVE TypeOK'
  BY <1>20 DEF Supersede
<1>21. ASSUME NEW p \in Pumps, FinishTeardown(p) PROVE TypeOK'
  BY <1>21 DEF FinishTeardown, Drained
<1>22. ASSUME NEW p \in Pumps, Orphaned(p) PROVE TypeOK'
  BY <1>22 DEF Orphaned
<1>23. ASSUME NEW p \in Pumps, RetireGeneration(p) PROVE TypeOK'
  BY Zenon, <1>23 DEF RetireGeneration, Mine
<1>24. ASSUME NEW p \in Pumps, TakeShutdown(p) PROVE TypeOK'
  BY <1>24 DEF TakeShutdown, Interruptible
<1>25. ASSUME NEW p \in Pumps, Forward(p) PROVE TypeOK'
  BY <1>25 DEF Forward
<1>26. ASSUME NEW p \in Pumps, EndStream(p) PROVE TypeOK'
  BY <1>26 DEF EndStream
<1>27. CASE DropRegistry
  BY Zenon, <1>27 DEF DropRegistry
<1>28. CASE UNCHANGED vars
  BY <1>28
<1> QED
  BY Zenon, <1>1, <1>2, <1>3, <1>4, <1>5, <1>6, <1>7, <1>8, <1>9, <1>10, <1>11, <1>12, <1>13,
     <1>14, <1>15, <1>16, <1>17, <1>18, <1>19, <1>20, <1>21, <1>22, <1>23, <1>24, <1>25, <1>26,
     <1>27, <1>28
     DEF Next, Client, Handler, Pump

(***************************************************************************)
(* A connection's requests are touched by its own task only, and its        *)
(* subscriptions are unlisted before the connection is forgotten.           *)
(***************************************************************************)
LEMMA OwnerStep == TypeOK /\ TypeOK' /\ OwnerInv /\ [Next]_vars => OwnerInv'
<1> SUFFICES ASSUME TypeOK, TypeOK', OwnerInv, [Next]_vars PROVE OwnerInv'
  OBVIOUS
<1> USE RegistryAssumption DEF vars, pumpVars, connVars, tableVars, Goto, At, TypeOK, OwnerInv, Busy, Owner, Left
<1>1. ASSUME NEW s \in Subs, InitLookup(s) PROVE OwnerInv'
  BY <1>1 DEF InitLookup
<1>2. ASSUME NEW s \in Subs, DestroyRequest(s) PROVE OwnerInv'
  BY <1>2 DEF DestroyRequest, BeginRemove
<1>3. ASSUME NEW s \in Subs, MonitorDestroy(s) PROVE OwnerInv'
  BY <1>3 DEF MonitorDestroy, BeginRemove
<1>4. ASSUME NEW ch \in Channels, DestroyChannel(ch) PROVE OwnerInv'
  BY <1>4 DEF DestroyChannel, CloseChannel, SubsOn
<1>5. ASSUME NEW c \in Conns, InitBind(c) PROVE OwnerInv'
  BY <1>5 DEF InitBind
<1>6. ASSUME NEW c \in Conns, InitPush(c) PROVE OwnerInv'
  BY <1>6 DEF InitPush
<1>7. ASSUME NEW c \in Conns, InitSubscribe(c) PROVE OwnerInv'
  BY <1>7 DEF InitSubscribe
<1>8. ASSUME NEW c \in Conns, InitNoStream(c) PROVE OwnerInv'
  BY <1>8 DEF InitNoStream
<1>9. ASSUME NEW c \in Conns, KeepPump(c) PROVE OwnerInv'
  BY <1>9 DEF KeepPump, LivePump
<1>10. ASSUME NEW c \in Conns, SpawnPump(c) PROVE OwnerInv'
  BY <1>10 DEF SpawnPump, NextId, LivePump
<1>11. ASSUME NEW c \in Conns, FinishRemove(c) PROVE OwnerInv'
  BY <1>11 DEF FinishRemove, RetireIfIdle, Idle
<1>12. ASSUME NEW c \in Conns, CleanupMonitors(c) PROVE OwnerInv'
  BY <1>12 DEF CleanupMonitors, SubsOf
<1>13. ASSUME NEW c \in Conns, CleanupTables(c) PROVE OwnerInv'
  BY <1>13 DEF CleanupTables
<1>14. ASSUME NEW c \in Conns, CleanupPump(c) PROVE OwnerInv'
  BY <1>14 DEF CleanupPump, RetireIfIdle, Idle
<1>15. ASSUME NEW c \in Conns, Disconnect(c) PROVE OwnerInv'
  BY <1>15 DEF Disconnect
<1>16. ASSUME NEW p \in Pumps, Deposit(p) PROVE OwnerInv'
  BY <1>16 DEF Deposit
<1>17. ASSUME NEW p \in Pumps, BeginTeardown(p) PROVE OwnerInv'
  BY <1>17 DEF BeginTeardown, Custody, Mine
<1>18. ASSUME NEW p \in Pumps, RetractSub(p) PROVE OwnerInv'
  BY <1>18 DEF RetractSub, Owed, CloseChannel, Reachable, SubsOn
<1>19. ASSUME NEW p \in Pumps, AnnounceSub(p) PROVE OwnerInv'
  BY <1>19 DEF AnnounceSub
<1>20. ASSUME NEW ch \in Channels, Supersede(ch) PROVE OwnerInv'
  BY <1>20 DEF Supersede
<1>21. ASSUME NEW p \in Pumps, FinishTeardown(p) PROVE OwnerInv'
  BY <1>21 DEF FinishTeardown, Drained
<1>22. ASSUME NEW p \in Pumps, Orphaned(p) PROVE OwnerInv'
  BY <1>22 DEF Orphaned
<1>23. ASSUME NEW p \in Pumps, RetireGeneration(p) PROVE OwnerInv'
  BY <1>23 DEF RetireGeneration, Mine
<1>24. ASSUME NEW p \in Pumps, TakeShutdown(p) PROVE OwnerInv'
  BY <1>24 DEF TakeShutdown, Interruptible
<1>25. ASSUME NEW p \in Pumps, Forward(p) PROVE OwnerInv'
  BY <1>25 DEF Forward
<1>26. ASSUME NEW p \in Pumps, EndStream(p) PROVE OwnerInv'
  BY <1>26 DEF EndStream
<1>27. CASE DropRegistry
  BY <1>27 DEF DropRegistry
<1>28. CASE UNCHANGED vars
  BY <1>28
<1> QED
  BY Zenon, <1>1, <1>2, <1>3, <1>4, <1>5, <1>6, <1>7, <1>8, <1>9, <1>10, <1>11, <1>12, <1>13,
     <1>14, <1>15, <1>16, <1>17, <1>18, <1>19, <1>20, <1>21, <1>22, <1>23, <1>24, <1>25, <1>26,
     <1>27, <1>28
     DEF Next, Client, Handler, Pump

\* The empty registry satisfies both.
LEMMA InitHolds == Init => TypeOK /\ OwnerInv
<1> SUFFICES ASSUME Init PROVE TypeOK /\ OwnerInv
  OBVIOUS
<1> USE RegistryAssumption DEF Init, Pumps, At
<1>1. TypeOK
  BY DEF TypeOK, TaskPcs, HandlerPcs, PumpHandle, Busy, NoSub
<1>2. OwnerInv
  BY DEF OwnerInv, Busy, Left
<1> QED
  BY <1>1, <1>2

(***************************************************************************)
(* The registry's maps and the pump and connection tasks keep their types. *)
(***************************************************************************)
THEOREM RegistryTyping == Spec => []TypeOK
<1>1. Init => TypeOK
  BY InitHolds
<1> QED
  BY <1>1, TypeStep, PTL DEF Spec
=============================================================================
