-------------------------- MODULE MonitorServiceProofs --------------------------
(***************************************************************************)
(* Proofs about MonitorRegistry when the source always yields a stream: no *)
(* subscriber is left silent and no pump is lost track of, for any number  *)
(* of connections, channels, subscriptions and pump generations.           *)
(***************************************************************************)
EXTENDS MonitorRegistryProofs

\* What the handle in the map says about the task it names, and about fresh ids.
HandleInv ==
  /\ \A p \in Pumps : p > seq => task[p] = "unborn"
  /\ signalled \subseteq 1 .. seq
  /\ pumps # NoPump =>
       /\ pumps.id <= seq
       /\ ~pumps.exiting => Running(pumps.id)
       /\ pumps.exiting => task[pumps.id] \in {"teardown", "exit"}
  /\ ~alive => pumps = NoPump /\ \A c \in Conns : At(c, "closed")

(***************************************************************************)
(* The pump in the map serves whoever is listed, as long as the source does *)
(* give every subscription its stream.                                      *)
(***************************************************************************)
\* What holds of the registry while every source yields its stream.
ServiceInv == HandleInv /\ NeverSilent /\ OnePump /\ ChargedIsDeposited

LEMMA ServiceStep ==
  ASSUME ~SubscribeFails, TypeOK, TypeOK', OwnerInv, ServiceInv, [Next]_vars
  PROVE  ServiceInv'
<1> USE RegistryAssumption, NoPumpAssumption DEF vars, pumpVars, connVars, tableVars, Goto, At, Pumps
<1>0. HandleInv /\ NeverSilent /\ OnePump /\ ChargedIsDeposited
  BY DEF ServiceInv
<1>1. ASSUME NEW s \in Subs, InitLookup(s) PROVE ServiceInv'
  BY <1>0, <1>1 DEF InitLookup, TypeOK, PumpHandle, HandleInv, OwnerInv, NeverSilent, OnePump, ChargedIsDeposited, Running, Joining, LivePump, Busy, ServiceInv
<1>2. ASSUME NEW s \in Subs, DestroyRequest(s) PROVE ServiceInv'
  BY <1>0, <1>2 DEF DestroyRequest, BeginRemove, TypeOK, PumpHandle, HandleInv, OwnerInv, NeverSilent, OnePump, ChargedIsDeposited, Running, Joining, LivePump, Busy, ServiceInv
<1>3. ASSUME NEW s \in Subs, MonitorDestroy(s) PROVE ServiceInv'
  BY <1>0, <1>3 DEF MonitorDestroy, BeginRemove, TypeOK, PumpHandle, HandleInv, OwnerInv, NeverSilent, OnePump, ChargedIsDeposited, Running, Joining, LivePump, Busy, ServiceInv
<1>4. ASSUME NEW ch \in Channels, DestroyChannel(ch) PROVE ServiceInv'
  BY <1>0, <1>4 DEF DestroyChannel, CloseChannel, SubsOn, TypeOK, PumpHandle, HandleInv, OwnerInv, NeverSilent, OnePump, ChargedIsDeposited, Running, Joining, LivePump, Busy, ServiceInv
<1>5. ASSUME NEW c \in Conns, InitBind(c) PROVE ServiceInv'
  BY <1>0, <1>5 DEF InitBind, TypeOK, PumpHandle, HandleInv, OwnerInv, NeverSilent, OnePump, ChargedIsDeposited, Running, Joining, LivePump, Busy, ServiceInv
<1>6. ASSUME NEW c \in Conns, InitPush(c) PROVE ServiceInv'
  BY <1>0, <1>6 DEF InitPush, TypeOK, PumpHandle, HandleInv, OwnerInv, NeverSilent, OnePump, ChargedIsDeposited, Running, Joining, LivePump, Busy, ServiceInv
<1>7. ASSUME NEW c \in Conns, InitSubscribe(c) PROVE ServiceInv'
  BY <1>0, <1>7 DEF InitSubscribe, TypeOK, PumpHandle, HandleInv, OwnerInv, NeverSilent, OnePump, ChargedIsDeposited, Running, Joining, LivePump, Busy, ServiceInv
<1>8. ASSUME NEW c \in Conns, InitNoStream(c) PROVE ServiceInv'
  BY <1>0, <1>8 DEF InitNoStream, TypeOK, PumpHandle, HandleInv, OwnerInv, NeverSilent, OnePump, ChargedIsDeposited, Running, Joining, LivePump, Busy, ServiceInv
<1>9. ASSUME NEW c \in Conns, KeepPump(c) PROVE ServiceInv'
  BY <1>0, <1>9 DEF KeepPump, LivePump, TypeOK, PumpHandle, HandleInv, OwnerInv, NeverSilent, OnePump, ChargedIsDeposited, Running, Joining, Busy, ServiceInv
<1>10. ASSUME NEW c \in Conns, SpawnPump(c) PROVE ServiceInv'
  <2>d. seq' = seq + 1 /\ seq' \in Pumps /\ seq' # seq /\ seq' > seq
    BY <1>0, <1>10 DEF SpawnPump, NextId, TypeOK
  <2>e. task[seq'] = "unborn" /\ task' = [task EXCEPT ![seq'] = "loop"] /\ task'[seq'] = "loop"
    BY <1>0, <1>10, <2>d DEF SpawnPump, TypeOK, HandleInv
  <2>f. pumps'.id = seq' /\ ~pumps'.exiting /\ pumps' # NoPump
    <3>1. pumps' = [id |-> seq', exiting |-> FALSE]
      BY <1>10 DEF SpawnPump
    <3>2. pumps' \in PumpHandle
      BY <3>1, <2>d DEF PumpHandle
    <3> QED
      BY Zenon, <3>1, <3>2, NoPumpAssumption
  <2>0. /\ seq' = seq + 1 /\ seq' \in Pumps /\ seq' # seq
        /\ pumps'.id = seq' /\ ~pumps'.exiting /\ pumps' # NoPump
        /\ task' = [task EXCEPT ![seq'] = "loop"] /\ task'[seq'] = "loop"
        /\ task[seq'] = "unborn"
    BY <2>d, <2>e, <2>f
  <2>a. ~LivePump /\ \A q \in Pumps : ~Running(q)
    BY <1>0, <1>10 DEF SpawnPump, OnePump
  <2>b. seq' \notin signalled' /\ signalled' \subseteq 1 .. seq' /\ signalled \subseteq signalled'
    BY <1>0, <1>10, <2>0 DEF SpawnPump, TypeOK, PumpHandle, HandleInv
  <2>c. LivePump' /\ Running(pumps.id)' /\ \A q \in Pumps : Running(q)' => q = seq'
    BY <2>0, <2>a, <2>b DEF LivePump, Running, TypeOK
  <2>1. HandleInv'
    BY <1>0, <1>10, <2>0, <2>b, <2>c DEF SpawnPump, TypeOK, HandleInv
  <2>3. NeverSilent'
    BY <2>c DEF NeverSilent
  <2>4. OnePump'
    BY <2>0, <2>c DEF OnePump
  <2>5. ChargedIsDeposited'
    BY <1>0, <1>10, <2>0 DEF SpawnPump, TypeOK, ChargedIsDeposited
  <2> QED
    BY <2>1, <2>3, <2>4, <2>5 DEF ServiceInv
<1>11. ASSUME NEW c \in Conns, FinishRemove(c) PROVE ServiceInv'
  <2>1. HandleInv'
    BY <1>0, <1>11 DEF FinishRemove, RetireIfIdle, Idle, TypeOK, PumpHandle, HandleInv, Running
  <2>3. NeverSilent'
    BY <1>0, <1>11 DEF FinishRemove, RetireIfIdle, Idle, TypeOK, PumpHandle, HandleInv, OwnerInv, NeverSilent, Running, Joining, LivePump, Busy
  <2>4. OnePump'
    BY <1>0, <1>11 DEF FinishRemove, RetireIfIdle, Idle, TypeOK, PumpHandle, HandleInv, OnePump, Running, LivePump
  <2>5. ChargedIsDeposited'
    BY <1>0, <1>11 DEF FinishRemove, RetireIfIdle, Idle, TypeOK, ChargedIsDeposited
  <2> QED
    BY <2>1, <2>3, <2>4, <2>5 DEF ServiceInv
<1>12. ASSUME NEW c \in Conns, CleanupMonitors(c) PROVE ServiceInv'
  <2>1. HandleInv'
    BY <1>0, <1>12 DEF CleanupMonitors, TypeOK, PumpHandle, HandleInv, Running
  <2>3. NeverSilent'
    BY <1>0, <1>12 DEF CleanupMonitors, TypeOK, PumpHandle, HandleInv, OwnerInv, NeverSilent, Running, Joining, LivePump, Busy
  <2>4. OnePump'
    BY <1>0, <1>12 DEF CleanupMonitors, TypeOK, PumpHandle, HandleInv, OnePump, Running, LivePump
  <2>5. ChargedIsDeposited'
    BY <1>0, <1>12 DEF CleanupMonitors, TypeOK, ChargedIsDeposited
  <2> QED
    BY <2>1, <2>3, <2>4, <2>5 DEF ServiceInv
<1>13. ASSUME NEW c \in Conns, CleanupTables(c) PROVE ServiceInv'
  BY <1>0, <1>13 DEF CleanupTables, TypeOK, PumpHandle, HandleInv, OwnerInv, NeverSilent, OnePump, ChargedIsDeposited, Running, Joining, LivePump, Busy, ServiceInv
<1>14. ASSUME NEW c \in Conns, CleanupPump(c) PROVE ServiceInv'
  <2>1. HandleInv'
    <3>1. alive
      BY <1>0, <1>14 DEF CleanupPump, HandleInv
    <3>2. CASE Idle /\ pumps # NoPump
      BY <1>0, <1>14, <3>1, <3>2 DEF CleanupPump, RetireIfIdle, TypeOK, PumpHandle, HandleInv
    <3>3. CASE ~(Idle /\ pumps # NoPump)
      BY <1>0, <1>14, <3>1, <3>3 DEF CleanupPump, RetireIfIdle, TypeOK, PumpHandle, HandleInv, Running
    <3> QED
      BY <3>2, <3>3
  <2>3. NeverSilent'
    BY <1>0, <1>14 DEF CleanupPump, RetireIfIdle, Idle, TypeOK, PumpHandle, HandleInv, OwnerInv, NeverSilent, Running, Joining, LivePump, Busy
  <2>4. OnePump'
    BY <1>0, <1>14 DEF CleanupPump, RetireIfIdle, Idle, TypeOK, PumpHandle, HandleInv, OnePump, Running, LivePump
  <2>5. ChargedIsDeposited'
    BY <1>0, <1>14 DEF CleanupPump, RetireIfIdle, Idle, TypeOK, ChargedIsDeposited
  <2> QED
    BY <2>1, <2>3, <2>4, <2>5 DEF ServiceInv
<1>15. ASSUME NEW c \in Conns, Disconnect(c) PROVE ServiceInv'
  <2>1. HandleInv'
    BY Zenon, <1>0, <1>15 DEF Disconnect, TypeOK, PumpHandle, HandleInv, Running
  <2>3. NeverSilent'
    BY <1>0, <1>15 DEF Disconnect, TypeOK, PumpHandle, HandleInv, OwnerInv, NeverSilent, Running, Joining, LivePump, Busy
  <2>4. OnePump'
    BY <1>0, <1>15 DEF Disconnect, TypeOK, PumpHandle, HandleInv, OnePump, Running, LivePump
  <2>5. ChargedIsDeposited'
    BY <1>0, <1>15 DEF Disconnect, TypeOK, ChargedIsDeposited
  <2> QED
    BY <2>1, <2>3, <2>4, <2>5 DEF ServiceInv
<1>16. ASSUME NEW p \in Pumps, Deposit(p) PROVE ServiceInv'
  <2>1. HandleInv'
    BY <1>0, <1>16 DEF Deposit, TypeOK, PumpHandle, HandleInv, Running
  <2>3. NeverSilent'
    BY <1>0, <1>16 DEF Deposit, TypeOK, PumpHandle, HandleInv, OwnerInv, NeverSilent, Running, Joining, LivePump, Busy
  <2>4. OnePump'
    BY <1>0, <1>16 DEF Deposit, TypeOK, PumpHandle, HandleInv, OnePump, Running, LivePump
  <2>5. ChargedIsDeposited'
    BY <1>0, <1>16 DEF Deposit, TypeOK, ChargedIsDeposited
  <2> QED
    BY <2>1, <2>3, <2>4, <2>5 DEF ServiceInv
<1>17. ASSUME NEW p \in Pumps, BeginTeardown(p) PROVE ServiceInv'
  <2>1. HandleInv'
    BY <1>0, <1>17 DEF BeginTeardown, Custody, Mine, TypeOK, PumpHandle, HandleInv, Running
  <2>3. NeverSilent'
    BY <1>0, <1>17 DEF BeginTeardown, Custody, Mine, TypeOK, PumpHandle, HandleInv, OwnerInv, NeverSilent, Running, Joining, LivePump, Busy
  <2>4. OnePump'
    BY <1>0, <1>17 DEF BeginTeardown, Custody, Mine, TypeOK, PumpHandle, HandleInv, OnePump, Running, LivePump
  <2>5. ChargedIsDeposited'
    BY <1>0, <1>17 DEF BeginTeardown, Custody, Mine, TypeOK, ChargedIsDeposited
  <2> QED
    BY <2>1, <2>3, <2>4, <2>5 DEF ServiceInv
<1>18. ASSUME NEW p \in Pumps, RetractSub(p) PROVE ServiceInv'
  <2>1. HandleInv'
    BY <1>0, <1>18 DEF RetractSub, CloseChannel, Reachable, TypeOK, PumpHandle, HandleInv, Running
  <2>3. NeverSilent'
    BY <1>0, <1>18 DEF RetractSub, CloseChannel, Reachable, TypeOK, PumpHandle, HandleInv, OwnerInv, NeverSilent, Running, Joining, LivePump, Busy
  <2>4. OnePump'
    BY <1>0, <1>18 DEF RetractSub, CloseChannel, Reachable, TypeOK, PumpHandle, HandleInv, OnePump, Running, LivePump
  <2>5. ChargedIsDeposited'
    BY <1>0, <1>18 DEF RetractSub, CloseChannel, Reachable, TypeOK, ChargedIsDeposited
  <2> QED
    BY <2>1, <2>3, <2>4, <2>5 DEF ServiceInv
<1>19. ASSUME NEW p \in Pumps, AnnounceSub(p) PROVE ServiceInv'
  <2>1. HandleInv'
    BY <1>0, <1>19 DEF AnnounceSub, TypeOK, PumpHandle, HandleInv, Running
  <2>3. NeverSilent'
    BY <1>0, <1>19 DEF AnnounceSub, TypeOK, PumpHandle, HandleInv, OwnerInv, NeverSilent, Running, Joining, LivePump, Busy
  <2>4. OnePump'
    BY <1>0, <1>19 DEF AnnounceSub, TypeOK, PumpHandle, HandleInv, OnePump, Running, LivePump
  <2>5. ChargedIsDeposited'
    BY <1>0, <1>19 DEF AnnounceSub, TypeOK, ChargedIsDeposited
  <2> QED
    BY <2>1, <2>3, <2>4, <2>5 DEF ServiceInv
<1>20. ASSUME NEW ch \in Channels, Supersede(ch) PROVE ServiceInv'
  <2>1. HandleInv'
    BY <1>0, <1>20 DEF Supersede, TypeOK, PumpHandle, HandleInv, Running
  <2>3. NeverSilent'
    BY <1>0, <1>20 DEF Supersede, TypeOK, PumpHandle, HandleInv, OwnerInv, NeverSilent, Running, Joining, LivePump, Busy
  <2>4. OnePump'
    BY <1>0, <1>20 DEF Supersede, TypeOK, PumpHandle, HandleInv, OnePump, Running, LivePump
  <2>5. ChargedIsDeposited'
    BY <1>0, <1>20 DEF Supersede, TypeOK, ChargedIsDeposited
  <2> QED
    BY <2>1, <2>3, <2>4, <2>5 DEF ServiceInv
<1>21. ASSUME NEW p \in Pumps, FinishTeardown(p) PROVE ServiceInv'
  BY <1>0, <1>21 DEF FinishTeardown, Drained, TypeOK, PumpHandle, HandleInv, OwnerInv, NeverSilent, OnePump, ChargedIsDeposited, Running, Joining, LivePump, Busy, ServiceInv
<1>22. ASSUME NEW p \in Pumps, Orphaned(p) PROVE ServiceInv'
  BY <1>0, <1>22 DEF Orphaned, TypeOK, PumpHandle, HandleInv, OwnerInv, NeverSilent, OnePump, ChargedIsDeposited, Running, Joining, LivePump, Busy, ServiceInv
<1>23. ASSUME NEW p \in Pumps, RetireGeneration(p) PROVE ServiceInv'
  <2>1. HandleInv'
    BY <1>0, <1>23 DEF RetireGeneration, Mine, TypeOK, PumpHandle, HandleInv, Running
  <2>3. NeverSilent'
    BY <1>0, <1>23 DEF RetireGeneration, Mine, TypeOK, PumpHandle, HandleInv, OwnerInv, NeverSilent, Running, Joining, LivePump, Busy
  <2>4. OnePump'
    BY <1>0, <1>23 DEF RetireGeneration, Mine, TypeOK, PumpHandle, HandleInv, OnePump, Running, LivePump
  <2>5. ChargedIsDeposited'
    BY <1>0, <1>23 DEF RetireGeneration, Mine, TypeOK, ChargedIsDeposited
  <2> QED
    BY <2>1, <2>3, <2>4, <2>5 DEF ServiceInv
<1>24. ASSUME NEW p \in Pumps, TakeShutdown(p) PROVE ServiceInv'
  <2>1. HandleInv'
    BY <1>0, <1>24 DEF TakeShutdown, Interruptible, TypeOK, PumpHandle, HandleInv, Running
  <2>3. NeverSilent'
    BY <1>0, <1>24 DEF TakeShutdown, Interruptible, TypeOK, PumpHandle, HandleInv, OwnerInv, NeverSilent, Running, Joining, LivePump, Busy
  <2>4. OnePump'
    BY <1>0, <1>24 DEF TakeShutdown, Interruptible, TypeOK, PumpHandle, HandleInv, OnePump, Running, LivePump
  <2>5. ChargedIsDeposited'
    BY <1>0, <1>24 DEF TakeShutdown, Interruptible, TypeOK, ChargedIsDeposited
  <2> QED
    BY <2>1, <2>3, <2>4, <2>5 DEF ServiceInv
<1>25. ASSUME NEW p \in Pumps, Forward(p) PROVE ServiceInv'
  <2>1. HandleInv'
    BY <1>0, <1>25 DEF Forward, TypeOK, PumpHandle, HandleInv, Running
  <2>3. NeverSilent'
    BY <1>0, <1>25 DEF Forward, TypeOK, PumpHandle, HandleInv, OwnerInv, NeverSilent, Running, Joining, LivePump, Busy
  <2>4. OnePump'
    BY <1>0, <1>25 DEF Forward, TypeOK, PumpHandle, HandleInv, OnePump, Running, LivePump
  <2>5. ChargedIsDeposited'
    BY <1>0, <1>25 DEF Forward, TypeOK, ChargedIsDeposited
  <2> QED
    BY <2>1, <2>3, <2>4, <2>5 DEF ServiceInv
<1>26. ASSUME NEW p \in Pumps, EndStream(p) PROVE ServiceInv'
  BY <1>0, <1>26 DEF EndStream, TypeOK, PumpHandle, HandleInv, OwnerInv, NeverSilent, OnePump, ChargedIsDeposited, Running, Joining, LivePump, Busy, ServiceInv
<1>27. CASE DropRegistry
  <2>1. HandleInv'
    BY <1>0, <1>27 DEF DropRegistry, TypeOK, PumpHandle, HandleInv, Running
  <2>3. NeverSilent'
    BY <1>0, <1>27 DEF DropRegistry, TypeOK, OwnerInv, NeverSilent, Left, Owner
  <2>4. OnePump'
    BY <1>0, <1>27 DEF DropRegistry, TypeOK, PumpHandle, HandleInv, OnePump, Running, LivePump
  <2>5. ChargedIsDeposited'
    BY <1>0, <1>27 DEF DropRegistry, TypeOK, ChargedIsDeposited
  <2> QED
    BY <2>1, <2>3, <2>4, <2>5 DEF ServiceInv
<1>28. CASE UNCHANGED vars
  BY <1>0, <1>28 DEF TypeOK, PumpHandle, HandleInv, OwnerInv, NeverSilent, OnePump, ChargedIsDeposited, Running, Joining, LivePump, Busy, ServiceInv
<1> QED
  BY Zenon, <1>1, <1>2, <1>3, <1>4, <1>5, <1>6, <1>7, <1>8, <1>9, <1>10, <1>11, <1>12, <1>13,
     <1>14, <1>15, <1>16, <1>17, <1>18, <1>19, <1>20, <1>21, <1>22, <1>23, <1>24, <1>25, <1>26,
     <1>27, <1>28
     DEF Next, Client, Handler, Pump

\* The empty registry serves everyone it lists.
LEMMA ServiceInit == Init => ServiceInv
BY RegistryAssumption DEF Init, Pumps, ServiceInv, HandleInv, NeverSilent, OnePump,
   ChargedIsDeposited, Running

(***************************************************************************)
(* When the source always yields a stream, every listed subscriber is      *)
(* served or about to be, the registry never loses track of a running      *)
(* pump, and what a pump charged it deposits before it stops.              *)
(***************************************************************************)
THEOREM Service ==
  ASSUME ~SubscribeFails
  PROVE  Spec => [](NeverSilent /\ OnePump /\ ChargedIsDeposited)
<1> DEFINE Inv == TypeOK /\ OwnerInv /\ ServiceInv
<1>1. Init => Inv
  BY InitHolds, ServiceInit
<1>2. Inv /\ [Next]_vars => Inv'
  BY TypeStep, OwnerStep, ServiceStep
<1>3. Inv => NeverSilent /\ OnePump /\ ChargedIsDeposited
  BY DEF ServiceInv
<1> QED
  BY <1>1, <1>2, <1>3, PTL DEF Spec

(***************************************************************************)
(* A pump destroys only the subscribers it fed: whoever takes custody is   *)
(* the pump in the map and no other pump serves them.                      *)
(***************************************************************************)
THEOREM Custodian == ASSUME ~SubscribeFails PROVE Spec => DestroysItsOwn
<1> DEFINE Inv == TypeOK /\ OwnerInv /\ ServiceInv
<1>1. Init => Inv
  BY InitHolds, ServiceInit
<1>2. Inv /\ [Next]_vars => Inv'
  BY TypeStep, OwnerStep, ServiceStep
<1>3. Inv /\ [Next]_vars => [OnlyTheCustodian]_vars
  <2> SUFFICES ASSUME Inv, [Next]_vars PROVE OnlyTheCustodian
    OBVIOUS
  <2> USE DEF OnlyTheCustodian
  <2> TAKE p \in Pumps
  <2> HAVE doomed'[p] \ doomed[p] # {}
  <2>1. \/ BeginTeardown(p)
        \/ doomed' = doomed
        \/ \E q \in Pumps : RetractSub(q) \/ (BeginTeardown(q) /\ q # p)
    BY Zenon DEF Next, Client, Handler, Pump, vars, pumpVars, InitLookup, DestroyRequest,
           BeginRemove, MonitorDestroy, Supersede, AnnounceSub, DestroyChannel, Disconnect, InitBind, InitPush, InitSubscribe,
           InitNoStream, KeepPump, SpawnPump, FinishRemove, RetireIfIdle, CleanupMonitors,
           CleanupTables, CleanupPump, Deposit, FinishTeardown, Orphaned, RetireGeneration,
           TakeShutdown, Forward, EndStream, DropRegistry
  <2>2. BeginTeardown(p)
    BY <2>1 DEF BeginTeardown, RetractSub, TypeOK
  <2>3. Mine(p)
    BY <2>2 DEF BeginTeardown, Custody, TypeOK
  <2> QED
    BY <2>3 DEF Mine, ServiceInv, OnePump
<1> QED
  BY <1>1, <1>2, <1>3, PTL DEF Spec, DestroysItsOwn
=============================================================================
