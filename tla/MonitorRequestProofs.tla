-------------------------- MODULE MonitorRequestProofs --------------------------
(***************************************************************************)
(* Proofs about the requests of MonitorRegistry, for any number of         *)
(* connections, channels, subscriptions and pump generations: none of them *)
(* vanishes unannounced.                                                   *)
(***************************************************************************)
EXTENDS MonitorRegistryProofs

\* The closed channel of s is no secret: its end was announced, is about to be,
\* or has nobody to be announced to.
Excused(s) ==
  \/ ChannelOf[s] \in told \union (superseded \ channels)
  \/ \E p \in Pumps : ChannelOf[s] \in announcing[p]
  \/ handler[Owner(s)].pc \in Left

\* Where a request that its connection still holds can be.
Accounted(s) ==
  \/ s \in monitors
  \/ handler[Owner(s)].pc \in {"bound", "removing"} /\ handler[Owner(s)].sub = s
  \/ \E p \in Pumps : s \in doomed[p]
  \/ Excused(s)

\* Bindings disappear only with their channel, and the channel of a request that
\* is held or being initialised only with an excuse.
RequestInv ==
  /\ \A s \in rows : Accounted(s) /\ (s \in bound \/ ChannelOf[s] \notin channels)
  /\ \A s \in Subs : ChannelOf[s] \notin channels =>
       \/ Excused(s)
       \/ s \notin rows /\ ~(At(Owner(s), "init") /\ handler[Owner(s)].sub = s)
  /\ \A c \in Conns : c \notin registered => handler[c].pc \in Left
  /\ \A p \in Pumps : doomed[p] # {} => task[p] = "teardown"
  /\ \A p \in Pumps : p > seq => task[p] = "unborn"

\* The types the argument about requests needs, and no more.
RequestTypes ==
  /\ handler \in [Conns -> [pc : HandlerPcs, sub : Subs \union {NoSub}]]
  /\ task \in [Pumps -> TaskPcs]
  /\ doomed \in [Pumps -> SUBSET Subs] /\ announcing \in [Pumps -> SUBSET Channels]
  /\ rows \subseteq Subs /\ monitors \subseteq Subs

LEMMA RequestTyping == TypeOK => RequestTypes
BY DEF TypeOK, RequestTypes

\* Every request has a channel, and the channel a connection.
LEMMA Owners ==
  \A s \in Subs : ChannelOf[s] \in Channels /\ Owner(s) = ConnOf[ChannelOf[s]] /\ Owner(s) \in Conns
BY RegistryAssumption DEF Owner

\* A pump task that moves on, with nobody in its custody, disturbs no request.
LEMMA PumpMoves ==
  ASSUME RequestTypes, RequestInv, NEW p \in Pumps, NEW pc,
         task' = [task EXCEPT ![p] = pc], task[p] # "unborn", doomed[p] = {},
         UNCHANGED <<monitors, seq, doomed, announcing, connVars, tableVars, registered>>
  PROVE  RequestInv'
<1>1. UNCHANGED <<handler, rows, bound, channels, superseded, told>>
  BY DEF connVars, tableVars
<1>2. \A s \in Subs : Excused(s)' = Excused(s) /\ Accounted(s)' = Accounted(s)
  BY <1>1 DEF Excused, Accounted
<1>3. \A s \in Subs : At(Owner(s), "init")' = At(Owner(s), "init")
  BY <1>1 DEF At
<1>4. \A s \in rows : Accounted(s)'
  BY <1>1 DEF RequestInv, Accounted, Excused
<1>5. /\ \A q \in Pumps : doomed'[q] # {} => task'[q] = "teardown"
      /\ \A q \in Pumps : q > seq' => task'[q] = "unborn"
  BY DEF RequestInv, RequestTypes
<1> QED
  BY <1>1, <1>2, <1>3, <1>4, <1>5 DEF RequestInv

\* InitBind: the request is new, and in its handler.
LEMMA BindKeeps ==
  ASSUME RequestTypes, TypeOK, OwnerInv, RequestInv, NEW c \in Conns, InitBind(c)
  PROVE  RequestInv'
<1> USE Owners DEF RequestTypes, pumpVars, connVars, tableVars, Goto, At, Left, RequestInv, Accounted, Excused
<1>1. PICK new \in Subs :
      /\ Owner(new) = c
      /\ handler' = [handler EXCEPT ![c] = [pc |-> "bound", sub |-> new]]
      /\ rows' = rows \union {new} /\ bound' = bound \union {new}
  <2>1. handler[c].sub \in Subs /\ Owner(handler[c].sub) = c
    BY DEF InitBind, OwnerInv, TypeOK, Busy
  <2> QED
    BY Zenon, <2>1 DEF InitBind
<1>2. \A s \in Subs : Excused(s) => Excused(s)'
  BY <1>1 DEF InitBind
<1>3. Accounted(new)'
  BY <1>1
<1>4. \A s \in rows \ {new} : Accounted(s)'
  BY <1>1, <1>2 DEF InitBind
<1>5. \A s \in Subs : ChannelOf[s] \notin channels' =>
        Excused(s)' \/ (s \notin rows' /\ ~(At(Owner(s), "init") /\ handler[Owner(s)].sub = s)')
  BY <1>1, <1>2 DEF InitBind
<1>6. \A s \in rows' : s \in bound' \/ ChannelOf[s] \notin channels'
  BY <1>1 DEF InitBind
<1>7. \A d \in Conns : d \notin registered' => handler'[d].pc \in Left
  BY <1>1 DEF InitBind
<1>8. UNCHANGED <<doomed, task, seq>>
  BY DEF InitBind
<1> HIDE DEF Accounted, Excused, At
<1>9. \A s \in rows' : Accounted(s)'
  BY Zenon, <1>1, <1>3, <1>4
<1> QED
  BY ONLY <1>5, <1>6, <1>7, <1>8, <1>9, RequestInv DEF RequestInv

\* SpawnPump: no request moves, and the generation is fresh.
LEMMA SpawnKeeps ==
  ASSUME RequestTypes, TypeOK, RequestInv, NEW c \in Conns, SpawnPump(c)
  PROVE  RequestInv'
<1> USE Owners DEF RequestTypes, pumpVars, connVars, tableVars, Goto, At, Left, RequestInv, Accounted, Excused
<1>1. /\ seq' = seq + 1 /\ seq' \in Pumps /\ task' = [task EXCEPT ![seq'] = "loop"]
      /\ task[seq'] = "unborn"
  <2>1. seq \in 0 .. MaxPumps /\ MaxPumps \in Nat
    BY RegistryAssumption DEF TypeOK
  <2>2. seq < MaxPumps /\ seq' = seq + 1 /\ task' = [task EXCEPT ![seq'] = "loop"]
    BY DEF SpawnPump, NextId
  <2>3. \A p \in Pumps : p > seq => task[p] = "unborn"
    BY DEF RequestInv
  <2> QED
    BY ONLY <2>1, <2>2, <2>3 DEF Pumps
<1>2. \A s \in Subs : (Excused(s) => Excused(s)') /\ (Accounted(s) => Accounted(s)')
  BY DEF SpawnPump
<1>3. \A s \in Subs : (At(Owner(s), "init") /\ handler[Owner(s)].sub = s)' =>
        At(Owner(s), "init") /\ handler[Owner(s)].sub = s
  BY DEF SpawnPump
<1>4. \A d \in Conns : d \notin registered' => handler'[d].pc \in Left
  BY DEF SpawnPump
<1>5. /\ \A p \in Pumps : doomed'[p] # {} => task'[p] = "teardown"
      /\ \A p \in Pumps : p > seq' => task'[p] = "unborn"
  <2>1. seq \in Nat /\ MaxPumps \in Nat /\ doomed' = doomed
    BY RegistryAssumption DEF SpawnPump, TypeOK
  <2>2. /\ \A p \in Pumps : doomed[p] # {} => task[p] = "teardown"
        /\ \A p \in Pumps : p > seq => task[p] = "unborn"
    BY DEF RequestInv
  <2> QED
    BY ONLY <1>1, <2>1, <2>2, task \in [Pumps -> TaskPcs] DEF Pumps
<1> QED
  BY ONLY SpawnPump(c), <1>2, <1>3, <1>4, <1>5, TypeOK, RequestInv
     DEF SpawnPump, RequestInv, TypeOK, connVars, tableVars

\* RetractSub: whoever loses the channel has an excuse.
LEMMA RetractKeeps ==
  ASSUME RequestTypes, RequestInv, NEW p \in Pumps, RetractSub(p)
  PROVE  RequestInv'
<1> USE Owners DEF RequestTypes, pumpVars, connVars, tableVars, Goto, At, Left, RequestInv, Accounted, Excused
<1>1. PICK s \in doomed[p] :
        /\ doomed' = [doomed EXCEPT ![p] = @ \ {s}]
        /\ \/ /\ Reachable(s)
              /\ CloseChannel(ChannelOf[s])
              /\ announcing' = [announcing EXCEPT ![p] = Owed(ChannelOf[s])]
           \/ /\ ~Reachable(s)
              /\ UNCHANGED <<bound, channels, announcing>>
  BY Zenon DEF RetractSub
<1>2. /\ s \in Subs /\ announcing[p] = {} /\ task[p] = "teardown" /\ channels' \subseteq channels
      /\ UNCHANGED <<monitors, pumps, seq, task, handler, rows, superseded, told, registered>>
  BY <1>1 DEF RetractSub, CloseChannel
<1>3. \A r \in Subs : Excused(r) => Excused(r)'
  BY <1>1, <1>2
<1>4. \A r \in Subs : ChannelOf[r] \in channels \ channels' => Excused(r)'
  BY <1>1, <1>2 DEF CloseChannel, Owed
<1>5. \A r \in bound \ bound' : ChannelOf[r] \notin channels'
  BY <1>1 DEF CloseChannel, SubsOn
<1>6. s \in rows => Excused(s)'
  <2>1. CASE Reachable(s)
    <3>1. ChannelOf[s] \in channels \ channels'
      BY <1>1, <2>1 DEF Reachable, CloseChannel
    <3> QED
      BY ONLY <1>2, <1>4, <3>1
  <2>2. CASE ~Reachable(s)
    <3>1. s \in rows => Owner(s) \notin registered \/ ChannelOf[s] \notin channels
      BY <2>2 DEF Reachable
    <3>2. s \in rows => Excused(s)
      BY <1>2, <3>1
    <3> QED
      BY ONLY <1>2, <1>3, <3>2
  <2> QED
    BY <2>1, <2>2
<1>7. \A r \in rows : Accounted(r)'
  <2>1. \A r \in rows : Accounted(r) /\ r \in Subs
    BY DEF RequestInv
  <2>2. \A r \in rows \ {s} : \A q \in Pumps : r \in doomed[q] => r \in doomed'[q]
    BY <1>1
  <2> HIDE DEF Excused
  <2> QED
    BY ONLY <1>2, <1>3, <1>6, <2>1, <2>2 DEF Accounted
<1>8. \A q \in Pumps : doomed'[q] # {} => task'[q] = "teardown"
  BY <1>1, <1>2
<1> HIDE DEF Accounted, Excused, At
<1>9. \A r \in rows : r \in bound' \/ ChannelOf[r] \notin channels'
  BY ONLY <1>2, <1>5, RequestInv DEF RequestInv
<1>10. /\ \A r \in Subs : At(Owner(r), "init")' = At(Owner(r), "init")
       /\ handler' = handler /\ registered' = registered /\ seq' = seq /\ task' = task
  BY <1>2 DEF At
<1> QED
  BY ONLY <1>2, <1>3, <1>4, <1>7, <1>8, <1>9, <1>10, RequestInv DEF RequestInv

\* The client asks for a request to begin or to end.
LEMMA ClientKeeps ==
  ASSUME RequestTypes, RequestInv, NEW s \in Subs,
         InitLookup(s) \/ DestroyRequest(s) \/ MonitorDestroy(s)
  PROVE  RequestInv'
<1>1. CASE InitLookup(s)
  BY <1>1, Owners
     DEF InitLookup, RequestTypes, pumpVars, connVars, tableVars, Goto, At, Left,
         RequestInv, Accounted, Excused
<1>2. CASE DestroyRequest(s)
  BY <1>2, Owners
     DEF DestroyRequest, BeginRemove, RequestTypes, pumpVars, connVars, tableVars, Goto, At, Left,
         RequestInv, Accounted, Excused
<1>3. CASE MonitorDestroy(s)
  BY <1>3, Owners
     DEF MonitorDestroy, BeginRemove, RequestTypes, pumpVars, connVars, tableVars, Goto, At, Left,
         RequestInv, Accounted, Excused
<1> QED
  BY Zenon, <1>1, <1>2, <1>3

\* The client closes a channel, or gives its cid away.
LEMMA ChannelKeeps ==
  ASSUME RequestTypes, RequestInv, NEW ch \in Channels,
         DestroyChannel(ch) \/ Supersede(ch)
  PROVE  RequestInv'
<1>1. CASE DestroyChannel(ch)
  BY <1>1, Owners
     DEF DestroyChannel, CloseChannel, SubsOn, RequestTypes, pumpVars, connVars, tableVars, Goto, At, Left,
         RequestInv, Accounted, Excused
<1>2. CASE Supersede(ch)
  BY <1>2, Owners
     DEF Supersede, RequestTypes, pumpVars, connVars, tableVars, Goto, At, Left,
         RequestInv, Accounted, Excused
<1> QED
  BY Zenon, <1>1, <1>2

\* The rest of an INIT.
LEMMA InitKeeps ==
  ASSUME RequestTypes, RequestInv, NEW c \in Conns,
         InitPush(c) \/ InitSubscribe(c) \/ InitNoStream(c) \/ KeepPump(c)
  PROVE  RequestInv'
<1>1. CASE InitPush(c)
  BY <1>1, Owners
     DEF InitPush, RequestTypes, pumpVars, connVars, tableVars, Goto, At, Left,
         RequestInv, Accounted, Excused
<1>2. CASE InitSubscribe(c)
  BY <1>2, Owners
     DEF InitSubscribe, RequestTypes, pumpVars, connVars, tableVars, Goto, At, Left,
         RequestInv, Accounted, Excused
<1>3. CASE InitNoStream(c)
  BY <1>3, Owners
     DEF InitNoStream, RequestTypes, pumpVars, connVars, tableVars, Goto, At, Left,
         RequestInv, Accounted, Excused
<1>4. CASE KeepPump(c)
  BY <1>4, Owners
     DEF KeepPump, LivePump, RequestTypes, pumpVars, connVars, tableVars, Goto, At, Left,
         RequestInv, Accounted, Excused
<1> QED
  BY Zenon, <1>1, <1>2, <1>3, <1>4

\* A request or a connection ends.
LEMMA LeaveKeeps ==
  ASSUME RequestTypes, RequestInv, NEW c \in Conns,
         FinishRemove(c) \/ CleanupMonitors(c) \/ CleanupTables(c) \/ CleanupPump(c) \/ Disconnect(c)
  PROVE  RequestInv'
<1>1. CASE FinishRemove(c)
  BY SMTT(20), <1>1, Owners
     DEF FinishRemove, RetireIfIdle, Idle, RequestTypes, pumpVars, connVars, tableVars, Goto, At, Left,
         RequestInv, Accounted, Excused
<1>2. CASE CleanupMonitors(c)
  BY SMTT(20), <1>2, Owners
     DEF CleanupMonitors, SubsOf, RequestTypes, pumpVars, connVars, tableVars, Goto, At, Left,
         RequestInv, Accounted, Excused
<1>3. CASE CleanupTables(c)
  BY SMTT(20), <1>3, Owners
     DEF CleanupTables, RequestTypes, pumpVars, connVars, tableVars, Goto, At, Left,
         RequestInv, Accounted, Excused
<1>4. CASE CleanupPump(c)
  BY SMTT(20), <1>4, Owners
     DEF CleanupPump, RetireIfIdle, Idle, RequestTypes, pumpVars, connVars, tableVars, Goto, At, Left,
         RequestInv, Accounted, Excused
<1>5. CASE Disconnect(c)
  BY SMTT(20), <1>5, Owners
     DEF Disconnect, RequestTypes, pumpVars, connVars, tableVars, Goto, At, Left,
         RequestInv, Accounted, Excused
<1> QED
  BY Zenon, <1>1, <1>2, <1>3, <1>4, <1>5

\* A pump takes custody, announces, or notes the end of its stream.
LEMMA TeardownKeeps ==
  ASSUME RequestTypes, RequestInv, NEW p \in Pumps,
         BeginTeardown(p) \/ AnnounceSub(p) \/ EndStream(p) \/ Deposit(p)
  PROVE  RequestInv'
<1>1. CASE BeginTeardown(p)
  BY SMTT(20), <1>1, Owners
     DEF BeginTeardown, Custody, Mine, RequestTypes, pumpVars, connVars, tableVars, Goto, At, Left,
         RequestInv, Accounted, Excused
<1>2. CASE AnnounceSub(p)
  BY SMTT(20), <1>2, Owners
     DEF AnnounceSub, RequestTypes, pumpVars, connVars, tableVars, Goto, At, Left,
         RequestInv, Accounted, Excused
<1>3. CASE EndStream(p)
  BY SMTT(20), <1>3, Owners
     DEF EndStream, RequestTypes, pumpVars, connVars, tableVars, Goto, At, Left,
         RequestInv, Accounted, Excused
<1>4. CASE Deposit(p)
  BY SMTT(20), <1>4, Owners
     DEF Deposit, RequestTypes, pumpVars, connVars, tableVars, Goto, At, Left,
         RequestInv, Accounted, Excused
<1> QED
  BY Zenon, <1>1, <1>2, <1>3, <1>4

\* A pump moves on with nobody in its custody.
LEMMA PumpKeeps ==
  ASSUME RequestTypes, RequestInv, NEW p \in Pumps,
         FinishTeardown(p) \/ Orphaned(p) \/ RetireGeneration(p) \/ TakeShutdown(p) \/ Forward(p)
  PROVE  RequestInv'
<1>1. CASE FinishTeardown(p)
  <2>1. doomed[p] = {} /\ task[p] # "unborn"
    BY <1>1 DEF FinishTeardown, Drained, RequestInv
  <2>2. /\ \E pc \in TaskPcs : task' = [task EXCEPT ![p] = pc]
        /\ UNCHANGED <<monitors, seq, doomed, announcing, connVars, tableVars, registered>>
    BY Zenon, <1>1 DEF FinishTeardown, Drained, TaskPcs, pumpVars
  <2> QED
    BY Zenon, <2>1, <2>2, PumpMoves
<1>2. CASE Orphaned(p)
  <2>1. doomed[p] = {} /\ task[p] # "unborn"
    BY <1>2 DEF Orphaned, RequestInv
  <2>2. /\ \E pc \in TaskPcs : task' = [task EXCEPT ![p] = pc]
        /\ UNCHANGED <<monitors, seq, doomed, announcing, connVars, tableVars, registered>>
    BY Zenon, <1>2 DEF Orphaned, TaskPcs, pumpVars
  <2> QED
    BY Zenon, <2>1, <2>2, PumpMoves
<1>3. CASE RetireGeneration(p)
  <2>1. doomed[p] = {} /\ task[p] # "unborn"
    BY <1>3 DEF RetireGeneration, RequestInv
  <2>2. /\ \E pc \in TaskPcs : task' = [task EXCEPT ![p] = pc]
        /\ UNCHANGED <<monitors, seq, doomed, announcing, connVars, tableVars, registered>>
    BY Zenon, <1>3 DEF RetireGeneration, TaskPcs, pumpVars
  <2> QED
    BY Zenon, <2>1, <2>2, PumpMoves
<1>4. CASE TakeShutdown(p)
  <2>1. doomed[p] = {} /\ task[p] # "unborn"
    BY <1>4 DEF TakeShutdown, Interruptible, RequestInv
  <2>2. /\ \E pc \in TaskPcs : task' = [task EXCEPT ![p] = pc]
        /\ UNCHANGED <<monitors, seq, doomed, announcing, connVars, tableVars, registered>>
    BY Zenon, <1>4 DEF TakeShutdown, Interruptible, TaskPcs, pumpVars
  <2> QED
    BY Zenon, <2>1, <2>2, PumpMoves
<1>5. CASE Forward(p)
  <2>1. doomed[p] = {} /\ task[p] # "unborn"
    BY <1>5 DEF Forward, RequestInv
  <2>2. /\ \E pc \in TaskPcs : task' = [task EXCEPT ![p] = pc]
        /\ UNCHANGED <<monitors, seq, doomed, announcing, connVars, tableVars, registered>>
    BY Zenon, <1>5 DEF Forward, TaskPcs, pumpVars
  <2> QED
    BY Zenon, <2>1, <2>2, PumpMoves
<1> QED
  BY Zenon, <1>1, <1>2, <1>3, <1>4, <1>5

(***************************************************************************)
(* A request that its connection still holds is accounted for.              *)
(***************************************************************************)
LEMMA RequestStep ==
  TypeOK /\ OwnerInv /\ RequestInv /\ [Next]_vars => RequestInv'
<1> SUFFICES ASSUME TypeOK, OwnerInv, RequestInv, [Next]_vars PROVE RequestInv'
  OBVIOUS
<1>t. RequestTypes
  BY RequestTyping
<1>1. CASE Client
  BY Zenon, <1>t, <1>1, ClientKeeps, ChannelKeeps, LeaveKeeps DEF Client
<1>2. ASSUME NEW c \in Conns, Handler(c) PROVE RequestInv'
  BY Zenon, <1>t, <1>2, BindKeeps, SpawnKeeps, InitKeeps, LeaveKeeps DEF Handler
<1>3. ASSUME NEW p \in Pumps, Pump(p) \/ TakeShutdown(p) \/ Forward(p) \/ EndStream(p)
      PROVE  RequestInv'
  BY Zenon, <1>t, <1>3, RetractKeeps, TeardownKeeps, PumpKeeps DEF Pump
<1>4. CASE DropRegistry \/ UNCHANGED vars
  BY <1>4 DEF DropRegistry, vars, pumpVars, connVars, tableVars, At, RequestInv, Accounted, Excused
<1> QED
  BY Zenon, <1>1, <1>2, <1>3, <1>4 DEF Next

\* There is no request to begin with.
LEMMA RequestInit == Init => RequestInv
BY RegistryAssumption DEF Init, Pumps, At, RequestInv, Left

(***************************************************************************)
(* No subscription disappears behind its client's back: however handlers,  *)
(* cleanups and dying pumps interleave, a request a served connection      *)
(* holds is listed, in its handler, in a pump's custody or announced as    *)
(* gone, or its client has itself given the cid of the closed channel away.*)
(***************************************************************************)
THEOREM Accounting == Spec => []NothingVanishes
<1> DEFINE Inv == TypeOK /\ OwnerInv /\ RequestInv
<1>1. Init => Inv
  BY InitHolds, RequestInit
<1>2. Inv /\ [Next]_vars => Inv'
  BY TypeStep, OwnerStep, RequestStep
<1>3. Inv => NothingVanishes
  BY DEF RequestInv, Accounted, Excused, NothingVanishes, InHandler, InCustody
<1> QED
  BY <1>1, <1>2, <1>3, PTL DEF Spec
=============================================================================
