---------------------------- MODULE MonitorRegistry ----------------------------
(***************************************************************************)
(* The life cycle of the subscriptions to one PV and of the pump tasks     *)
(* that feed them: MonitorRegistry in spvirit-server/src/monitor.rs, with  *)
(* the MONITOR, DestroyRequest and DestroyChannel arms of the connection   *)
(* handler that drive it.                                                  *)
(*                                                                         *)
(* The PV belongs to a source that does not notify by itself (a gateway    *)
(* proxy, a group, an async backend), so its updates reach the registry    *)
(* only through a pump: a task that drains the stream the source's         *)
(* subscribe returned.  One pump serves every subscriber of the PV.        *)
(*                                                                         *)
(* One action is one critical section: a step between two awaits, made     *)
(* atomic by the locks it holds.  Which subscribers a value is owed to,    *)
(* and in which order its frames arrive, is left out; the bookkeeping of   *)
(* channel ids is the subject of ChannelTables.                            *)
(***************************************************************************)
EXTENDS Integers

CONSTANTS
  Conns,          \* connections; each is one sequential connection task
  Channels,       \* channels the clients have created to the PV
  Subs,           \* request ids of the MONITOR operations, each used once
  ConnOf,         \* the connection a channel belongs to
  ChannelOf,      \* the channel a MONITOR operation is made on
  Recreated,      \* channels whose cid the client may give to a newer channel
  SubscribeFails, \* may the source decline to subscribe (Source::subscribe = None)
  MaxPumps,       \* bound on PUMP_SEQ
  NoPump          \* absence of a PumpHandle

ASSUME RegistryAssumption ==
  /\ ConnOf \in [Channels -> Conns]
  /\ ChannelOf \in [Subs -> Channels]
  /\ Recreated \subseteq Channels
  /\ MaxPumps \in Nat
  /\ "none" \notin Subs
  /\ SubscribeFails \in BOOLEAN

Owner(s) == ConnOf[ChannelOf[s]]

Pumps == 1 .. MaxPumps
PumpHandle == [id : Pumps, exiting : BOOLEAN]

ASSUME NoPumpAssumption == NoPump \notin PumpHandle

VARIABLES
  monitors,    \* the subscriptions listed under monitors[pv]
  pumps,       \* the PumpHandle under pumps[pv], or NoPump
  seq,         \* PUMP_SEQ
  task,        \* where each pump task stands
  ended,       \* pumps whose stream the source has closed
  signalled,   \* pumps whose shutdown channel has fired
  plan,        \* frames a pump has charged and not yet deposited
  doomed,      \* subscribers a dying pump has taken custody of
  announcing,  \* the channel a dying pump has retracted and not yet announced
  handler,     \* where each connection task stands: [pc, sub]
  used,        \* request ids already spent
  rows,        \* ConnState::ioid_to_pv and its sister maps
  bound,       \* ChannelTables::ioid_to_sid
  channels,    \* channels open in ChannelTables
  superseded,  \* channels whose cid the client has given to a newer channel
  registered,  \* connections in conns and chan_tables
  told,        \* channels whose client was sent DESTROY_CHANNEL
  alive        \* the registry has not been dropped

pumpVars == <<pumps, seq, task, ended, signalled, plan, doomed, announcing>>
connVars == <<handler, used, rows>>
tableVars == <<bound, channels, superseded, told>>
vars == <<monitors, pumpVars, connVars, tableVars, registered, alive>>

TaskPcs == {"unborn", "loop", "fanout", "teardown", "exit", "done"}
HandlerPcs == {"serving", "init", "bound", "pushed", "subscribed", "removing",
               "dropped", "unlisted", "leaving", "unregistered", "closed"}
Busy == {"init", "bound", "pushed", "subscribed", "removing"}
Left == {"dropped", "unlisted", "leaving", "unregistered", "closed"}
NoSub == "none"

Init ==
  /\ monitors = {}
  /\ pumps = NoPump
  /\ seq = 0
  /\ task = [p \in Pumps |-> "unborn"]
  /\ ended = {}
  /\ signalled = {}
  /\ plan = [p \in Pumps |-> {}]
  /\ doomed = [p \in Pumps |-> {}]
  /\ announcing = [p \in Pumps |-> {}]
  /\ handler = [c \in Conns |-> [pc |-> "serving", sub |-> NoSub]]
  /\ used = {}
  /\ rows = {}
  /\ bound = {}
  /\ channels = Channels
  /\ superseded = {}
  /\ registered = Conns
  /\ told = {}
  /\ alive = TRUE

At(c, pc) == handler[c].pc = pc
Goto(c, pc, s) == handler' = [handler EXCEPT ![c] = [pc |-> pc, sub |-> s]]
SubsOn(ch) == {s \in Subs : ChannelOf[s] = ch}
SubsOf(c) == {s \in Subs : Owner(s) = c}

-----------------------------------------------------------------------------
(* MONITOR INIT: look the channel up, reply, bind, list, subscribe, pump.    *)

\* A non-server Op names a sid; an unknown one is answered with an error.
InitLookup(s) ==
  /\ At(Owner(s), "serving")
  /\ s \notin used
  /\ ChannelOf[s] \in channels
  /\ Goto(Owner(s), "init", s)
  /\ used' = used \union {s}
  /\ UNCHANGED <<monitors, pumpVars, rows, tableVars, registered, alive>>

\* After the reply has been queued: the private rows and the shared binding.
InitBind(c) ==
  /\ At(c, "init")
  /\ rows' = rows \union {handler[c].sub}
  /\ bound' = bound \union {handler[c].sub}
  /\ Goto(c, "bound", handler[c].sub)
  /\ UNCHANGED <<monitors, pumpVars, used, channels, superseded, told, registered, alive>>

InitPush(c) ==
  /\ At(c, "bound")
  /\ monitors' = monitors \union {handler[c].sub}
  /\ Goto(c, "pushed", handler[c].sub)
  /\ UNCHANGED <<pumpVars, used, rows, tableVars, registered, alive>>

InitSubscribe(c) ==
  /\ At(c, "pushed")
  /\ Goto(c, "subscribed", handler[c].sub)
  /\ UNCHANGED <<monitors, pumpVars, used, rows, tableVars, registered, alive>>

\* The source returns None: the handler has nothing to pump and goes on.
InitNoStream(c) ==
  /\ SubscribeFails
  /\ At(c, "pushed")
  /\ Goto(c, "serving", NoSub)
  /\ UNCHANGED <<monitors, pumpVars, used, rows, tableVars, registered, alive>>

LivePump_Any == pumps # NoPump

\* The test in ensure_pump: a handle that is exiting does not count.
LivePump == pumps # NoPump /\ ~pumps.exiting

\* ensure_pump finds a live pump and drops the new receiver.
KeepPump(c) ==
  /\ At(c, "subscribed")
  /\ LivePump
  /\ Goto(c, "serving", NoSub)
  /\ UNCHANGED <<monitors, pumpVars, used, rows, tableVars, registered, alive>>

NextId_Reused == seq
NextId == seq + 1

\* ensure_pump spawns one; inserting its handle drops an exiting one's.
SpawnPump(c) ==
  /\ At(c, "subscribed")
  /\ ~LivePump
  /\ seq < MaxPumps
  /\ seq' = NextId
  /\ pumps' = [id |-> seq', exiting |-> FALSE]
  /\ task' = [task EXCEPT ![seq'] = "loop"]
  /\ signalled' = signalled \union (IF pumps = NoPump THEN {} ELSE {pumps.id})
  /\ Goto(c, "serving", NoSub)
  /\ UNCHANGED <<monitors, ended, plan, doomed, announcing, used, rows, tableVars, registered, alive>>

-----------------------------------------------------------------------------
(* A subscription leaves: by request, with its channel, or its connection.   *)

Idle == monitors = {}

\* retire_pump_if_idle: the check and the removal under both locks.
RetireIfIdle ==
  /\ pumps' = IF Idle THEN NoPump ELSE pumps
  /\ signalled' = IF Idle /\ pumps # NoPump THEN signalled \union {pumps.id} ELSE signalled
  /\ UNCHANGED <<seq, task, ended, plan, doomed, announcing>>

\* remove_monitor_subscription drops the subscription, then sees to the pump.
BeginRemove(s) ==
  /\ At(Owner(s), "serving")
  /\ monitors' = monitors \ {s}
  /\ Goto(Owner(s), "removing", s)
  /\ UNCHANGED <<pumpVars, used, rows, tableVars, registered, alive>>

\* DestroyRequest: only a request with a row reaches the registry.
DestroyRequest(s) == s \in rows /\ BeginRemove(s)

\* MONITOR with the destroy bit: the sid must name a channel of the connection;
\* whether it is the request's own, or there is such a request, is not asked.
MonitorDestroy(s) ==
  /\ \E ch \in channels : ConnOf[ch] = Owner(s)
  /\ BeginRemove(s)

FinishRemove(c) ==
  /\ At(c, "removing")
  /\ RetireIfIdle
  /\ rows' = rows \ {handler[c].sub}
  /\ bound' = bound \ {handler[c].sub}
  /\ Goto(c, "serving", NoSub)
  /\ UNCHANGED <<monitors, used, channels, superseded, told, registered, alive>>

\* remove_channel: the channel and every binding on it leave the tables.
CloseChannel(ch) ==
  /\ channels' = channels \ {ch}
  /\ bound' = bound \ SubsOn(ch)

\* The client destroys a channel: purge_channel_requests.
DestroyChannel(ch) ==
  /\ At(ConnOf[ch], "serving")
  /\ ch \in channels
  /\ CloseChannel(ch)
  /\ rows' = rows \ (SubsOn(ch) \intersect bound)
  /\ UNCHANGED <<monitors, pumpVars, handler, used, superseded, told, registered, alive>>

\* CREATE_CHANNEL on the cid of a channel the client never destroyed: the cid
\* names the new channel, and the old one stays open under its sid.
Supersede(ch) ==
  /\ At(ConnOf[ch], "serving")
  /\ ch \in (Recreated \intersect channels) \ superseded
  /\ superseded' = superseded \union {ch}
  /\ UNCHANGED <<monitors, pumpVars, connVars, bound, channels, told, registered, alive>>

\* The connection task ends between two requests, or panics on the poisoned
\* lock of its tables; its ConnCleanupGuard spawns cleanup_connection.
Disconnect(c) ==
  /\ At(c, "serving") \/ At(c, "init")
  /\ Goto(c, "dropped", NoSub)
  /\ UNCHANGED <<monitors, pumpVars, used, rows, tableVars, registered, alive>>

CleanupMonitors(c) ==
  /\ At(c, "dropped")
  /\ monitors' = monitors \ SubsOf(c)
  /\ Goto(c, IF monitors' # monitors THEN "unlisted" ELSE "leaving", NoSub)
  /\ UNCHANGED <<pumpVars, used, rows, tableVars, registered, alive>>

\* The conns and chan_tables entries; then, if the PV was affected, its pump.
CleanupTables(c) ==
  /\ At(c, "unlisted") \/ At(c, "leaving")
  /\ registered' = registered \ {c}
  /\ Goto(c, IF At(c, "unlisted") THEN "unregistered" ELSE "closed", NoSub)
  /\ UNCHANGED <<monitors, pumpVars, used, rows, tableVars, alive>>

\* The affected PVs' pumps are retired last.
CleanupPump(c) ==
  /\ At(c, "unregistered")
  /\ RetireIfIdle
  /\ Goto(c, "closed", NoSub)
  /\ UNCHANGED <<monitors, used, rows, tableVars, registered, alive>>

\* The server lets go of the registry; with it the pump's handle is dropped.
DropRegistry ==
  /\ alive
  /\ \A c \in Conns : At(c, "closed")
  /\ alive' = FALSE
  /\ pumps' = NoPump
  /\ signalled' = IF pumps = NoPump THEN signalled ELSE signalled \union {pumps.id}
  /\ UNCHANGED <<monitors, seq, task, ended, plan, doomed, announcing, connVars, tableVars,
                 registered>>

-----------------------------------------------------------------------------
(* The pump task.                                                            *)

\* The source closes the stream behind pump p.
EndStream(p) ==
  /\ task[p] \in {"loop", "fanout"}
  /\ p \notin ended
  /\ ended' = ended \union {p}
  /\ UNCHANGED <<monitors, pumps, seq, task, signalled, plan, doomed, announcing, connVars, tableVars,
                 registered, alive>>

\* A payload arrives: notify_monitors charges some of the listed subscribers.
Forward(p) ==
  /\ task[p] = "loop"
  /\ p \notin ended
  /\ alive
  /\ \E S \in SUBSET monitors \ {{}} : plan' = [plan EXCEPT ![p] = S]
  /\ task' = [task EXCEPT ![p] = "fanout"]
  /\ UNCHANGED <<monitors, pumps, seq, ended, signalled, doomed, announcing, connVars, tableVars,
                 registered, alive>>

\* ... and deposits their frames one by one, outside the lock.
Deposit(p) ==
  /\ task[p] = "fanout"
  /\ \E s \in plan[p] :
       /\ plan' = [plan EXCEPT ![p] = @ \ {s}]
       /\ task' = [task EXCEPT ![p] = IF plan[p] = {s} THEN "loop" ELSE "fanout"]
  /\ UNCHANGED <<monitors, pumps, seq, ended, signalled, doomed, announcing, connVars, tableVars,
                 registered, alive>>

Interruptible_Anywhere(p) == task[p] \in {"loop", "fanout"}
Interruptible(p) == task[p] = "loop"

\* The shutdown branch of the select, at the top of the loop only.
TakeShutdown(p) ==
  /\ Interruptible(p)
  /\ p \in signalled
  /\ task' = [task EXCEPT ![p] = "exit"]
  /\ UNCHANGED <<monitors, pumps, seq, ended, signalled, plan, doomed, announcing, connVars, tableVars,
                 registered, alive>>

Mine_Anyone(p) == pumps # NoPump
Mine(p) == pumps # NoPump /\ pumps.id = p

Custody_Nobody(p) == {}

\* begin_pump_teardown: whom pump p takes custody of.
Custody(p) == IF Mine(p) THEN monitors ELSE {}

BeginTeardown(p) ==
  /\ task[p] = "loop"
  /\ p \in ended
  /\ alive
  /\ doomed' = [doomed EXCEPT ![p] = Custody(p)]
  /\ monitors' = monitors \ Custody(p)
  /\ pumps' = IF Mine(p) THEN [pumps EXCEPT !.exiting = TRUE] ELSE pumps
  /\ task' = [task EXCEPT ![p] = "teardown"]
  /\ UNCHANGED <<seq, ended, signalled, plan, announcing, connVars, tableVars, registered, alive>>

\* channel_for_monitor finds the channel of s.
Reachable(s) == Owner(s) \in registered /\ s \in bound /\ ChannelOf[s] \in channels

Owed_Nothing(ch) == {}

\* What remove_channel_if_current leaves to announce: nothing of a channel whose
\* cid names a newer one.
Owed(ch) == {ch} \ superseded

\* destroy_subs, one subscriber: its channel is retracted under the tables' lock.
RetractSub(p) ==
  /\ task[p] = "teardown"
  /\ announcing[p] = {}
  /\ \E s \in doomed[p] :
       /\ doomed' = [doomed EXCEPT ![p] = @ \ {s}]
       /\ \/ /\ Reachable(s)
             /\ CloseChannel(ChannelOf[s])
             /\ announcing' = [announcing EXCEPT ![p] = Owed(ChannelOf[s])]
          \/ /\ ~Reachable(s)
             /\ UNCHANGED <<bound, channels, announcing>>
  /\ UNCHANGED <<monitors, pumps, seq, task, ended, signalled, plan, connVars, superseded, told,
                 registered, alive>>

\* ... and announced once the lock is released, if the connection is still there.
AnnounceSub(p) ==
  /\ task[p] = "teardown"
  /\ announcing[p] # {}
  /\ told' = told \union {ch \in announcing[p] : ConnOf[ch] \in registered}
  /\ announcing' = [announcing EXCEPT ![p] = {}]
  /\ UNCHANGED <<monitors, pumps, seq, task, ended, signalled, plan, doomed, connVars, bound,
                 channels, superseded, registered, alive>>

Drained_Told(p) == doomed[p] = {} /\ announcing[p] = {} /\ told # {}
Drained(p) == doomed[p] = {} /\ announcing[p] = {}

FinishTeardown(p) ==
  /\ task[p] = "teardown"
  /\ Drained(p)
  /\ task' = [task EXCEPT ![p] = "exit"]
  /\ UNCHANGED <<monitors, pumps, seq, ended, signalled, plan, doomed, announcing, connVars, tableVars,
                 registered, alive>>

\* Weak::upgrade fails at the end of the stream, or on a payload.
Orphaned(p) ==
  /\ task[p] = "loop"
  /\ ~alive
  /\ task' = [task EXCEPT ![p] = "exit"]
  /\ UNCHANGED <<monitors, pumps, seq, ended, signalled, plan, doomed, announcing, connVars, tableVars,
                 registered, alive>>

\* The task's last statement: retire_pump_generation, by id.  Removing a
\* handle drops its shutdown sender.
RetireGeneration(p) ==
  /\ task[p] = "exit"
  /\ pumps' = IF Mine(p) THEN NoPump ELSE pumps
  /\ signalled' = IF Mine(p) THEN signalled \union {pumps.id} ELSE signalled
  /\ task' = [task EXCEPT ![p] = "done"]
  /\ UNCHANGED <<monitors, seq, ended, plan, doomed, announcing, connVars, tableVars,
                 registered, alive>>

-----------------------------------------------------------------------------
\* What a client, or the network, decides.
Client ==
  \/ \E s \in Subs : InitLookup(s) \/ DestroyRequest(s) \/ MonitorDestroy(s)
  \/ \E ch \in Channels : DestroyChannel(ch) \/ Supersede(ch)
  \/ \E c \in Conns : Disconnect(c)

\* The rest of a handler once it has begun, and the spawned cleanup.
Handler(c) ==
  \/ InitBind(c) \/ InitPush(c) \/ InitSubscribe(c) \/ InitNoStream(c)
  \/ KeepPump(c) \/ SpawnPump(c) \/ FinishRemove(c)
  \/ CleanupMonitors(c) \/ CleanupTables(c) \/ CleanupPump(c)

\* What a pump does on its own account.
Pump(p) ==
  \/ Deposit(p) \/ BeginTeardown(p) \/ RetractSub(p) \/ AnnounceSub(p) \/ FinishTeardown(p)
  \/ Orphaned(p) \/ RetireGeneration(p)

Next ==
  \/ Client
  \/ \E c \in Conns : Handler(c)
  \/ \E p \in Pumps : Pump(p) \/ TakeShutdown(p) \/ Forward(p) \/ EndStream(p)
  \/ DropRegistry

Spec == Init /\ [][Next]_vars

(***************************************************************************)
(* Fairness.  A runnable tokio task is polled again, so a handler that has *)
(* begun goes on and so does a pump.  The pump's select chooses at random  *)
(* among the branches that are ready, so a shutdown that stays ready is    *)
(* taken however many payloads arrive (SF).  Clients, the network and the  *)
(* source owe nothing.                                                     *)
(***************************************************************************)
FairSpec ==
  /\ Spec
  /\ \A c \in Conns : WF_vars(Handler(c))
  /\ \A p \in Pumps : WF_vars(Pump(p)) /\ SF_vars(TakeShutdown(p))

-----------------------------------------------------------------------------
(* Properties.                                                               *)

\* Every variable has the type the code gives it.
TypeOK ==
  /\ monitors \subseteq Subs /\ used \subseteq Subs
  /\ pumps \in PumpHandle \union {NoPump}
  /\ seq \in 0 .. MaxPumps
  /\ task \in [Pumps -> TaskPcs]
  /\ ended \subseteq Pumps /\ signalled \subseteq Pumps
  /\ plan \in [Pumps -> SUBSET Subs]
  /\ doomed \in [Pumps -> SUBSET Subs]
  /\ announcing \in [Pumps -> SUBSET Channels]
  /\ handler \in [Conns -> [pc : HandlerPcs, sub : Subs \union {NoSub}]]
  /\ \A c \in Conns : handler[c].pc \in Busy <=> handler[c].sub \in Subs
  /\ rows \subseteq Subs /\ bound \subseteq Subs
  /\ channels \subseteq Channels /\ superseded \subseteq Channels /\ told \subseteq Channels
  /\ registered \subseteq Conns
  /\ alive \in BOOLEAN

\* A task that still forwards and has not been asked to stop.
Running(p) == task[p] \in {"loop", "fanout"} /\ p \notin signalled

\* s is inside its own MONITOR INIT, which will still call ensure_pump.
Joining(s) == handler[Owner(s)].pc \in {"pushed", "subscribed"} /\ handler[Owner(s)].sub = s

(***************************************************************************)
(* No subscriber is ever left silent: while a subscription is listed,      *)
(* either its INIT has still to call ensure_pump or the handle in pumps is *)
(* that of a task that still forwards, or that will find its stream ended  *)
(* and announce it.  This is what retire_pump_if_idle, begin_pump_teardown *)
(* and ensure_pump are written for.                                        *)
(***************************************************************************)
NeverSilent ==
  \A s \in monitors : Joining(s) \/ (LivePump /\ Running(pumps.id))

(***************************************************************************)
(* A pump that runs unasked is the one in the map: retiring by name, by    *)
(* generation and replacing never lose track of a task, so two pumps only  *)
(* coexist while one of them has been told to stop.                        *)
(***************************************************************************)
OnePump ==
  \A p \in Pumps : Running(p) => LivePump /\ pumps.id = p

\* s is inside its own MONITOR INIT or removal.
InHandler(s) == handler[Owner(s)].sub = s

\* A pump still has to announce the end of s.
InCustody(s) == \E p \in Pumps : s \in doomed[p] \/ ChannelOf[s] \in announcing[p]

(***************************************************************************)
(* A subscription never disappears behind its client's back: as long as    *)
(* the connection task serves and holds the request, the request is listed *)
(* or being added or removed, or a pump is about to announce its end, or   *)
(* its channel's end was announced.  The one silence is the client's own   *)
(* doing: it gave the channel's cid to a newer channel without destroying  *)
(* this one, and destroy_subs closed this one without a word.              *)
(***************************************************************************)
NothingVanishes ==
  \A s \in rows :
    \/ s \in monitors \/ InHandler(s) \/ InCustody(s)
    \/ handler[Owner(s)].pc \in Left
    \/ ChannelOf[s] \in told \union (superseded \ channels)

OnlyTheCustodian ==
  \A p \in Pumps : (doomed'[p] \ doomed[p]) # {} =>
    /\ Mine(p)
    /\ \A q \in Pumps \ {p} : ~Running(q)

(***************************************************************************)
(* A pump destroys only what it fed: the step that takes custody of        *)
(* subscribers is taken by the pump in the map, and no other pump is       *)
(* serving them (the generation guard of begin_pump_teardown).             *)
(***************************************************************************)
DestroysItsOwn == [][OnlyTheCustodian]_vars

(***************************************************************************)
(* Every frame that was charged is deposited: a pump that is told to stop, *)
(* or whose stream ends, leaves no part of a fan-out behind (R1-L1).       *)
(***************************************************************************)
ChargedIsDeposited ==
  \A p \in Pumps : task[p] # "fanout" => plan[p] = {}

(***************************************************************************)
(* The end of a stream is announced: every subscriber its pump served is   *)
(* sent DESTROY_CHANNEL, unless it has left, has lost its connection, or   *)
(* has itself given the channel's cid to a newer channel.                  *)
(***************************************************************************)
EndAnnounced ==
  \A s \in Subs :
    (s \in monitors /\ LivePump /\ pumps.id \in ended)
      ~> \/ ChannelOf[s] \in told \union (superseded \ channels)
         \/ s \notin rows \/ Owner(s) \notin registered

\* A pump that was told to stop, or whose stream ended, terminates.
PumpTerminates ==
  \A p \in Pumps : (p \in signalled \union ended) ~> (task[p] = "done")
=============================================================================
