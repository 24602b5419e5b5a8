--------------------------- MODULE GatewayMonitor ---------------------------
(***************************************************************************)
(* The gateway's shared upstream monitors: MonitorCache, the supervisor    *)
(* task of each entry, and the bindings that answer downstream searches.   *)
(* One upstream PV, reached through one client, under one downstream name  *)
(* or several (a pvlist ALIAS).  A subscription is one receiver the        *)
(* server asks the gateway for; an entry is one MonitorEntry together with *)
(* its upstream task and its supervisor.  Every critical section of the    *)
(* map lock is one step, and so is every lock-free step between two.       *)
(***************************************************************************)
EXTENDS Naturals, FiniteSets

CONSTANTS
  Names,       \* downstream names of the PV
  Subs,        \* the subscriptions the server asks for
  NameOf,      \* the name each is asked for under
  MaxEntries   \* bound: upstream monitors opened

ASSUME ConstantsOK ==
  /\ NameOf \in [Subs -> Names]
  /\ MaxEntries \in Nat

VARIABLES
  bindings,    \* GatewaySource::bindings: the names that are bound
  current,     \* MonitorCache::entries: the key's entry, 0 when there is none
  count,       \* entries created so far
  subs,        \* MonitorEntry::subs: the senders of each entry
  handle,      \* MonitorEntry::upstream: "none", "attached" or "taken"
  namedFor,    \* down_name, captured by the entry's supervisor
  task,        \* where the upstream subscription task is
  sup,         \* where the supervisor is
  sub,         \* where each subscription is
  outlived,    \* history: bindings older than the end of the entry's upstream
  cause        \* history: who ended the upstream task, "us" or "upstream"

cacheVars == <<current, count, subs, handle, namedFor>>
taskVars == <<task, cause>>
vars == <<bindings, cacheVars, taskVars, sup, sub, outlived>>

Entries == 1 .. MaxEntries
Created == 1 .. count

\* A receiver lives from the moment it is made until the server drops it.
Open(s) == sub[s] \in {"starting", "receiving"}
OpenSubs(e) == {s \in subs[e] : Open(s)}

Init ==
  /\ bindings = {}
  /\ current = 0 /\ count = 0
  /\ subs = [e \in Entries |-> {}]
  /\ handle = [e \in Entries |-> "none"]
  /\ namedFor = [e \in Entries |-> {}]
  /\ task = [e \in Entries |-> "unborn"]
  /\ sup = [e \in Entries |-> "unborn"]
  /\ sub = [s \in Subs |-> "asked"]
  /\ outlived = [e \in Entries |-> {}]
  /\ cause = [e \in Entries |-> "none"]

-----------------------------------------------------------------------------
(* Claiming and subscribing.                                                 *)

\* claim, fast path: the name is bound and its time to live has not run out.
ClaimBound(s) ==
  /\ sub[s] = "asked"
  /\ NameOf[s] \in bindings
  /\ sub' = [sub EXCEPT ![s] = "claimed"]
  /\ UNCHANGED <<bindings, cacheVars, taskVars, sup, outlived>>

\* claim, slow path: the name is looked up (there is no binding, or an old
\* one) and recorded after the await; record_binding replaces what is there.
\* An answer may be held while earlier clients time out.  It changes nothing
\* until it is recorded, so this is the step of the recording, which may come
\* at any point of an upstream's life or after its end.
RecordBinding(s) ==
  /\ sub[s] = "asked"
  /\ bindings' = bindings \union {NameOf[s]}
  /\ outlived' = [e \in Entries |-> outlived[e] \ {NameOf[s]}]
  /\ sub' = [sub EXCEPT ![s] = "claimed"]
  /\ UNCHANGED <<cacheVars, taskVars, sup>>

\* subscribe finds the binding gone: it returns None.
Decline(s) ==
  /\ sub[s] = "claimed"
  /\ NameOf[s] \notin bindings
  /\ sub' = [sub EXCEPT ![s] = "declined"]
  /\ UNCHANGED <<bindings, cacheVars, taskVars, sup, outlived>>

\* subscribe reads client and real name from the binding ...
ReadBinding(s) ==
  /\ sub[s] = "claimed"
  /\ NameOf[s] \in bindings
  /\ sub' = [sub EXCEPT ![s] = "bound"]
  /\ UNCHANGED <<bindings, cacheVars, taskVars, sup, outlived>>

\* ... and joins the entry there is, pruning the senders that are closed, ...
Join(s) ==
  /\ sub[s] = "bound"
  /\ current # 0
  /\ subs' = [subs EXCEPT ![current] = OpenSubs(current) \union {s}]
  /\ sub' = [sub EXCEPT ![s] = "receiving"]
  /\ UNCHANGED <<bindings, current, count, handle, namedFor, taskVars, sup, outlived>>

\* ... or enters a new one, under the map lock, ...
Enter(s) ==
  /\ sub[s] = "bound"
  /\ current = 0
  /\ count < MaxEntries
  /\ count' = count + 1
  /\ current' = count'
  /\ subs' = [subs EXCEPT ![count'] = {s}]
  /\ namedFor' = [namedFor EXCEPT ![count'] = {NameOf[s]}]
  /\ sub' = [sub EXCEPT ![s] = "starting"]
  /\ UNCHANGED <<bindings, handle, taskVars, sup, outlived>>

\* ... and, once the lock is released, spawns the upstream monitor, ...
SpawnUpstream(s, e) ==
  /\ sub[s] = "starting" /\ s \in subs[e]
  /\ task[e] = "unborn"
  /\ task' = [task EXCEPT ![e] = "running"]
  /\ UNCHANGED <<bindings, cacheVars, cause, sup, sub, outlived>>

AttachUpstream_Unsupervised(s, e) ==
  /\ sub[s] = "starting" /\ s \in subs[e]
  /\ task[e] # "unborn"
  /\ handle' = [handle EXCEPT ![e] = "attached"]
  /\ sub' = [sub EXCEPT ![s] = "receiving"]
  /\ UNCHANGED <<bindings, current, count, subs, namedFor, taskVars, sup, outlived>>

\* ... attaches its handle, spawns the supervisor and returns the receiver.
AttachUpstream(s, e) ==
  /\ sub[s] = "starting" /\ s \in subs[e]
  /\ task[e] # "unborn"
  /\ handle' = [handle EXCEPT ![e] = "attached"]
  /\ sup' = [sup EXCEPT ![e] = "select"]
  /\ sub' = [sub EXCEPT ![s] = "receiving"]
  /\ UNCHANGED <<bindings, current, count, subs, namedFor, taskVars, outlived>>

\* The server drops the receiver: nobody wants it, or a pump exists already.
DropReceiver(s) ==
  /\ sub[s] = "receiving"
  /\ sub' = [sub EXCEPT ![s] = "dropped"]
  /\ UNCHANGED <<bindings, cacheVars, taskVars, sup, outlived>>

-----------------------------------------------------------------------------
(* The upstream task and its callback.                                       *)

\* A tick: dispatch sends to all and prunes the closed; full ones are kept.
Dispatch(e) ==
  /\ task[e] = "running"
  /\ subs' = [subs EXCEPT ![e] = OpenSubs(e)]
  /\ task' = [task EXCEPT ![e] = IF OpenSubs(e) = {} THEN "emptied" ELSE "running"]
  /\ UNCHANGED <<bindings, current, count, handle, namedFor, cause, sup, sub, outlived>>

\* The map without e, if e is what the map holds (Arc::ptr_eq).
Unlisted(e) == IF current = e THEN 0 ELSE current

StillEmpty_Assumed(e) == TRUE

\* The check repeated under the map lock.
StillEmpty(e) == subs[e] = {}

\* dispatch_or_retire: the entry leaves the map unless somebody joined ...
RetireEmpty(e) ==
  /\ task[e] = "emptied"
  /\ \/ /\ StillEmpty(e)
        /\ current' = Unlisted(e)
        /\ task' = [task EXCEPT ![e] = "unlisted"]
     \/ /\ ~StillEmpty(e)
        /\ task' = [task EXCEPT ![e] = "running"]
        /\ UNCHANGED current
  /\ UNCHANGED <<bindings, count, subs, handle, namedFor, cause, sup, sub, outlived>>

\* What cancel_upstream leaves on the entry.
Taken_Left(e) == handle[e]
Taken(e) == "taken"

\* ... and takes its own handle off the entry before the callback breaks.
CancelInCallback(e) ==
  /\ task[e] = "unlisted"
  /\ handle' = [handle EXCEPT ![e] = Taken(e)]
  /\ task' = [task EXCEPT ![e] = "signalled"]
  /\ cause' = [cause EXCEPT ![e] = "us"]
  /\ UNCHANGED <<bindings, current, count, subs, namedFor, sup, sub, outlived>>

\* The upstream closes, errors or was never reached; the task drops the
\* callback and with it the EndSignal.
UpstreamEnds(e) ==
  /\ task[e] = "running"
  /\ handle[e] # "taken"
  /\ task' = [task EXCEPT ![e] = "signalled"]
  /\ cause' = [cause EXCEPT ![e] = "upstream"]
  /\ outlived' = [outlived EXCEPT ![e] = bindings]
  /\ UNCHANGED <<bindings, cacheVars, sup, sub>>

\* Somebody dropped the handle: the task is cancelled.
Cancelled(e) ==
  /\ task[e] = "running"
  /\ handle[e] = "taken"
  /\ task' = [task EXCEPT ![e] = "signalled"]
  /\ cause' = [cause EXCEPT ![e] = "us"]
  /\ UNCHANGED <<bindings, cacheVars, sup, sub, outlived>>

\* MonitorHandle::is_finished, shortly after the EndSignal has fired.
Finish(e) ==
  /\ task[e] = "signalled"
  /\ task' = [task EXCEPT ![e] = "finished"]
  /\ UNCHANGED <<bindings, cacheVars, cause, sup, sub, outlived>>

-----------------------------------------------------------------------------
(* The supervisor.                                                           *)

Signalled(e) == task[e] \in {"signalled", "finished"}

SupMoves(e, from, to) == sup[e] = from /\ sup' = [sup EXCEPT ![e] = to]

\* select!, biased: the end signal first, ...
SeeEnd(e) ==
  /\ Signalled(e)
  /\ SupMoves(e, "select", "over")
  /\ UNCHANGED <<bindings, cacheVars, taskVars, sub, outlived>>

\* ... the sweep's ticker otherwise.
SweepTick(e) ==
  /\ ~Signalled(e)
  /\ SupMoves(e, "select", "ticked")
  /\ UNCHANGED <<bindings, cacheVars, taskVars, sub, outlived>>

\* upstream_state
CheckUpstream(e) ==
  /\ SupMoves(e, "ticked", IF handle[e] = "taken" THEN "done"
                           ELSE IF task[e] = "finished" THEN "over" ELSE "sweep")
  /\ UNCHANGED <<bindings, cacheVars, taskVars, sub, outlived>>

Idle_Listed(e) == subs[e] = {}

\* Every sender is closed, pruned or not.
Idle(e) == OpenSubs(e) = {}

\* retire_if_idle, under the map lock ...
Sweep(e) ==
  /\ \/ /\ Idle(e)
        /\ SupMoves(e, "sweep", "cancelling")
        /\ current' = Unlisted(e)
     \/ /\ ~Idle(e)
        /\ SupMoves(e, "sweep", "select")
        /\ UNCHANGED current
  /\ UNCHANGED <<bindings, count, subs, handle, namedFor, taskVars, sub, outlived>>

\* ... and after it: cancel_upstream and close_all.
CancelIdle(e) ==
  /\ SupMoves(e, "cancelling", "done")
  /\ handle' = [handle EXCEPT ![e] = Taken(e)]
  /\ subs' = [subs EXCEPT ![e] = {}]
  /\ UNCHANGED <<bindings, current, count, namedFor, taskVars, sub, outlived>>

AfterEnd_Done(e) == "done"

\* A handle still attached means that nobody here ended the task.
AfterEnd(e) == IF handle[e] = "taken" THEN "done" ELSE "retire"

\* The task is over: take_upstream decides what that was.
TakeUpstream(e) ==
  /\ SupMoves(e, "over", AfterEnd(e))
  /\ handle' = [handle EXCEPT ![e] = "taken"]
  /\ UNCHANGED <<bindings, current, count, subs, namedFor, taskVars, sub, outlived>>

\* A death is undone in this order: the entry, the binding, the receivers.
Retire(e) ==
  /\ SupMoves(e, "retire", "unbind")
  /\ current' = Unlisted(e)
  /\ UNCHANGED <<bindings, count, subs, handle, namedFor, taskVars, sub, outlived>>

Unbound_None(e) == {}
Unbound(e) == namedFor[e]

RetireBinding(e) ==
  /\ SupMoves(e, "unbind", "close")
  /\ bindings' = bindings \ Unbound(e)
  /\ outlived' = [f \in Entries |-> outlived[f] \ Unbound(e)]
  /\ UNCHANGED <<cacheVars, taskVars, sub>>

\* close_all: the receivers see the end of their stream.
CloseAll(e) ==
  /\ SupMoves(e, "close", "done")
  /\ sub' = [s \in Subs |-> IF s \in OpenSubs(e) THEN "ended" ELSE sub[s]]
  /\ subs' = [subs EXCEPT ![e] = {}]
  /\ UNCHANGED <<bindings, current, count, handle, namedFor, taskVars, outlived>>

-----------------------------------------------------------------------------
TaskStep(e) ==
  \/ RetireEmpty(e) \/ CancelInCallback(e) \/ Cancelled(e) \/ Finish(e)

SupStep(e) ==
  \/ SeeEnd(e) \/ SweepTick(e) \/ CheckUpstream(e) \/ Sweep(e) \/ CancelIdle(e)
  \/ TakeUpstream(e) \/ Retire(e) \/ RetireBinding(e) \/ CloseAll(e)

StartStep(e) == \E s \in Subs : SpawnUpstream(s, e) \/ AttachUpstream(s, e)

Next ==
  \/ \E s \in Subs : ClaimBound(s) \/ RecordBinding(s) \/ Decline(s) \/ ReadBinding(s)
                       \/ Join(s) \/ Enter(s) \/ DropReceiver(s)
  \/ \E e \in Entries : StartStep(e) \/ Dispatch(e) \/ UpstreamEnds(e) \/ TaskStep(e) \/ SupStep(e)

Spec == Init /\ [][Next]_vars

(***************************************************************************)
(* Tokio polls every task that is ready, the sweep's ticker never stops,   *)
(* and a callback or a subscribe that has begun runs to its end.  Nothing  *)
(* is assumed of the clients or of the upstream.                           *)
(***************************************************************************)
FairSpec ==
  Spec /\ \A e \in Entries : WF_vars(StartStep(e)) /\ WF_vars(TaskStep(e)) /\ WF_vars(SupStep(e))

-----------------------------------------------------------------------------
(* Properties.                                                               *)

\* The states each field of an entry, and each subscription, can be in; an
\* entry has a supervisor from the moment its handle is attached.
TypeOK ==
  /\ bindings \subseteq Names
  /\ count \in 0 .. MaxEntries /\ current \in 0 .. count
  /\ subs \in [Entries -> SUBSET Subs]
  /\ handle \in [Entries -> {"none", "attached", "taken"}]
  /\ namedFor \in [Entries -> SUBSET Names]
  /\ task \in [Entries -> {"unborn", "running", "emptied", "unlisted", "signalled", "finished"}]
  /\ sup \in [Entries -> {"unborn", "select", "ticked", "sweep", "cancelling", "over", "retire",
                          "unbind", "close", "done"}]
  /\ sub \in [Subs -> {"asked", "claimed", "declined", "bound", "starting", "receiving",
                       "dropped", "ended"}]
  /\ outlived \in [Entries -> SUBSET Names]
  /\ cause \in [Entries -> {"none", "us", "upstream"}]
  /\ \A e \in Entries : handle[e] = "none" <=> sup[e] = "unborn"

\* A death is being dealt with.
Dying(e) == sup[e] \in {"retire", "unbind", "close"}

(***************************************************************************)
(* No receiver is stranded on an entry that has been retired: as long as   *)
(* one is open, its entry is being started, holds its upstream's handle,   *)
(* or is in the hands of a supervisor that is about to close it.           *)
(***************************************************************************)
NobodyStranded ==
  \A e \in Created : OpenSubs(e) # {} =>
    \/ sup[e] = "unborn" /\ current = e
    \/ handle[e] = "attached" /\ sup[e] # "done" /\ (current = e \/ Signalled(e))
    \/ Dying(e)

(***************************************************************************)
(* No upstream monitor is leaked: one that runs with its handle attached   *)
(* is the entry in the map, or the task that unlisted it is on its way to  *)
(* cancelling it.                                                          *)
(***************************************************************************)
NoLeakedUpstream ==
  \A e \in Created : task[e] = "running" =>
    current = e \/ handle[e] = "taken" \/ sup[e] = "cancelling"

(***************************************************************************)
(* "a handle still attached here means the upstream ended on its own": no  *)
(* deliberate stop is ever taken for the death of the upstream.            *)
(***************************************************************************)
DeathIsReal == \A e \in Created : Dying(e) => cause[e] = "upstream"

(***************************************************************************)
(* A subscription that is told of the end of its upstream finds the        *)
(* binding it came by gone, so that its next search is not answered from   *)
(* a binding that was recorded before the end.  One that a concurrent      *)
(* lookup records after it is new, however old the answer.                 *)
(***************************************************************************)
WokenIsUnbound ==
  [][\A e \in Entries : \A s \in Subs :
       (s \in subs[e] /\ sub[s] = "receiving" /\ sub'[s] = "ended") => NameOf[s] \notin outlived[e]]_vars

(***************************************************************************)
(* The end of an upstream reaches every receiver that was open.            *)
(***************************************************************************)
EndReachesAll ==
  \A e \in Entries : (Signalled(e) /\ OpenSubs(e) # {}) ~> (OpenSubs(e) = {})

(***************************************************************************)
(* An upstream that nobody listens to is stopped, ticking or not, unless   *)
(* somebody joins it in time.                                              *)
(***************************************************************************)
IdleIsStopped ==
  \A e \in Entries : (task[e] = "running" /\ OpenSubs(e) = {}) ~> (Signalled(e) \/ OpenSubs(e) # {})
=============================================================================
