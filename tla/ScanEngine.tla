----------------------------- MODULE ScanEngine -----------------------------
(***************************************************************************)
(* The IOC's scan engine: the scan lists, the thread of each period, the   *)
(* scan_once queue with its drain thread, the client writes to SCAN, EVNT  *)
(* and PHAS that move records between lists while the threads run, and     *)
(* the start and shutdown of it all.  Each critical section of the         *)
(* periodic, event or I/O list lock, of the record's lock set and of the   *)
(* clock's lock is one step.  PHAS orders the members within a list and is *)
(* left out; what processing a record does is another module's business.   *)
(***************************************************************************)
EXTENDS Naturals, FiniteSets

CONSTANTS
  Records,
  Periods,       \* the periods clients may ask for
  EventNames,    \* the values of EVNT other than the empty one
  Clients,       \* tasks that write SCAN, EVNT or PHAS
  Writes,        \* the records each client writes to
  Interrupting,  \* the records a driver may bind to its interrupt
  Databases,     \* the SCAN and EVNT fields the records may be loaded with
  MaxPeriods,    \* MAX_PERIODIC_THREADS
  QueueCapacity, \* SCAN_ONCE_CAPACITY
  MaxSpawns,     \* bound: threads spawned for one period
  MaxPuts        \* bound: writes each client makes

Specs == Periods \union {"Event", "I/O Intr", "Passive"}
Events == EventNames \union {""}

ASSUME ConstantsOK ==
  /\ Periods \cap {"Event", "I/O Intr", "Passive"} = {} /\ "" \notin EventNames
  /\ Writes \in [Clients -> SUBSET Records] /\ Interrupting \subseteq Records
  /\ Databases \subseteq [scan_raw : [Records -> Specs], evnt : [Records -> Events]]
  /\ {MaxPeriods, QueueCapacity, MaxSpawns, MaxPuts} \subseteq Nat

Threads == Periods \X (1 .. MaxSpawns)
Drain == <<"drain", 0>>
Owner == <<"owner", 0>>

VARIABLES
  scan_raw, evnt,       \* the records' SCAN and EVNT fields
  rebound,              \* history: records bound to an interrupt since SCAN was last stored
  periodic, events, io_intr,   \* the scan lists; an empty one has no entry
  thread_keys,          \* the threads that own their period's slot
  spawned,              \* threads spawned for each period
  retired,              \* threads whose retire flag is set
  thread,               \* where each periodic thread is
  unspawnable,          \* periods whose last spawn failed
  threads,              \* Scanner::threads, the handles shutdown will join
  weak,                 \* has start() published self_weak?
  stop,
  owned,                \* does the owner still hold its Arc<Scanner>?
  queue, sender, drain, \* scan_once: requests waiting, open?, its thread
  start, down,          \* where start() and shutdown() are
  downBy, joining,      \* who runs shutdown, and what it waits for
  client                \* where each write is

fieldVars == <<scan_raw, evnt, rebound>>
listVars == <<periodic, events, io_intr>>
slotVars == <<thread_keys, spawned, retired, unspawnable, threads>>
onceVars == <<queue, sender, drain>>
lifeVars == <<weak, stop, owned, start, down, downBy, joining>>
vars == <<fieldVars, listVars, slotVars, thread, onceVars, lifeVars, client>>

IdleAfter(n) == [pc |-> "idle", rec |-> CHOOSE r \in Records : TRUE, spec |-> "Passive",
                 event |-> "", puts |-> n]

Init ==
  /\ \E db \in Databases : scan_raw = db.scan_raw /\ evnt = db.evnt
  /\ rebound = {}
  /\ periodic = [p \in Periods |-> {}] /\ events = [e \in EventNames |-> {}] /\ io_intr = {}
  /\ thread_keys = {} /\ spawned = [p \in Periods |-> 0] /\ retired = {}
  /\ thread = [t \in Threads |-> "unborn"] /\ unspawnable = {} /\ threads = {}
  /\ weak = FALSE /\ stop = FALSE /\ owned = TRUE
  /\ queue = 0 /\ sender = TRUE /\ drain = "unborn"
  /\ start = "new" /\ down = "no" /\ downBy = Owner /\ joining = {}
  /\ client = [c \in Clients |-> IdleAfter(0)]

-----------------------------------------------------------------------------
(* The lists and the threads' slots.                                         *)

Slot(p) == {t \in thread_keys : t[1] = p}
Used == {p \in Periods : periodic[p] # {}}

\* add_periodic refuses a period that would exceed the limit.
Refused(p) == p \notin Used /\ Cardinality(Used) >= MaxPeriods

Wanting_Rival(P) == IF weak /\ ~stop THEN P ELSE {}
Wanting_AfterStop(P) == IF weak THEN {p \in P : Slot(p) = {}} ELSE {}

\* ensure_periodic_thread_at: the periods of P that get a thread now.
Wanting(P) == IF weak /\ ~stop THEN {p \in P : Slot(p) = {}} ELSE {}

\* One thread is spawned for each period of P that wants one; the operating
\* system may refuse (F), and then the slot is given back.
EnsureThreads(P) ==
  \E F \in SUBSET Wanting(P) :
    LET born == {<<p, spawned[p] + 1>> : p \in Wanting(P) \ F} IN
    /\ born \subseteq Threads
    /\ thread_keys' = thread_keys \union born
    /\ spawned' = [p \in Periods |-> IF p \in Wanting(P) \ F THEN spawned[p] + 1 ELSE spawned[p]]
    /\ thread' = [t \in Threads |-> IF t \in born THEN "top" ELSE thread[t]]
    /\ threads' = {t \in threads : Wanting(P) = {} \/ thread[t] # "done"} \union born
    /\ unspawnable' = (unspawnable \ Wanting(P)) \union F
    /\ UNCHANGED retired

AddPeriodic(r, p) ==
  /\ ~Refused(p)
  /\ periodic' = [periodic EXCEPT ![p] = @ \union {r}]
  /\ EnsureThreads({p})

Emptied(r) == {p \in Periods : periodic[p] = {r}}

Freed_Kept(P) == thread_keys
Freed(P) == {t \in thread_keys : t[1] \notin P}

RetiredWith(P) == {t \in thread_keys : t[1] \in P}

\* remove_periodic, under the periodic lock: a list left empty goes, and its
\* thread's flag is set.
RemovePeriodic(r) ==
  /\ periodic' = [p \in Periods |-> periodic[p] \ {r}]
  /\ thread_keys' = Freed(Emptied(r))
  /\ retired' = retired \union RetiredWith(Emptied(r))
  /\ unspawnable' = unspawnable \ Emptied(r)
  /\ UNCHANGED <<spawned, threads>>

\* wake_all: every thread that sleeps on the clock returns from its sleep.
WakeAll == thread' = [t \in Threads |-> IF thread[t] = "wait" THEN "top" ELSE thread[t]]

\* add_event does nothing for an empty EVNT.
AddEvent(r, e) ==
  events' = [f \in EventNames |-> IF f = e THEN events[f] \union {r} ELSE events[f]]

UnregisterIoIntr_Forgotten(r) == io_intr
UnregisterIoIntr(r) == io_intr \ {r}

RemoveEvent(r) == events' = [f \in EventNames |-> events[f] \ {r}]

-----------------------------------------------------------------------------
(* Client writes.                                                            *)

At(c, pc) == client[c].pc = pc
Goto(c, pc) == client' = [client EXCEPT ![c].pc = pc]
Return(c) == client' = [client EXCEPT ![c] = IdleAfter(@.puts)]

\* Clients are served once the lists are loaded, and as long as the owner is there.
MayWrite(c, r) ==
  At(c, "idle") /\ r \in Writes[c] /\ client[c].puts < MaxPuts /\ owned /\ start # "new"

\* check_period: a slot is free, or r's own move frees one.
Schedulable(r, p) ==
  p \in Used \/ Cardinality(Used) - (IF Emptied(r) # {} THEN 1 ELSE 0) < MaxPeriods

\* A write to SCAN that parses and can be scheduled; others change nothing.
PutScan(c, r, spec) ==
  /\ MayWrite(c, r)
  /\ spec \in Periods => Schedulable(r, spec)
  /\ client' = [client EXCEPT ![c] = [pc |-> "store", rec |-> r, spec |-> spec, event |-> "",
                                      puts |-> @.puts + 1]]
  /\ UNCHANGED <<fieldVars, listVars, slotVars, thread, onceVars, lifeVars>>

\* The field is stored, and EVNT read, under the record's lock.
StoreScan(c) ==
  /\ At(c, "store")
  /\ scan_raw' = [scan_raw EXCEPT ![client[c].rec] = client[c].spec]
  /\ client' = [client EXCEPT ![c].pc = "unlist", ![c].event = evnt[client[c].rec]]
  /\ rebound' = rebound \ {client[c].rec}
  /\ UNCHANGED <<evnt, listVars, slotVars, thread, onceVars, lifeVars>>

\* The record leaves every list, one list lock after the other ...
UnlistPeriodic(c) ==
  /\ At(c, "unlist")
  /\ RemovePeriodic(client[c].rec)
  /\ Goto(c, IF RetiredWith(Emptied(client[c].rec)) # {} THEN "wake" ELSE "unlist_event")
  /\ UNCHANGED <<fieldVars, events, io_intr, thread, onceVars, lifeVars>>

WakeRetired(c) ==
  /\ At(c, "wake")
  /\ WakeAll
  /\ Goto(c, "unlist_event")
  /\ UNCHANGED <<fieldVars, listVars, slotVars, onceVars, lifeVars>>

UnlistEvent(c) ==
  /\ At(c, "unlist_event")
  /\ RemoveEvent(client[c].rec)
  /\ Goto(c, "unlist_io")
  /\ UNCHANGED <<fieldVars, periodic, io_intr, slotVars, thread, onceVars, lifeVars>>

UnlistIo(c) ==
  /\ At(c, "unlist_io")
  /\ io_intr' = UnregisterIoIntr(client[c].rec)
  /\ Goto(c, "list")
  /\ UNCHANGED <<fieldVars, periodic, events, slotVars, thread, onceVars, lifeVars>>

\* ... and joins the one its specification names.
ListPeriodic(c) ==
  /\ At(c, "list") /\ client[c].spec \in Periods
  /\ \/ /\ AddPeriodic(client[c].rec, client[c].spec)
     \/ /\ Refused(client[c].spec)
        /\ UNCHANGED <<periodic, slotVars, thread>>
  /\ Return(c)
  /\ UNCHANGED <<fieldVars, events, io_intr, onceVars, lifeVars>>

ListEvent(c) ==
  /\ At(c, "list") /\ client[c].spec = "Event"
  /\ AddEvent(client[c].rec, client[c].event)
  /\ Return(c)
  /\ UNCHANGED <<fieldVars, periodic, io_intr, slotVars, thread, onceVars, lifeVars>>

ListNowhere(c) ==
  /\ At(c, "list") /\ client[c].spec \in {"I/O Intr", "Passive"}
  /\ Return(c)
  /\ UNCHANGED <<fieldVars, listVars, slotVars, thread, onceVars, lifeVars>>

\* A write to PHAS reads SCAN and EVNT and lists the record again.
PutPhas(c, r) ==
  /\ MayWrite(c, r)
  /\ client' = [client EXCEPT ![c] = [pc |-> "list", rec |-> r, spec |-> scan_raw[r],
                                      event |-> evnt[r], puts |-> @.puts + 1]]
  /\ UNCHANGED <<fieldVars, listVars, slotVars, thread, onceVars, lifeVars>>

\* A write to EVNT stores it and, for an event record, moves it over.
PutEvnt(c, r, e) ==
  /\ MayWrite(c, r)
  /\ evnt' = [evnt EXCEPT ![r] = e]
  /\ client' = [client EXCEPT ![c] =
                  IF scan_raw[r] = "Event"
                    THEN [pc |-> "relist", rec |-> r, spec |-> "Event", event |-> e, puts |-> @.puts + 1]
                    ELSE IdleAfter(@.puts + 1)]
  /\ UNCHANGED <<scan_raw, rebound, listVars, slotVars, thread, onceVars, lifeVars>>

UnlistOldEvent(c) ==
  /\ At(c, "relist")
  /\ RemoveEvent(client[c].rec)
  /\ Goto(c, "list")
  /\ UNCHANGED <<fieldVars, periodic, io_intr, slotVars, thread, onceVars, lifeVars>>

\* A driver binds a record to its interrupt source.
RegisterIoIntr(r) ==
  /\ owned /\ r \in Interrupting \ io_intr
  /\ io_intr' = io_intr \union {r} /\ rebound' = rebound \union {r}
  /\ UNCHANGED <<scan_raw, evnt, periodic, events, slotVars, thread, onceVars, lifeVars, client>>

-----------------------------------------------------------------------------
(* start(), on the owner's thread.                                           *)

\* load_from_db: in definition order, so any periods may be the ones refused.
LoadFromDb ==
  /\ start = "new"
  /\ \E P \in SUBSET {scan_raw[r] : r \in Records} :
       /\ P \subseteq Periods /\ Cardinality(P) <= MaxPeriods
       /\ Cardinality(P) < MaxPeriods => P = {scan_raw[r] : r \in Records} \cap Periods
       /\ periodic' = [p \in Periods |-> IF p \in P THEN {r \in Records : scan_raw[r] = p} ELSE {}]
  /\ events' = [e \in EventNames |-> {r \in Records : scan_raw[r] = "Event" /\ evnt[r] = e}]
  /\ start' = "loaded"
  /\ UNCHANGED <<fieldVars, io_intr, slotVars, thread, onceVars, weak, stop, owned, down, downBy,
                 joining, client>>

\* PINI has run; the weak handle is published before the keys are read.
PublishWeak ==
  /\ start = "loaded"
  /\ weak' = TRUE
  /\ start' = "published"
  /\ UNCHANGED <<fieldVars, listVars, slotVars, thread, onceVars, stop, owned, down, downBy,
                 joining, client>>

\* Every period in use gets its thread, under the periodic lock.
SpawnThreads ==
  /\ start = "published"
  /\ EnsureThreads(Used)
  /\ start' = "spawned"
  /\ UNCHANGED <<fieldVars, listVars, onceVars, weak, stop, owned, down, downBy, joining, client>>

SpawnDrain ==
  /\ start = "spawned"
  /\ drain' = "recv"
  /\ start' = "started"
  /\ UNCHANGED <<fieldVars, listVars, slotVars, thread, queue, sender, weak, stop, owned, down,
                 downBy, joining, client>>

-----------------------------------------------------------------------------
(* The periodic threads.                                                     *)

Done(t) == stop \/ t \in retired

Moves(t, from, to) == thread[t] = from /\ thread' = [thread EXCEPT ![t] = to]

\* while !done()
LoopTop(t) ==
  /\ Moves(t, "top", IF Done(t) THEN "done" ELSE "sleep")
  /\ UNCHANGED <<fieldVars, listVars, slotVars, onceVars, lifeVars, client>>

SeesCancel_Never(t) == FALSE
SeesCancel(t) == Done(t)

\* sleep_until_or: the flags are read under the clock's lock before waiting.
FallAsleep(t) ==
  /\ Moves(t, "sleep", IF SeesCancel(t) THEN "top" ELSE "wait")
  /\ UNCHANGED <<fieldVars, listVars, slotVars, onceVars, lifeVars, client>>

Deadline(t) ==
  /\ Moves(t, "wait", "tick")
  /\ UNCHANGED <<fieldVars, listVars, slotVars, onceVars, lifeVars, client>>

Processing == {t \in Threads : thread[t] = "process"}

\* The Scanner is alive while somebody holds an Arc to it.
Alive == owned \/ Processing # {} \/ drain = "process"

\* A tick upgrades the weak handle and processes the list's members, if the
\* thread was not told to stop and the Scanner is still there.
Tick(t) ==
  /\ Moves(t, "tick", IF Done(t) \/ ~Alive THEN "done" ELSE "process")
  /\ UNCHANGED <<fieldVars, listVars, slotVars, onceVars, lifeVars, client>>

\* The last holder of the Scanner to let go runs Drop, that is shutdown().
Lets(who) == ~owned /\ Processing \union (IF drain = "process" THEN {Drain} ELSE {}) = {who}

EndPass(t) ==
  /\ Moves(t, "process", IF Lets(t) THEN "dropping" ELSE "top")
  /\ IF Lets(t) THEN down' = "stop" /\ downBy' = t ELSE UNCHANGED <<down, downBy>>
  /\ UNCHANGED <<fieldVars, listVars, slotVars, onceVars, weak, stop, owned, start, joining, client>>

\* shutdown() has returned on this thread; it goes on with its loop.
Dropped(t) ==
  /\ down = "done" /\ downBy = t
  /\ Moves(t, "dropping", "top")
  /\ UNCHANGED <<fieldVars, listVars, slotVars, onceVars, lifeVars, client>>

-----------------------------------------------------------------------------
(* scan_once and its drain thread.                                           *)

ScanOnce_Unbounded ==
  /\ owned /\ sender
  /\ queue' = queue + 1
  /\ UNCHANGED <<fieldVars, listVars, slotVars, thread, sender, drain, lifeVars, client>>

\* A full queue drops the request; so does a closed one.
ScanOnce ==
  /\ owned /\ sender /\ queue < QueueCapacity
  /\ queue' = queue + 1
  /\ UNCHANGED <<fieldVars, listVars, slotVars, thread, sender, drain, lifeVars, client>>

DrainRecv ==
  /\ drain = "recv" /\ queue > 0
  /\ queue' = queue - 1
  /\ drain' = IF Alive THEN "process" ELSE "done"
  /\ UNCHANGED <<fieldVars, listVars, slotVars, thread, sender, lifeVars, client>>

DrainEndPass ==
  /\ drain = "process"
  /\ drain' = IF Lets(Drain) THEN "dropping" ELSE "recv"
  /\ IF Lets(Drain) THEN down' = "stop" /\ downBy' = Drain ELSE UNCHANGED <<down, downBy>>
  /\ UNCHANGED <<fieldVars, listVars, slotVars, thread, queue, sender, weak, stop, owned, start,
                 joining, client>>

DrainDropped ==
  /\ drain = "dropping" /\ down = "done" /\ downBy = Drain
  /\ drain' = "recv"
  /\ UNCHANGED <<fieldVars, listVars, slotVars, thread, queue, sender, lifeVars, client>>

\* recv() fails once the sender is gone and the queue is empty.
DrainExit ==
  /\ drain = "recv" /\ queue = 0 /\ ~sender
  /\ drain' = "done"
  /\ UNCHANGED <<fieldVars, listVars, slotVars, thread, queue, sender, lifeVars, client>>

-----------------------------------------------------------------------------
(* shutdown(), called by the owner or run by Drop.                           *)

\* The owner calls shutdown() and keeps its Arc, ...
CallShutdown ==
  /\ start = "started" /\ owned /\ down = "no"
  /\ down' = "stop" /\ downBy' = Owner
  /\ UNCHANGED <<fieldVars, listVars, slotVars, thread, onceVars, weak, stop, owned, start, joining,
                 client>>

\* ... or drops it, with no write in progress; the last one out runs Drop.
DropOwner ==
  /\ start = "started" /\ owned /\ down = "no"
  /\ \A c \in Clients : At(c, "idle")
  /\ owned' = FALSE
  /\ IF Processing = {} /\ drain # "process"
       THEN down' = "stop" /\ downBy' = Owner
       ELSE UNCHANGED <<down, downBy>>
  /\ UNCHANGED <<fieldVars, listVars, slotVars, thread, onceVars, weak, stop, start, joining, client>>

SetStop ==
  /\ down = "stop"
  /\ stop' = TRUE
  /\ down' = "wake"
  /\ UNCHANGED <<fieldVars, listVars, slotVars, thread, onceVars, weak, owned, start, downBy,
                 joining, client>>

WakeForStop ==
  /\ down = "wake"
  /\ WakeAll
  /\ down' = "close"
  /\ UNCHANGED <<fieldVars, listVars, slotVars, onceVars, weak, stop, owned, start, downBy, joining,
                 client>>

SenderAfterStop_Open == sender
SenderAfterStop == FALSE

CloseQueue ==
  /\ down = "close"
  /\ sender' = SenderAfterStop
  /\ down' = "take"
  /\ UNCHANGED <<fieldVars, listVars, slotVars, thread, queue, drain, weak, stop, owned, start,
                 downBy, joining, client>>

\* A thread does not join itself.
ToJoin_Everyone == threads \union {Drain}
ToJoin == (threads \union {Drain}) \ {downBy}

TakeHandles ==
  /\ down = "take"
  /\ joining' = ToJoin
  /\ threads' = {}
  /\ down' = "join"
  /\ UNCHANGED <<fieldVars, listVars, thread_keys, spawned, retired, unspawnable, thread, onceVars,
                 weak, stop, owned, start, downBy, client>>

Finished(h) == IF h = Drain THEN drain = "done" ELSE thread[h] = "done"

Join ==
  /\ down = "join"
  /\ \A h \in joining : Finished(h)
  /\ down' = "done"
  /\ UNCHANGED <<fieldVars, listVars, slotVars, thread, onceVars, weak, stop, owned, start, downBy,
                 joining, client>>

-----------------------------------------------------------------------------
WriteStep(c) ==
  \/ StoreScan(c) \/ UnlistPeriodic(c) \/ WakeRetired(c) \/ UnlistEvent(c) \/ UnlistIo(c)
  \/ ListPeriodic(c) \/ ListEvent(c) \/ ListNowhere(c) \/ UnlistOldEvent(c)

ThreadStep(t) == LoopTop(t) \/ FallAsleep(t) \/ Tick(t) \/ EndPass(t) \/ Dropped(t)
DrainStep == DrainRecv \/ DrainEndPass \/ DrainDropped \/ DrainExit
StartStep == LoadFromDb \/ PublishWeak \/ SpawnThreads \/ SpawnDrain
DownStep == SetStop \/ WakeForStop \/ CloseQueue \/ TakeHandles \/ Join

Next ==
  \/ \E c \in Clients, r \in Records :
       \/ PutPhas(c, r)
       \/ \E spec \in Specs : PutScan(c, r, spec)
       \/ \E e \in Events : PutEvnt(c, r, e)
  \/ \E c \in Clients : WriteStep(c)
  \/ \E r \in Records : RegisterIoIntr(r)
  \/ \E t \in Threads : ThreadStep(t) \/ Deadline(t)
  \/ StartStep \/ ScanOnce \/ DrainStep \/ CallShutdown \/ DropOwner \/ DownStep

Spec == Init /\ [][Next]_vars

-----------------------------------------------------------------------------
(* Properties.                                                               *)

\* The values of the fields, and the lists hold records only.
TypeOK ==
  /\ scan_raw \in [Records -> Specs] /\ evnt \in [Records -> Events] /\ rebound \subseteq Records
  /\ periodic \in [Periods -> SUBSET Records] /\ events \in [EventNames -> SUBSET Records]
  /\ io_intr \subseteq Records
  /\ thread_keys \subseteq Threads /\ retired \subseteq Threads /\ threads \subseteq Threads
  /\ spawned \in [Periods -> 0 .. MaxSpawns] /\ unspawnable \subseteq Periods
  /\ thread \in [Threads -> {"unborn", "top", "sleep", "wait", "tick", "process", "dropping", "done"}]
  /\ {weak, stop, owned, sender} \subseteq BOOLEAN
  /\ queue \in 0 .. QueueCapacity
  /\ drain \in {"unborn", "recv", "process", "dropping", "done"}
  /\ start \in {"new", "loaded", "published", "spawned", "started"}
  /\ down \in {"no", "stop", "wake", "close", "take", "join", "done"}
  /\ downBy \in Threads \union {Owner, Drain} /\ joining \subseteq Threads \union {Drain}
  /\ client \in [Clients -> [pc : {"idle", "store", "unlist", "wake", "unlist_event", "unlist_io",
                                   "list", "relist"},
                             rec : Records, spec : Specs, event : Events, puts : 0 .. MaxPuts]]

Live(t) == thread[t] \notin {"unborn", "done"}

(***************************************************************************)
(* "two threads on one key would double-process every member": of a        *)
(* period's threads at most one has not been told to retire, and it is the *)
(* one that owns the period's slot.                                        *)
(***************************************************************************)
OneThreadPerPeriod == \A t \in Threads : (Live(t) /\ ~Done(t)) => t \in thread_keys /\ Slot(t[1]) = {t}

(***************************************************************************)
(* "a SCAN value this engine accepts must actually scan": once start() has *)
(* spawned its threads, and until shutdown, a period has a running thread  *)
(* exactly when a record is on it, unless the system refused the thread;   *)
(* and no more than MAX_PERIODIC_THREADS of them exist.                    *)
(***************************************************************************)
AcceptedIsScanned ==
  (start \in {"spawned", "started"} /\ ~stop /\ Alive) =>
    /\ \A p \in Periods \ unspawnable : periodic[p] # {} <=> \E t \in Slot(p) : Live(t)
    /\ Cardinality(thread_keys) <= MaxPeriods

(***************************************************************************)
(* shutdown() returns only when every thread has ended, except the one it  *)
(* runs on; none is spawned behind its back.                               *)
(***************************************************************************)
AllJoined ==
  down = "done" =>
    /\ \A t \in Threads : Live(t) => t = downBy
    /\ drain = "done" \/ downBy = Drain

(***************************************************************************)
(* A write to SCAN "drops the record from every scan list, then re-adds it *)
(* per the new ScanSpec": when nobody is writing to a record it is on no   *)
(* list but the one its fields name, and on the I/O interrupt list only if *)
(* a driver bound it there after SCAN was last written.                    *)
(***************************************************************************)
OnNoOtherList ==
  \A r \in Records :
    (start # "new" /\ \A c \in Clients : At(c, "idle") \/ client[c].rec # r) =>
      /\ \A p \in Periods : r \in periodic[p] => scan_raw[r] = p
      /\ \A e \in EventNames : r \in events[e] => scan_raw[r] = "Event" /\ evnt[r] = e
      /\ r \in io_intr => r \in rebound

(***************************************************************************)
(* "this wake cannot be lost": a thread that sleeps although it was told   *)
(* to stop, by shutdown() or because its period's last record left, has a  *)
(* wake-up coming; it need not sleep out its period, which may be years.   *)
(***************************************************************************)
WakeNotLost ==
  \A t \in Threads :
    (thread[t] = "wait" /\ Done(t)) => (\E c \in Clients : At(c, "wake")) \/ down = "wake"

(***************************************************************************)
(* shutdown() does not hang: each thread it joins has ended or is on its   *)
(* way out, neither asleep nor waiting for requests that cannot come, and  *)
(* is not the thread that joins; also when the last Arc is dropped by one  *)
(* of the engine's own threads in the middle of a pass.                    *)
(***************************************************************************)
JoinReturns ==
  down = "join" =>
    /\ stop /\ downBy \notin joining
    /\ \A t \in joining \ {Drain} : thread[t] \notin {"unborn", "wait", "dropping"}
    /\ Drain \in joining => ~sender /\ drain \notin {"unborn", "dropping"}
=============================================================================
