----------------------------- MODULE ConnWriter -----------------------------
(***************************************************************************)
(* The per-connection coalescing writer of spvirit-server                  *)
(* (spvirit-server/src/conn_writer.rs).  Any number of producers deposit   *)
(* frames in two lanes, a lossless FIFO for control frames and a           *)
(* latest-wins slot per ioid for monitor frames.  The depositor that finds *)
(* no flusher becomes the flusher, writes inline as far as the socket      *)
(* accepts, and hands the rest to a spawned continuation.                  *)
(*                                                                         *)
(* One action per critical section of the coalesce mutex, per operation on *)
(* the writer lock, and per byte the socket accepts, so every interleaving *)
(* of producers, continuations and the connection's own task is explored.  *)
(***************************************************************************)
EXTENDS Integers, Sequences, FiniteSets, Functions

CONSTANTS
  Producers,          \* tasks that deposit frames
  Conn,               \* the producer that is the connection's own task
  Conts,              \* slots for spawned continuations (flush_async tasks)
  Ioids,              \* monitor subscriptions
  Lens,               \* frame lengths in bytes
  HighWater,          \* BACKLOG_HIGH_WATER
  InlineBatchLimit,   \* INLINE_BATCH_LIMIT
  MaxDeposits,        \* bound on the number of accepted deposits
  Cancellable         \* states in which a continuation may be cancelled

ASSUME WriterAssumption ==
  /\ Conn \in Producers
  /\ Producers \cap Conts = {}
  /\ "control" \notin Ioids
  /\ Lens \subseteq Nat \ {0}
  /\ HighWater \in Nat
  /\ InlineBatchLimit \in Nat \ {0}
  /\ MaxDeposits \in Nat
  /\ Cancellable \subseteq {"spawned", "await_lock", "write"}

ASSUME NobodyAssumption == "nobody" \notin Producers \cup Conts

VARIABLES
  control,   \* Coalesce.control: sequence of frames
  monitor,   \* Coalesce.monitor: set of frames, at most one per ioid
  flushing,  \* Coalesce.flushing: the election is held
  dead,      \* Coalesce.dead
  backlog,   \* Coalesce.backlog
  writer,    \* holder of the async socket lock, or "nobody"
  pc,        \* where each task is inside the writer
  batch,     \* the frames of the batch each task carries
  off,       \* the next byte of that batch to write: byte k of frame i
  rounds,    \* batches an inline flusher has written
  wire,      \* history: the bytes the socket has accepted
  log,       \* history: the frames accepted by the lanes, in order
  conn,      \* the connection task: reading, replying, or in backpressure()
  closed,    \* the connection task's pinned closed() future
  woken      \* the registered waiters a notify_waiters() has marked

lanes   == <<control, monitor, flushing, dead, backlog>>
flusher == <<writer, pc, batch, off, rounds>>
waiters == <<conn, closed, woken>>
vars    == <<lanes, flusher, wire, log, waiters>>

Tasks == Producers \cup Conts
Frame == [seq : Nat \ {0}, lane : Ioids \cup {"control"}, len : Lens]

(* A byte of the stream is a frame and a position in it.                   *)
Bytes(frames) == UNION {{f} \X (1 .. f.len) : f \in frames}
(* The total length of a finite set of frames, and of a batch.             *)
Size(frames) == Cardinality(Bytes(frames))
BatchLen(t) == Size(Range(batch[t]))

Offset == [frame : Nat \ {0}, byte : Nat \ {0}]
Start == [frame |-> 1, byte |-> 1]
Written(t) == off[t].frame > Len(batch[t])

ElectionPcs == {"try_lock", "take", "write", "hand_off", "spawned", "await_lock",
                "mark_dead"}
LockPcs     == {"take", "write", "unlock"}
Pcs         == ElectionPcs \cup {"idle", "unlock", "notify_drained", "notify_died"}

(* The Notify objects with a registered waiter; notify_waiters stores no   *)
(* permit, so it marks a waiter only if one is registered.                 *)
Registered == {n \in {"drained", "died"} :
                 (IF n = "drained" THEN conn ELSE closed) \in {"check", "wait"}}
Notify(n)  == woken \cup ({n} \cap Registered)

Init ==
  /\ control = <<>> /\ monitor = {} /\ flushing = FALSE /\ dead = FALSE
  /\ backlog = 0
  /\ writer = "nobody"
  /\ pc = [t \in Tasks |-> "idle"]
  /\ batch = [t \in Tasks |-> <<>>]
  /\ off = [t \in Tasks |-> Start]
  /\ rounds = [t \in Tasks |-> 0]
  /\ wire = <<>> /\ log = <<>>
  /\ conn = "select" /\ closed = "new" /\ woken = {}

(***************************************************************************)
(* Depositing: send_control and send_monitor.  A dead writer drops the     *)
(* frame; otherwise the frame is queued and, if nobody is flushing, the    *)
(* depositor takes the election.                                           *)
(***************************************************************************)
CanDeposit(p) ==
  /\ pc[p] = "idle"
  /\ Len(log) < MaxDeposits
  /\ p = Conn => conn = "select" /\ closed # "check"

Accepting_Always == TRUE   \* mutant: deposits do not look at `dead`
Accepting == ~dead

(* Replier::send: the connection's own reply ends in backpressure().       *)
Reply(p) == conn' = IF p = Conn THEN "reply" ELSE conn

Elect(p) ==
  /\ flushing' = TRUE
  /\ pc' = IF flushing THEN pc ELSE [pc EXCEPT ![p] = "try_lock"]

SendDead(p) ==
  /\ CanDeposit(p) /\ ~Accepting /\ p = Conn
  /\ Reply(p)
  /\ UNCHANGED <<lanes, flusher, wire, log, closed, woken>>

SendControl(p) ==
  /\ CanDeposit(p) /\ Accepting
  /\ \E n \in Lens :
       LET f == [seq |-> Len(log) + 1, lane |-> "control", len |-> n] IN
       /\ control' = Append(control, f)
       /\ log' = Append(log, f)
       /\ backlog' = backlog + n
  /\ Elect(p) /\ Reply(p)
  /\ UNCHANGED <<monitor, dead, writer, batch, off, rounds, wire, closed, woken>>

Stale_Kept(i) == {}   \* mutant: the new frame is queued beside the stale one

Stale(i) == {g \in monitor : g.lane = i}
Freed_None(i) == 0   \* mutant: the replaced frame stays in the backlog
Freed(i) == Size(Stale(i))

SendMonitor(p) ==
  /\ CanDeposit(p) /\ Accepting
  /\ \E i \in Ioids, n \in Lens :
       LET f == [seq |-> Len(log) + 1, lane |-> i, len |-> n] IN
       /\ monitor' = (monitor \ Stale(i)) \cup {f}
       /\ log' = Append(log, f)
       /\ backlog' = backlog + n - Freed(i)
  /\ Elect(p)
  /\ UNCHANGED <<control, dead, writer, batch, off, rounds, wire, waiters>>

(***************************************************************************)
(* Flushing.  flush_inline runs in the producer that won the election,     *)
(* flush_async in a continuation; both drain with take_batch and write.    *)
(***************************************************************************)
LockMissed_Idle == "idle"   \* mutant: the depositor returns without handing off
LockMissed == "hand_off"

(* flush_inline: take the socket lock without waiting, or let a            *)
(* continuation take over.                                                 *)
TryLock(p) ==
  /\ pc[p] = "try_lock"
  /\ IF writer = "nobody"
     THEN /\ writer' = p
          /\ pc' = [pc EXCEPT ![p] = "take"]
          /\ rounds' = [rounds EXCEPT ![p] = 0]
     ELSE /\ pc' = [pc EXCEPT ![p] = LockMissed]
          /\ UNCHANGED <<writer, rounds>>
  /\ UNCHANGED <<lanes, batch, off, wire, log, waiters>>

(* take_batch with nothing to take.                                        *)
Release(t) ==
  /\ flushing' = FALSE
  /\ pc' = [pc EXCEPT ![t] = "unlock"]
  /\ UNCHANGED <<control, monitor, batch, off>>

NothingPending_Control == control = <<>>   \* mutant: the monitor lane is forgotten
NothingPending == control = <<>> /\ monitor = {}
Concat_MonitorFirst(order) == order \o control   \* mutant: the lanes are swapped
Concat(order) == control \o order

(* take_batch: both lanes in one batch, control first, the monitor lane in *)
(* the arbitrary order of the HashMap; with nothing pending, release the   *)
(* election in the same critical section.                                  *)
TakeBatch(t) ==
  /\ pc[t] = "take"
  /\ t \in Producers => rounds[t] < InlineBatchLimit
  /\ IF NothingPending
     THEN Release(t)
     ELSE /\ \E order \in Bijection(1 .. Cardinality(monitor), monitor) :
               batch' = [batch EXCEPT ![t] = Concat(order)]
          /\ off' = [off EXCEPT ![t] = Start]
          /\ control' = <<>> /\ monitor' = {}
          /\ pc' = [pc EXCEPT ![t] = "write"]
          /\ UNCHANGED flushing
  /\ UNCHANGED <<dead, backlog, writer, rounds, wire, log, waiters>>

(* flush_inline: after INLINE_BATCH_LIMIT batches drop the lock and let a  *)
(* continuation carry on.                                                  *)
LimitReached(p) ==
  /\ pc[p] = "take" /\ p \in Producers /\ rounds[p] >= InlineBatchLimit
  /\ writer' = "nobody"
  /\ pc' = [pc EXCEPT ![p] = "hand_off"]
  /\ UNCHANGED <<lanes, batch, off, rounds, wire, log, waiters>>

(* The socket accepts one more byte.                                       *)
WriteByte(t) ==
  /\ pc[t] = "write" /\ ~Written(t)
  /\ LET f == batch[t][off[t].frame] IN
     /\ wire' = Append(wire, <<f, off[t].byte>>)
     /\ off' = [off EXCEPT ![t] = IF @.byte = f.len
                                  THEN [frame |-> @.frame + 1, byte |-> 1]
                                  ELSE [frame |-> @.frame, byte |-> @.byte + 1]]
  /\ UNCHANGED <<lanes, writer, pc, batch, rounds, log, waiters>>

(* A write error, a zero-length write, or in a continuation a write that   *)
(* accepts nothing before the deadline: drop the lock and give up.         *)
WriteFail(t) ==
  /\ pc[t] = "write" /\ ~Written(t)
  /\ writer' = "nobody"
  /\ pc' = [pc EXCEPT ![t] = "mark_dead"]
  /\ UNCHANGED <<lanes, batch, off, rounds, wire, log, waiters>>

(* flush_inline: the socket would block, so drop the lock and hand off     *)
(* the rest of the batch.                                                  *)
WritePending(p) ==
  /\ pc[p] = "write" /\ ~Written(p) /\ p \in Producers
  /\ writer' = "nobody"
  /\ pc' = [pc EXCEPT ![p] = "hand_off"]
  /\ UNCHANGED <<lanes, batch, off, rounds, wire, log, waiters>>

Crossed_Strictly(left) == backlog > HighWater /\ left < HighWater   \* mutant
Crossed(left) == backlog > HighWater /\ left <= HighWater

(* wrote: account the whole batch, and wake backpressure() if this write   *)
(* took the backlog across the high-water mark.                            *)
Wrote(t) ==
  /\ pc[t] = "write" /\ Written(t)
  /\ LET left == IF BatchLen(t) > backlog THEN 0 ELSE backlog - BatchLen(t) IN
     /\ backlog' = left
     /\ woken' = IF Crossed(left) THEN Notify("drained") ELSE woken
  /\ batch' = [batch EXCEPT ![t] = <<>>]
  /\ off' = [off EXCEPT ![t] = Start]
  /\ rounds' = IF t \in Producers THEN [rounds EXCEPT ![t] = @ + 1] ELSE rounds
  /\ pc' = [pc EXCEPT ![t] = "take"]
  /\ UNCHANGED <<control, monitor, flushing, dead, writer, wire, log, conn, closed>>

(* The writer guard goes out of scope after the election was released.     *)
Unlock(t) ==
  /\ pc[t] = "unlock"
  /\ writer' = "nobody"
  /\ pc' = [pc EXCEPT ![t] = "idle"]
  /\ UNCHANGED <<lanes, batch, off, rounds, wire, log, waiters>>

(***************************************************************************)
(* Handing over: hand_off spawns a continuation that inherits the batch    *)
(* and the election, or without a runtime gives the connection up.         *)
(***************************************************************************)
Inherited_Nothing(p) == <<>>   \* mutant: the rest of the batch is dropped
Inherited(p) == batch[p]
Resume_Rewound(p) == Start     \* mutant: the batch is written again
Resume(p) == off[p]
HandedOn_Released == FALSE     \* mutant: the election is released first
HandedOn == flushing

Spawn(p) ==
  /\ pc[p] = "hand_off"
  /\ \E c \in Conts :
       /\ pc[c] = "idle"
       /\ pc' = [pc EXCEPT ![p] = "idle", ![c] = "spawned"]
       /\ batch' = [batch EXCEPT ![p] = <<>>, ![c] = Inherited(p)]
       /\ off' = [off EXCEPT ![p] = Start, ![c] = Resume(p)]
  /\ flushing' = HandedOn
  /\ UNCHANGED <<control, monitor, dead, backlog, writer, rounds, wire, log, waiters>>

NoRuntime(p) ==
  /\ pc[p] = "hand_off"
  /\ pc' = [pc EXCEPT ![p] = "mark_dead"]
  /\ UNCHANGED <<lanes, writer, batch, off, rounds, wire, log, waiters>>

(* flush_async, first poll: the FlushGuard is armed.                       *)
FirstPoll(c) ==
  /\ pc[c] = "spawned"
  /\ pc' = [pc EXCEPT ![c] = "await_lock"]
  /\ UNCHANGED <<lanes, writer, batch, off, rounds, wire, log, waiters>>

AcquireLock(c) ==
  /\ pc[c] = "await_lock" /\ writer = "nobody"
  /\ writer' = c
  /\ pc' = [pc EXCEPT ![c] = IF batch[c] = <<>> THEN "take" ELSE "write"]
  /\ UNCHANGED <<lanes, batch, off, rounds, wire, log, waiters>>

(* The runtime drops the continuation at an await: the lock guard goes     *)
(* first, then FlushGuard marks the writer dead.  A continuation that was  *)
(* never polled has no guard yet.                                          *)
Cancel(c) ==
  /\ c \in Conts /\ pc[c] \in Cancellable
  /\ pc[c] = "write" => ~Written(c)
  /\ writer' = IF writer = c THEN "nobody" ELSE writer
  /\ IF pc[c] = "spawned"
     THEN /\ pc' = [pc EXCEPT ![c] = "idle"]
          /\ batch' = [batch EXCEPT ![c] = <<>>]
          /\ off' = [off EXCEPT ![c] = Start]
     ELSE /\ pc' = [pc EXCEPT ![c] = "mark_dead"]
          /\ UNCHANGED <<batch, off>>
  /\ UNCHANGED <<lanes, rounds, wire, log, waiters>>

(***************************************************************************)
(* mark_dead: one critical section, then the two notifications.            *)
(***************************************************************************)
MarkDead(t) ==
  /\ pc[t] = "mark_dead"
  /\ dead' = TRUE /\ flushing' = FALSE
  /\ control' = <<>> /\ monitor' = {} /\ backlog' = 0
  /\ pc' = [pc EXCEPT ![t] = "notify_drained"]
  /\ batch' = [batch EXCEPT ![t] = <<>>]
  /\ off' = [off EXCEPT ![t] = Start]
  /\ UNCHANGED <<writer, rounds, wire, log, waiters>>

NotifyDrained(t) ==
  /\ pc[t] = "notify_drained"
  /\ woken' = Notify("drained")
  /\ pc' = [pc EXCEPT ![t] = "notify_died"]
  /\ UNCHANGED <<lanes, writer, batch, off, rounds, wire, log, conn, closed>>

DiedNotice_Missing == woken   \* mutant: only the backpressure waiters are woken
DiedNotice == Notify("died")

NotifyDied(t) ==
  /\ pc[t] = "notify_died"
  /\ woken' = DiedNotice
  /\ pc' = [pc EXCEPT ![t] = "idle"]
  /\ UNCHANGED <<lanes, writer, batch, off, rounds, wire, log, conn, closed>>

(***************************************************************************)
(* The connection's own task.  After a reply it runs backpressure():       *)
(* check, and while the backlog is over the mark register, check again and *)
(* wait.  Between requests it selects on closed(), which it keeps pinned   *)
(* and polls only there.                                                   *)
(***************************************************************************)
Passable == dead \/ backlog <= HighWater

BackpressureFast ==
  /\ conn = "reply" /\ pc[Conn] = "idle"
  /\ conn' = IF Passable THEN "select" ELSE "enable"
  /\ UNCHANGED <<lanes, flusher, wire, log, closed, woken>>

BackpressureEnable ==
  /\ conn = "enable"
  /\ conn' = "check"
  /\ UNCHANGED <<lanes, flusher, wire, log, closed, woken>>

BackpressureCheck ==
  /\ conn = "check"
  /\ IF Passable
     THEN conn' = "select" /\ woken' = woken \ {"drained"}
     ELSE conn' = "wait" /\ UNCHANGED woken
  /\ UNCHANGED <<lanes, flusher, wire, log, closed>>

BackpressureWake ==
  /\ conn = "wait" /\ "drained" \in woken
  /\ conn' = "enable" /\ woken' = woken \ {"drained"}
  /\ UNCHANGED <<lanes, flusher, wire, log, closed>>

Backpressure == \/ BackpressureFast \/ BackpressureEnable
                \/ BackpressureCheck \/ BackpressureWake

ClosedPoll ==
  /\ conn = "select" /\ pc[Conn] = "idle"
  /\ \/ /\ closed = "new"
        /\ closed' = "check" /\ UNCHANGED <<conn, woken>>
     \/ /\ closed = "check" /\ ~dead
        /\ closed' = "wait" /\ UNCHANGED <<conn, woken>>
     \/ /\ closed = "check" /\ dead
        /\ closed' = "done" /\ conn' = "torn_down" /\ woken' = woken \ {"died"}
     \/ /\ closed = "wait" /\ "died" \in woken
        /\ closed' = "new" /\ woken' = woken \ {"died"} /\ UNCHANGED conn
  /\ UNCHANGED <<lanes, flusher, wire, log>>

Write(t) == WriteByte(t) \/ WriteFail(t) \/ WritePending(t) \/ Wrote(t)
Step(t) ==
  \/ TryLock(t) \/ TakeBatch(t) \/ LimitReached(t) \/ Write(t) \/ Unlock(t)
  \/ Spawn(t) \/ NoRuntime(t) \/ FirstPoll(t) \/ AcquireLock(t)
  \/ MarkDead(t) \/ NotifyDrained(t) \/ NotifyDied(t)

Next ==
  \/ \E p \in Producers : SendControl(p) \/ SendMonitor(p) \/ SendDead(p)
  \/ \E t \in Tasks : Step(t) \/ Cancel(t)
  \/ Backpressure \/ ClosedPoll

Spec == Init /\ [][Next]_vars

(* The runtime polls every ready task, and the deadline of flush_async     *)
(* makes a stalled write fail; no fairness on deposits or cancellations.   *)
(* The connection's select! polls its branches in random order, so a ready *)
(* closed() is not passed over for ever.                                   *)
FairSpec == Spec /\ (\A t \in Tasks : WF_vars(Step(t)))
                 /\ WF_vars(Backpressure) /\ SF_vars(ClosedPoll)

-----------------------------------------------------------------------------
LanesOK ==
  /\ control \in Seq(Frame)
  /\ monitor \subseteq Frame /\ IsFiniteSet(monitor)
  /\ \A f, g \in monitor : f.lane = g.lane => f = g
  /\ flushing \in BOOLEAN /\ dead \in BOOLEAN /\ backlog \in Int
FlusherOK ==
  /\ writer \in Tasks \cup {"nobody"}
  /\ pc \in [Tasks -> Pcs]
  /\ batch \in [Tasks -> Seq(Frame)]
  /\ off \in [Tasks -> Offset]
  /\ rounds \in [Tasks -> Nat]
StreamOK == wire \in Seq(Frame \X (Nat \ {0})) /\ log \in Seq(Frame)
WaitersOK ==
  /\ conn \in {"select", "reply", "enable", "check", "wait", "torn_down"}
  /\ closed \in {"new", "check", "wait", "done"}
  /\ woken \subseteq {"drained", "died"}

(* Every variable has its type; a monitor slot holds one frame per ioid.   *)
TypeOK == LanesOK /\ FlusherOK /\ StreamOK /\ WaitersOK

Flusher(t) == pc[t] \in ElectionPcs
Pending == control # <<>> \/ monitor # {}

(* The single-flight election: `flushing` is true exactly while one task,  *)
(* an inline depositor or a continuation, never both, is the flusher, and  *)
(* a dead writer has none.  The socket lock is held exactly by the task    *)
(* between taking and dropping its guard.                                  *)
ElectionHeld  == flushing <=> \E t \in Tasks : Flusher(t)
ElectionAlone == \A s, t \in Tasks : Flusher(s) /\ Flusher(t) => s = t
LockHeld      == \A t \in Tasks : (writer = t) <=> pc[t] \in LockPcs
OneFlusher ==
  ElectionHeld /\ ElectionAlone /\ LockHeld /\ (dead => ~flushing)

(* "No interleaving leaves work pending with no flusher."                  *)
NoStrandedWork == Pending => \E t \in Tasks : Flusher(t)

(* The stream stays framed across every hand-off: a byte is the first of   *)
(* its frame and follows the last byte of another, or follows its own      *)
(* predecessor.                                                            *)
Follows(b, j) == IF b[2] = 1
                 THEN j = 0 \/ wire[j][2] = wire[j][1].len
                 ELSE j > 0 /\ wire[j] = <<b[1], b[2] - 1>>
NoTornFrames == \A j \in 1 .. Len(wire) : Follows(wire[j], j - 1)

(* The frames that have left the lanes, in the order of the stream: those  *)
(* begun on the wire, then those still ahead of the flusher.               *)
Begun == LET heads == SelectSeq(wire, LAMBDA b : b[2] = 1)
         IN  [j \in 1 .. Len(heads) |-> heads[j][1]]
Ahead(t) == SubSeq(batch[t], off[t].frame + (IF off[t].byte > 1 THEN 1 ELSE 0),
                   Len(batch[t]))
Carrier == {t \in Tasks : batch[t] # <<>>}
Out == IF Carrier = {} THEN Begun
       ELSE Begun \o Ahead(CHOOSE t \in Carrier : TRUE)

(* Order of the stream: a control frame is never overtaken by anything     *)
(* deposited after it, and two frames of one ioid keep their order; only a *)
(* monitor frame may be overtaken by a later frame of another lane.  So a  *)
(* MONITOR INIT reply always precedes the data frames that follow it.      *)
OnlyMonitorsOvertaken ==
  \A j, k \in 1 .. Len(Out) :
    j < k /\ (Out[k].lane \in {"control", Out[j].lane}) => Out[j].seq < Out[k].seq

(* Nothing is lost while the connection lives: every accepted frame is in  *)
(* its lane or has left it, except a monitor frame that a later one of the *)
(* same ioid replaced.                                                     *)
Superseded(f) == f.lane # "control" /\ \E g \in Range(log) : g.lane = f.lane /\ g.seq > f.seq
NothingLost ==
  ~dead => \A f \in Range(log) :
             f \in Range(control) \cup monitor \cup Range(Out) \/ Superseded(f)

(* The backlog counts exactly the bytes of both lanes and of the batch in  *)
(* flight, so neither `backlog -= stale.len()` nor the saturating          *)
(* subtraction of wrote() ever goes below what is there.                   *)
BacklogExact ==
  backlog = IF dead THEN 0
            ELSE Size(Range(control) \cup monitor \cup UNION {Range(batch[t]) : t \in Tasks})

(* At most two continuations exist at once, a flusher and one that is      *)
(* still dropping its guard, however often the election changes hands.     *)
TwoContinuations == Cardinality({c \in Conts : pc[c] # "idle"}) <= 2

(* A dead writer is silent and stays dead: nothing is queued, nobody is    *)
(* elected, and no byte follows a partial frame onto the wire.             *)
DeadIsFinal == [][dead => UNCHANGED <<lanes, wire>>]_vars

OnWire(f) == \E j \in 1 .. Len(wire) : wire[j] = <<f, f.len>>

(* Every accepted frame reaches the wire whole, or is superseded, or the   *)
(* connection dies: no deposit waits for another deposit to be flushed.    *)
Settled(n) == n <= Len(log) /\ (OnWire(log[n]) \/ Superseded(log[n]))
EventuallySent ==
  \A n \in 1 .. MaxDeposits : (Len(log) >= n) ~> (dead \/ Settled(n))

(* "Woken when the backlog falls to BACKLOG_HIGH_WATER or the connection   *)
(* dies": a reply held in backpressure() is let go once it has drained.    *)
BackpressureReleased == (conn = "wait") ~> (conn # "wait")

(* A writer that died tears its connection down, even when the death falls *)
(* while the connection task is inside backpressure() and not selecting.   *)
DeathNoticed == dead ~> (conn = "torn_down")

=============================================================================
