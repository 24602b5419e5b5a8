-------------------------- MODULE ConnWriterProofs --------------------------
(***************************************************************************)
(* TLAPS proofs about ConnWriter, for any number of producers and          *)
(* continuations, any frame lengths and any bounds.                        *)
(***************************************************************************)
EXTENDS ConnWriter, TLAPS, FiniteSetTheorems, FunctionTheorems, SequenceTheorems

(* A frame has at least one byte.                                          *)
LEMMA FrameLen == \A f \in Frame : f.len \in Nat \ {0} /\ f.len \in Int
<1>1. \A l \in Lens : l \in Nat \ {0} /\ l \in Int
  BY WriterAssumption
<1>2. \A f \in Frame : f.len \in Lens
  BY DEF Frame
<1> QED BY <1>1, <1>2, Zenon

(* The lengths of finite sets of frames are natural numbers.               *)
LEMMA SizeType ==
  ASSUME NEW S, S \subseteq Frame, IsFiniteSet(S)
  PROVE  IsFiniteSet(Bytes(S)) /\ Size(S) \in Nat
<1> DEFINE part == [f \in S |-> {f} \X (1 .. f.len)]
           parts == {{f} \X (1 .. f.len) : f \in S}
<1>1. part \in Surjection(S, parts)
  BY Zenon DEF Surjection
<1>2. IsFiniteSet(parts)
  BY <1>1, FS_Surjection
<1>3. ASSUME NEW f \in S PROVE IsFiniteSet({f} \X (1 .. f.len))
  <2>1. f.len \in Int
    BY FrameLen
  <2>2. IsFiniteSet({f})
    BY Zenon, FS_Singleton
  <2>3. IsFiniteSet(1 .. f.len)
    BY <2>1, FS_Interval
  <2> QED BY Zenon, <2>2, <2>3, FS_Product
<1>4. \A T \in parts : IsFiniteSet(T)
  BY <1>3
<1>5. IsFiniteSet(Bytes(S))
  BY Zenon, <1>2, <1>4, FS_UNION DEF Bytes
<1> QED BY <1>5, FS_CardinalityType DEF Size

(* A sequence of frames has finitely many elements, all frames.            *)
LEMMA RangeFinite ==
  ASSUME NEW s \in Seq(Frame)
  PROVE  IsFiniteSet(Range(s)) /\ Range(s) \subseteq Frame
<1>1. Len(s) \in Nat /\ s \in [1 .. Len(s) -> Frame]
  BY LenProperties
<1>2. s \in Surjection(1 .. Len(s), Range(s)) /\ Range(s) \subseteq Frame
  BY Zenon, <1>1, Fun_RangeProperties
<1>3. IsFiniteSet(1 .. Len(s))
  BY <1>1, FS_Interval
<1> QED BY <1>2, <1>3, FS_Surjection

-----------------------------------------------------------------------------
(* The frames in the order the HashMap yields them form a sequence.        *)
LEMMA OrderType ==
  ASSUME NEW S, S \subseteq Frame, IsFiniteSet(S),
         NEW order \in Bijection(1 .. Cardinality(S), S)
  PROVE  order \in Seq(Frame) /\ Range(order) = S
<1>1. Cardinality(S) \in Nat
  BY FS_CardinalityType
<1>2. /\ order \in [1 .. Cardinality(S) -> S]
      /\ order \in Surjection(1 .. Cardinality(S), S)
  BY Zenon, Fun_BijectionProperties
<1>3. order \in Seq(S) /\ Range(order) = S
  BY <1>1, <1>2, IsASeq, Fun_SurjectionProperties
<1> QED BY <1>3, SeqMonotonic

(* The offset of a batch stays an offset as it advances.                   *)
LEMMA OffsetType ==
  /\ Start \in Offset
  /\ \A o \in Offset : /\ [frame |-> o.frame + 1, byte |-> 1] \in Offset
                       /\ [frame |-> o.frame, byte |-> o.byte + 1] \in Offset
BY DEF Start, Offset

(* Depositing keeps the types.                                             *)
LEMMA DepositType ==
  ASSUME TypeOK, NEW p \in Producers, SendControl(p) \/ SendMonitor(p) \/ SendDead(p)
  PROVE  TypeOK'
<1>0. LanesOK /\ FlusherOK /\ StreamOK /\ WaitersOK
  BY DEF TypeOK
<1>1. FlusherOK'
  <2>1. p \in Tasks
    BY DEF Tasks
  <2>2. pc' = pc \/ pc' = [pc EXCEPT ![p] = "try_lock"]
    BY DEF SendControl, SendMonitor, SendDead, Elect, flusher
  <2>3. UNCHANGED <<writer, batch, off, rounds>>
    BY DEF SendControl, SendMonitor, SendDead, flusher
  <2>4. pc' \in [Tasks -> Pcs]
    BY <1>0, <2>1, <2>2 DEF FlusherOK, Pcs, ElectionPcs
  <2> QED BY <1>0, <2>3, <2>4 DEF FlusherOK
<1>2. WaitersOK'
  BY Zenon, <1>0 DEF SendControl, SendMonitor, SendDead, Reply, waiters, WaitersOK
<1>3. flushing' \in BOOLEAN /\ dead' = dead /\ wire' = wire
  BY Zenon, <1>0 DEF SendControl, SendMonitor, SendDead, Elect, lanes, LanesOK
<1>4. CASE SendControl(p)
  <2>1. PICK n \in Lens :
          LET f == [seq |-> Len(log) + 1, lane |-> "control", len |-> n] IN
          /\ control' = Append(control, f)
          /\ log' = Append(log, f)
          /\ backlog' = backlog + n
    BY <1>4 DEF SendControl
  <2> DEFINE f == [seq |-> Len(log) + 1, lane |-> "control", len |-> n]
  <2>2. f \in Frame /\ n \in Int
    BY <1>0, WriterAssumption DEF Frame, StreamOK
  <2>3. control' \in Seq(Frame) /\ log' \in Seq(Frame) /\ backlog' \in Int
    BY <1>0, <2>1, <2>2 DEF LanesOK, StreamOK
  <2>4. monitor' = monitor
    BY <1>4 DEF SendControl
  <2> QED BY <1>0, <1>1, <1>2, <1>3, <2>3, <2>4 DEF TypeOK, LanesOK, StreamOK
<1>5. CASE SendMonitor(p)
  <2>1. PICK i \in Ioids, n \in Lens :
          LET f == [seq |-> Len(log) + 1, lane |-> i, len |-> n] IN
          /\ monitor' = (monitor \ Stale(i)) \cup {f}
          /\ log' = Append(log, f)
          /\ backlog' = backlog + n - Freed(i)
    BY <1>5 DEF SendMonitor
  <2> DEFINE f == [seq |-> Len(log) + 1, lane |-> i, len |-> n]
  <2>2. f \in Frame /\ f.lane = i /\ n \in Int
    BY <1>0, WriterAssumption DEF Frame, StreamOK
  <2>3. Freed(i) \in Int
    <3>1. Stale(i) \subseteq Frame /\ IsFiniteSet(Stale(i))
      BY <1>0, FS_Subset DEF Stale, LanesOK
    <3> QED BY <3>1, SizeType DEF Freed
  <2>4. monitor' \subseteq Frame /\ log' \in Seq(Frame) /\ backlog' \in Int
    BY <1>0, <2>1, <2>2, <2>3 DEF Stale, LanesOK, StreamOK
  <2>5. IsFiniteSet(monitor')
    <3>1. IsFiniteSet(monitor \ Stale(i))
      BY Zenon, <1>0, FS_Difference DEF LanesOK
    <3> QED BY Zenon, <2>1, <3>1, FS_AddElement
  <2>6. \A g, h \in monitor' : g.lane = h.lane => g = h
    BY <1>0, <2>1, <2>2 DEF Stale, LanesOK
  <2>7. control' = control
    BY <1>5 DEF SendMonitor
  <2> QED BY <1>0, <1>1, <1>2, <1>3, <2>4, <2>5, <2>6, <2>7 DEF TypeOK, LanesOK, StreamOK
<1>6. CASE SendDead(p)
  BY <1>0, <1>1, <1>2, <1>6 DEF SendDead, TypeOK, LanesOK, StreamOK, lanes
<1> QED BY <1>4, <1>5, <1>6

(* A step of a flusher keeps the types.                                    *)
LEMMA FlusherType ==
  ASSUME TypeOK, NEW t \in Tasks, Step(t) \/ Cancel(t)
  PROVE  TypeOK'
<1>0. LanesOK /\ FlusherOK /\ StreamOK /\ WaitersOK
  BY DEF TypeOK
<1>l. UNCHANGED lanes => LanesOK'
  BY <1>0 DEF LanesOK, lanes
<1>s. UNCHANGED <<wire, log>> => StreamOK'
  BY <1>0 DEF StreamOK
<1>w. UNCHANGED waiters => WaitersOK'
  BY <1>0 DEF WaitersOK, waiters
<1>p. \A q \in Pcs : [pc EXCEPT ![t] = q] \in [Tasks -> Pcs]
  BY <1>0 DEF FlusherOK
<1>b. [batch EXCEPT ![t] = <<>>] \in [Tasks -> Seq(Frame)]
  BY <1>0 DEF FlusherOK
<1>o. [off EXCEPT ![t] = Start] \in [Tasks -> Offset]
  BY <1>0, OffsetType DEF FlusherOK
<1>q. {"idle", "try_lock", "take", "write", "hand_off", "spawned", "await_lock",
       "mark_dead", "unlock", "notify_drained", "notify_died"} \subseteq Pcs
  BY DEF Pcs, ElectionPcs
<1>n. \A n \in {"drained", "died"} : Notify(n) \subseteq {"drained", "died"}
  BY Zenon, <1>0 DEF Notify, Registered, WaitersOK
<1>1. CASE TryLock(t)
  <2>1. pc' \in [Tasks -> Pcs]
    BY <1>1, <1>p, <1>q DEF TryLock, LockMissed
  <2>2. writer' \in Tasks \cup {"nobody"}
    BY <1>0, <1>1 DEF TryLock, FlusherOK
  <2>3. rounds' \in [Tasks -> Nat]
    BY <1>0, <1>1 DEF TryLock, FlusherOK
  <2> QED BY <1>0, <1>1, <1>l, <1>s, <1>w, <2>1, <2>2, <2>3 DEF TryLock, TypeOK, FlusherOK
<1>2. CASE TakeBatch(t) /\ NothingPending
  <2>1. flushing' = FALSE /\ UNCHANGED <<control, monitor, dead, backlog>>
    BY <1>2 DEF TakeBatch, Release
  <2>2. pc' \in [Tasks -> Pcs]
    BY <1>2, <1>p, <1>q DEF TakeBatch, Release
  <2> QED BY Zenon, <1>0, <1>2, <1>s, <1>w, <2>1, <2>2
          DEF TakeBatch, Release, TypeOK, FlusherOK, LanesOK
<1>3. CASE TakeBatch(t) /\ ~NothingPending
  <2>1. PICK order \in Bijection(1 .. Cardinality(monitor), monitor) :
          batch' = [batch EXCEPT ![t] = Concat(order)]
    BY <1>3 DEF TakeBatch
  <2>2. order \in Seq(Frame)
    BY <1>0, OrderType DEF LanesOK
  <2>3. Concat(order) \in Seq(Frame)
    BY <1>0, <2>2 DEF Concat, LanesOK
  <2>4. batch' \in [Tasks -> Seq(Frame)]
    BY <1>0, <2>1, <2>3 DEF FlusherOK
  <2>5. control' = <<>> /\ monitor' = {} /\ UNCHANGED <<flushing, dead, backlog>>
    BY <1>3 DEF TakeBatch
  <2>6. LanesOK'
    BY <1>0, <2>5, FS_EmptySet DEF LanesOK
  <2>7. pc' \in [Tasks -> Pcs] /\ off' \in [Tasks -> Offset]
    BY <1>3, <1>p, <1>q, <1>o DEF TakeBatch
  <2> QED BY <1>0, <1>3, <1>s, <1>w, <2>4, <2>6, <2>7 DEF TakeBatch, TypeOK, FlusherOK
<1>4. CASE LimitReached(t) \/ WriteFail(t) \/ WritePending(t) \/ Unlock(t)
  <2>1. pc' \in [Tasks -> Pcs]
    BY <1>4, <1>p, <1>q DEF LimitReached, WriteFail, WritePending, Unlock
  <2> QED BY <1>0, <1>4, <1>l, <1>s, <1>w, <2>1
          DEF LimitReached, WriteFail, WritePending, Unlock, TypeOK, FlusherOK
<1>5. CASE WriteByte(t)
  <2>1. batch[t][off[t].frame] \in Frame
    BY <1>0, <1>5 DEF WriteByte, Written, FlusherOK, Offset
  <2>2. off[t] \in Offset /\ off[t].byte \in Nat \ {0}
    BY <1>0 DEF FlusherOK, Offset
  <2>3. wire' = Append(wire, <<batch[t][off[t].frame], off[t].byte>>)
    BY <1>5 DEF WriteByte
  <2>4. wire' \in Seq(Frame \X (Nat \ {0}))
    BY <1>0, <2>1, <2>2, <2>3 DEF StreamOK
  <2>5. off' \in [Tasks -> Offset]
    BY <1>0, <1>5, <2>2, OffsetType DEF WriteByte, FlusherOK
  <2> QED BY <1>0, <1>5, <1>l, <1>w, <2>4, <2>5 DEF WriteByte, TypeOK, FlusherOK, StreamOK
<1>6. CASE Wrote(t)
  <2>1. BatchLen(t) \in Nat
    BY <1>0, RangeFinite, SizeType DEF BatchLen, FlusherOK
  <2>2. backlog' \in Int
    BY <1>0, <1>6, <2>1 DEF Wrote, LanesOK
  <2>3. woken' \subseteq {"drained", "died"}
    BY Zenon, <1>0, <1>6, <1>n DEF Wrote, WaitersOK
  <2>4. pc' \in [Tasks -> Pcs] /\ batch' \in [Tasks -> Seq(Frame)] /\ off' \in [Tasks -> Offset]
    BY <1>6, <1>p, <1>q, <1>b, <1>o DEF Wrote
  <2>5. rounds' \in [Tasks -> Nat]
    BY <1>0, <1>6 DEF Wrote, FlusherOK
  <2>6. UNCHANGED <<control, monitor, flushing, dead, writer, wire, log, conn, closed>>
    BY <1>6 DEF Wrote
  <2>7. LanesOK' /\ WaitersOK'
    BY <1>0, <2>2, <2>3, <2>6 DEF LanesOK, WaitersOK
  <2> QED BY <1>0, <1>s, <2>4, <2>5, <2>6, <2>7 DEF TypeOK, FlusherOK
<1>7. CASE Spawn(t)
  <2>1. PICK c \in Conts :
          /\ pc' = [pc EXCEPT ![t] = "idle", ![c] = "spawned"]
          /\ batch' = [batch EXCEPT ![t] = <<>>, ![c] = batch[t]]
          /\ off' = [off EXCEPT ![t] = Start, ![c] = off[t]]
    BY Zenon, <1>7 DEF Spawn, Inherited, Resume
  <2>2. pc' \in [Tasks -> Pcs]
    BY Zenon, <1>0, <1>q, <2>1 DEF FlusherOK
  <2>3. batch' \in [Tasks -> Seq(Frame)]
    BY Zenon, <1>0, <1>b, <2>1 DEF FlusherOK
  <2>4. off' \in [Tasks -> Offset]
    BY Zenon, <1>0, <1>o, <2>1 DEF FlusherOK
  <2>5. UNCHANGED <<lanes, writer, rounds, wire, log, waiters>>
    BY <1>7 DEF Spawn, HandedOn, lanes
  <2> QED BY <1>0, <1>l, <1>s, <1>w, <2>2, <2>3, <2>4, <2>5 DEF TypeOK, FlusherOK
<1>8. CASE NoRuntime(t) \/ FirstPoll(t) \/ AcquireLock(t)
  <2>1. pc' \in [Tasks -> Pcs]
    BY <1>8, <1>p, <1>q DEF NoRuntime, FirstPoll, AcquireLock
  <2> QED BY <1>0, <1>8, <1>l, <1>s, <1>w, <2>1
          DEF NoRuntime, FirstPoll, AcquireLock, TypeOK, FlusherOK
<1>9. CASE MarkDead(t)
  <2>1. control' = <<>> /\ monitor' = {} /\ flushing' = FALSE /\ dead' = TRUE /\ backlog' = 0
    BY <1>9 DEF MarkDead
  <2>2. LanesOK'
    <3>1. IsFiniteSet({}) BY FS_EmptySet
    <3>2. IsFiniteSet(monitor') BY <2>1, <3>1
    <3>3. control' \in Seq(Frame) /\ backlog' \in Int BY <2>1
    <3>4. flushing' \in BOOLEAN /\ dead' \in BOOLEAN BY Zenon, <2>1
    <3> QED BY <2>1, <3>2, <3>3, <3>4 DEF LanesOK
  <2>3. pc' \in [Tasks -> Pcs] /\ batch' \in [Tasks -> Seq(Frame)] /\ off' \in [Tasks -> Offset]
    BY <1>9, <1>p, <1>q, <1>b, <1>o DEF MarkDead
  <2> QED BY <1>0, <1>9, <1>s, <1>w, <2>2, <2>3 DEF MarkDead, TypeOK, FlusherOK
<1>10. CASE NotifyDrained(t) \/ NotifyDied(t)
  <2>1. pc' \in [Tasks -> Pcs]
    BY <1>10, <1>p, <1>q DEF NotifyDrained, NotifyDied
  <2>2. WaitersOK'
    BY <1>0, <1>10, <1>n DEF NotifyDrained, NotifyDied, DiedNotice, WaitersOK
  <2> QED BY <1>0, <1>10, <1>l, <1>s, <2>1, <2>2 DEF NotifyDrained, NotifyDied, TypeOK, FlusherOK
<1>11. CASE Cancel(t)
  <2>1. writer' \in Tasks \cup {"nobody"}
    BY <1>0, <1>11 DEF Cancel, FlusherOK
  <2>2. pc' \in [Tasks -> Pcs]
    BY <1>11, <1>p, <1>q DEF Cancel
  <2>3. batch' \in [Tasks -> Seq(Frame)] /\ off' \in [Tasks -> Offset]
    BY Zenon, <1>0, <1>11, <1>b, <1>o DEF Cancel, FlusherOK
  <2> QED BY <1>0, <1>11, <1>l, <1>s, <1>w, <2>1, <2>2, <2>3 DEF Cancel, TypeOK, FlusherOK
<1> QED BY <1>1, <1>2, <1>3, <1>4, <1>5, <1>6, <1>7, <1>8, <1>9, <1>10, <1>11 DEF Step, Write

(* Every step keeps the types.                                             *)
LEMMA TypeStep == TypeOK /\ [Next]_vars => TypeOK'
<1> SUFFICES ASSUME TypeOK, [Next]_vars PROVE TypeOK'
  OBVIOUS
<1>1. CASE Backpressure \/ ClosedPoll
  <2>1. WaitersOK'
    BY Zenon, <1>1 DEF Backpressure, BackpressureFast, BackpressureEnable, BackpressureCheck,
                BackpressureWake, ClosedPoll, TypeOK, WaitersOK
  <2>2. UNCHANGED <<lanes, flusher, wire, log>>
    BY <1>1 DEF Backpressure, BackpressureFast, BackpressureEnable, BackpressureCheck,
                BackpressureWake, ClosedPoll
  <2> QED BY <2>1, <2>2 DEF TypeOK, LanesOK, FlusherOK, StreamOK, lanes, flusher
<1>2. CASE UNCHANGED vars
  BY <1>2 DEF vars, TypeOK, LanesOK, FlusherOK, StreamOK, WaitersOK, lanes, flusher, waiters
<1> QED BY <1>1, <1>2, DepositType, FlusherType DEF Next

(* Typing: TypeOK holds in every behaviour of the writer.                  *)
THEOREM Typing == Spec => []TypeOK
<1>1. Init => TypeOK
  <2> SUFFICES ASSUME Init PROVE TypeOK
    OBVIOUS
  <2>1. LanesOK
    <3>1. IsFiniteSet(monitor) BY FS_EmptySet DEF Init
    <3>2. control \in Seq(Frame) /\ backlog \in Int /\ monitor = {} BY DEF Init
    <3>3. flushing \in BOOLEAN /\ dead \in BOOLEAN BY Zenon DEF Init
    <3> QED BY <3>1, <3>2, <3>3 DEF LanesOK
  <2>2. FlusherOK
    BY OffsetType DEF Init, FlusherOK, Pcs
  <2>3. StreamOK /\ WaitersOK
    BY DEF Init, StreamOK, WaitersOK
  <2> QED BY <2>1, <2>2, <2>3 DEF TypeOK
<1> QED BY <1>1, TypeStep, PTL DEF Spec

-----------------------------------------------------------------------------
(* The election invariant is inductive together with the types, provided   *)
(* that a continuation is not dropped before its first poll.               *)
ElectionInv == OneFlusher /\ NoStrandedWork

(* A task that keeps the election, or never had it, moves on.              *)
LEMMA Moves ==
  ASSUME TypeOK, ElectionInv, NEW t \in Tasks, NEW q \in Pcs,
         pc' = [pc EXCEPT ![t] = q], pc[t] \in ElectionPcs <=> q \in ElectionPcs,
         writer' = IF q \in LockPcs THEN t ELSE IF writer = t THEN "nobody" ELSE writer,
         q \in LockPcs => writer \in {t, "nobody"},
         UNCHANGED <<flushing, dead>>, Pending' => Pending
  PROVE  ElectionInv'
<1> USE DEF ElectionInv, OneFlusher, NoStrandedWork, Flusher
<1>0. /\ pc \in [Tasks -> Pcs] /\ writer \in Tasks \cup {"nobody"}
      /\ "nobody" \notin Tasks
  BY NobodyAssumption DEF TypeOK, FlusherOK, Tasks
<1>1. \A s \in Tasks : Flusher(s)' <=> Flusher(s)
  BY <1>0
<1>2. ElectionHeld' /\ ElectionAlone'
  BY <1>1 DEF ElectionHeld, ElectionAlone
<1>3. LockHeld'
  BY <1>0 DEF LockHeld
<1>4. NoStrandedWork'
  BY <1>1
<1> QED BY <1>2, <1>3, <1>4

(* The flusher gives the election up, with nothing pending.                *)
LEMMA Resigns ==
  ASSUME TypeOK, ElectionInv, NEW t \in Tasks, NEW q \in Pcs,
         Flusher(t), pc' = [pc EXCEPT ![t] = q], q \notin ElectionPcs,
         UNCHANGED writer, pc[t] \in LockPcs <=> q \in LockPcs,
         flushing' = FALSE, ~Pending'
  PROVE  ElectionInv'
<1> USE DEF ElectionInv, OneFlusher, NoStrandedWork, Flusher
<1>0. pc \in [Tasks -> Pcs]
  BY DEF TypeOK, FlusherOK
<1>1. \A s \in Tasks : ~Flusher(s)'
  BY <1>0 DEF ElectionAlone
<1>2. ElectionHeld' /\ ElectionAlone'
  BY <1>1 DEF ElectionHeld, ElectionAlone
<1>3. LockHeld'
  BY <1>0 DEF LockHeld
<1> QED BY <1>2, <1>3

(* Every step keeps the election sound.                                    *)
LEMMA ElectionStep ==
  ASSUME "spawned" \notin Cancellable, TypeOK, ElectionInv, [Next]_vars
  PROVE  ElectionInv'
<1>0. /\ pc \in [Tasks -> Pcs] /\ writer \in Tasks \cup {"nobody"}
      /\ "nobody" \notin Tasks
  BY NobodyAssumption DEF TypeOK, FlusherOK, Tasks
<1>q. {"idle", "try_lock", "take", "write", "hand_off", "spawned", "await_lock",
       "mark_dead", "unlock", "notify_drained", "notify_died"} \subseteq Pcs
  BY DEF Pcs, ElectionPcs
<1>h. ASSUME NEW t \in Tasks PROVE (writer = t) <=> pc[t] \in LockPcs
  BY DEF ElectionInv, OneFlusher, LockHeld
<1>1. ASSUME NEW p \in Producers, SendControl(p) \/ SendMonitor(p) PROVE ElectionInv'
  <2> USE DEF ElectionInv, OneFlusher, NoStrandedWork, Flusher
  <2>0. p \in Tasks BY DEF Tasks
  <2>1. pc[p] = "idle" /\ ~dead /\ UNCHANGED <<dead, writer>> /\ flushing' = TRUE
    BY <1>1 DEF SendControl, SendMonitor, CanDeposit, Accepting, Elect
  <2>2. CASE flushing
    <3>1. pc' = pc BY <1>1, <2>2 DEF SendControl, SendMonitor, Elect
    <3> QED BY <2>1, <2>2, <3>1 DEF ElectionHeld, ElectionAlone, LockHeld
  <2>3. CASE ~flushing
    <3>1. pc' = [pc EXCEPT ![p] = "try_lock"]
      BY <1>1, <2>3 DEF SendControl, SendMonitor, Elect
    <3>2. \A s \in Tasks : Flusher(s)' <=> s = p
      BY <1>0, <2>0, <2>3, <3>1 DEF ElectionHeld, ElectionPcs
    <3>3. LockHeld'
      BY <1>0, <2>0, <2>1, <3>1 DEF LockHeld, LockPcs
    <3> QED BY <2>0, <2>1, <3>2, <3>3 DEF ElectionHeld, ElectionAlone
  <2> QED BY <2>2, <2>3
<1>2. ASSUME NEW t \in Tasks, TryLock(t) PROVE ElectionInv'
  BY <1>0, <1>q, <1>h, <1>2, Moves DEF TryLock, LockMissed, ElectionPcs, LockPcs, lanes, Pending
<1>3. ASSUME NEW t \in Tasks, TakeBatch(t) PROVE ElectionInv'
  <2>1. CASE NothingPending
    BY Zenon, <1>q, <1>3, <2>1, Resigns
       DEF TakeBatch, Release, NothingPending, Pending, Flusher, ElectionPcs, LockPcs
  <2>2. CASE ~NothingPending
    <3>1. pc[t] = "take" /\ pc' = [pc EXCEPT ![t] = "write"]
          /\ UNCHANGED <<flushing, dead, writer>> /\ ~Pending'
      BY <1>3, <2>2 DEF TakeBatch, Pending
    <3> QED BY Zenon, <1>q, <1>h, <3>1, Moves DEF ElectionPcs, LockPcs
  <2> QED BY <2>1, <2>2
<1>4. ASSUME NEW t \in Tasks, LimitReached(t) \/ WriteFail(t) \/ WritePending(t) PROVE ElectionInv'
  BY <1>0, <1>q, <1>h, <1>4, Moves
     DEF LimitReached, WriteFail, WritePending, ElectionPcs, LockPcs, lanes, Pending
<1>5. ASSUME NEW t \in Tasks, WriteByte(t) PROVE ElectionInv'
  <2>1. UNCHANGED <<lanes, writer, pc>> BY <1>5 DEF WriteByte
  <2> QED BY <2>1 DEF lanes, ElectionInv, OneFlusher, NoStrandedWork, Flusher, Pending,
                      ElectionHeld, ElectionAlone, LockHeld
<1>6. ASSUME NEW t \in Tasks, Wrote(t) PROVE ElectionInv'
  BY Zenon, <1>0, <1>q, <1>h, <1>6, Moves DEF Wrote, ElectionPcs, LockPcs, Pending
<1>7. ASSUME NEW t \in Tasks, Unlock(t) PROVE ElectionInv'
  BY Zenon, <1>0, <1>q, <1>h, <1>7, Moves DEF Unlock, ElectionPcs, LockPcs, lanes, Pending
<1>8. ASSUME NEW t \in Tasks, Spawn(t) PROVE ElectionInv'
  <2> USE DEF ElectionInv, OneFlusher, NoStrandedWork, Flusher
  <2>1. PICK c \in Conts : pc[c] = "idle" /\ pc' = [pc EXCEPT ![t] = "idle", ![c] = "spawned"]
    BY Zenon, <1>8 DEF Spawn
  <2>2. pc[t] = "hand_off" /\ c \in Tasks /\ c # t /\ UNCHANGED <<lanes, writer>>
    BY <1>8, <2>1 DEF Spawn, HandedOn, Tasks, lanes
  <2>3. \A s \in Tasks : Flusher(s) <=> s = t
    BY <2>2 DEF ElectionAlone, ElectionPcs
  <2>4. \A s \in Tasks : Flusher(s)' <=> s = c
    BY <1>0, <2>1, <2>2, <2>3 DEF ElectionPcs
  <2>5. LockHeld'
    BY <1>0, <1>h, <2>1, <2>2 DEF LockHeld, LockPcs
  <2> QED BY <2>2, <2>3, <2>4, <2>5 DEF ElectionHeld, ElectionAlone, lanes
<1>9. ASSUME NEW t \in Tasks, NoRuntime(t) \/ FirstPoll(t) \/ AcquireLock(t) PROVE ElectionInv'
  BY <1>0, <1>q, <1>h, <1>9, Moves
     DEF NoRuntime, FirstPoll, AcquireLock, ElectionPcs, LockPcs, lanes, Pending
<1>10. ASSUME NEW t \in Tasks, MarkDead(t) PROVE ElectionInv'
  BY Zenon, <1>q, <1>10, Resigns DEF MarkDead, Pending, Flusher, ElectionPcs, LockPcs
<1>11. ASSUME NEW t \in Tasks, NotifyDrained(t) \/ NotifyDied(t) PROVE ElectionInv'
  BY <1>0, <1>q, <1>h, <1>11, Moves
     DEF NotifyDrained, NotifyDied, ElectionPcs, LockPcs, lanes, Pending
<1>12. ASSUME NEW t \in Tasks, Cancel(t) PROVE ElectionInv'
  <2>1. pc[t] \in {"await_lock", "write"}
    BY Zenon, <1>12, WriterAssumption DEF Cancel
  <2> QED BY <1>0, <1>q, <1>h, <1>12, <2>1, Moves DEF Cancel, ElectionPcs, LockPcs, lanes, Pending
<1>13. CASE Backpressure \/ ClosedPoll \/ (\E p \in Producers : SendDead(p)) \/ UNCHANGED vars
  <2>1. UNCHANGED <<lanes, flusher>>
    BY <1>13 DEF Backpressure, BackpressureFast, BackpressureEnable, BackpressureCheck,
                 BackpressureWake, ClosedPoll, SendDead, vars
  <2> QED BY <2>1 DEF lanes, flusher, ElectionInv, OneFlusher, NoStrandedWork, Flusher, Pending,
                      ElectionHeld, ElectionAlone, LockHeld
<1> QED BY <1>1, <1>2, <1>3, <1>4, <1>5, <1>6, <1>7, <1>8, <1>9, <1>10, <1>11, <1>12, <1>13
        DEF Next, Step, Write

(* Election: unless a continuation is dropped before its first poll, there *)
(* is one flusher exactly while `flushing`, and never work pending without *)
(* one, for any number of producers and continuations.                     *)
THEOREM Election ==
  ASSUME "spawned" \notin Cancellable
  PROVE  Spec => [](OneFlusher /\ NoStrandedWork)
<1>1. Init => ElectionInv
  BY NobodyAssumption DEF Init, ElectionInv, OneFlusher, NoStrandedWork, Pending, ElectionHeld,
     ElectionAlone, LockHeld, Flusher, ElectionPcs, LockPcs, Tasks
<1>2. TypeOK /\ ElectionInv /\ [Next]_vars => ElectionInv'
  BY ElectionStep
<1>3. ElectionInv => OneFlusher /\ NoStrandedWork
  BY DEF ElectionInv
<1> QED BY <1>1, <1>2, <1>3, Typing, PTL DEF Spec

=============================================================================
