-------------------------- MODULE AxiDmaOut_proofs --------------------------
(***************************************************************************)
(* Proofs about AxiDmaOut, for every number of threads, buffer size,       *)
(* alignment and bound.  The inductive invariant IInv joins the properties *)
(* the runs check with Control, the facts about program counters and       *)
(* locals that the steps rely on.  Each <Action>Step lemma shows that one  *)
(* action preserves IInv.                                                  *)
(*                                                                         *)
(* The second part proves that the driver implements BurstStream           *)
(* (StreamSafe), also for an engine that may fail.  To IInv it adds Data,  *)
(* what each byte of the two buffers is.                                   *)
(*                                                                         *)
(* PollApp extends AxiDmaOut, and the last part is about it: the program   *)
(* over the two drivers is a use of each that its own proofs cover, every  *)
(* buffer it writes is taken whole, and it streams only after the stop was *)
(* reset.  Spec is the driver's by itself, AppSpec the program's.          *)
(***************************************************************************)
EXTENDS PollApp, SequenceTheorems, TLAPS

\* Division rounds down.
LEMMA DivBounds ==
  ASSUME NEW n \in Nat, NEW k \in Nat \ {0}
  PROVE  /\ n \div k \in Nat
         /\ (n \div k) * k <= n
         /\ n < (n \div k) * k + k
  <1>1. n = k * (n \div k) + (n % k) /\ n % k \in 0 .. k - 1
    BY Z3
  <1> QED
    BY <1>1, Z3

\* A smaller multiple of k is smaller by k at least.
LEMMA MulMono ==
  ASSUME NEW a \in Nat, NEW b \in Nat, NEW k \in Nat \ {0}, a * k < b * k
  PROVE  a * k + k <= b * k
  <1>1. a < b
    BY Z3
  <1>2. PICK c \in Nat : b = a + 1 + c
    <2>1. b - a - 1 \in Nat /\ b = a + 1 + (b - a - 1)
      BY <1>1
    <2> QED BY <2>1
  <1>3. b * k = a * k + k + c * k
    BY <1>2, Z3
  <1>4. c * k >= 0
    BY <1>2, Z3
  <1> QED
    BY <1>3, <1>4, <1>2

\* setup_DMA_transfer never asks for less than the caller has, nor for more
\* than a buffer holds.
LEMMA AlignedCountRange ==
  ASSUME NEW n \in 1 .. BufSize
  PROVE  AlignedCount(n) \in n .. BufSize
  <1> USE SizeAssumption
  <1> DEFINE q == n \div Align
             k == BufSize \div Align
  <1>1. q \in Nat /\ q * Align <= n /\ n < q * Align + Align
    BY DivBounds
  <1>2. k \in Nat /\ BufSize = k * Align
    BY DivBounds, Z3
  <1>3. q * Align < BufSize => q * Align + Align <= BufSize
    BY <1>1, <1>2, MulMono
  <1>4. q * Align \in Nat
    BY <1>1, Z3
  <1> HIDE DEF q, k
  <1>5. AlignedCount(n) = IF n # q * Align /\ q * Align < BufSize
                          THEN q * Align + Align ELSE q * Align
    BY DEF AlignedCount, q
  <1> QED
    BY <1>1, <1>3, <1>4, <1>5

-----------------------------------------------------------------------------
\* What the steps rely on: who is inside the mutex, who sets a transfer up,
\* what the locals hold there, who is on the wait queue.
Control ==
  /\ \A p \in Procs : InMutex(p) <=> mutex = p
  /\ \A t \in Threads : pc[t] \in {"pad", "submit", "issue"} => dma_data[t]
  /\ \A p \in Procs : pc[p] \in {"check", "copy"} => count[p] \in Nat
  /\ \A p \in Procs : pc[p] = "queue" => pos > 0
  /\ \A p \in Procs : pc[p] \in {"poll", "sleep"} => p \in wait_queue
  /\ Fill_buffer = DMA_active_buffer => next_buff_count \in 1 .. BufSize

\* The inductive invariant.
IInv ==
  /\ TypeOK /\ OneTransfer /\ Control
  /\ FillerOwnsBuffer /\ FillPosition /\ NoLostWakeup

-----------------------------------------------------------------------------
\* A thread goes to a label of its kind.
LEMMA GotoType ==
  ASSUME TypeOK, NEW t \in Threads, NEW l, Goto(t, l),
         t = Tasklet => l \in TaskletLabels, t \in Procs => l \in ProcLabels
  PROVE  /\ pc' \in [Threads -> ProcLabels \cup TaskletLabels]
         /\ \A p \in Procs : pc'[p] \in ProcLabels
         /\ pc'[Tasklet] \in TaskletLabels
         /\ pc'[t] = l
         /\ \A u \in Threads \ {t} : pc'[u] = pc[u]
  BY DEF TypeOK, Goto, Threads

\* A returning thread keeps its locals in their types.
LEMMA ForgetType ==
  ASSUME TypeOK, NEW t \in Threads, Forget(t)
  PROVE  /\ bufnumber' \in [Threads -> Bufs]
         /\ count' \in [Threads -> Int]
         /\ dma_data' \in [Threads -> BOOLEAN]
         /\ SettingUp' = SettingUp \ {t}
  <1>1. dma_data' \in [Threads -> BOOLEAN]
    BY Zenon DEF TypeOK, Forget
  <1>2. bufnumber' \in [Threads -> Bufs] /\ count' \in [Threads -> Int]
    BY DEF TypeOK, Forget, Bufs
  <1>3. SettingUp' = SettingUp \ {t}
    BY DEF TypeOK, Forget, SettingUp
  <1> QED
    BY <1>1, <1>2, <1>3

\* Handing a buffer over keeps what it changes in its type.
LEMMA HandOverType ==
  ASSUME TypeOK, NEW p \in Procs, NEW n \in 1 .. BufSize, NEW b \in Bufs,
         HandOver(p, b, n)
  PROVE  /\ dma_data' \in [Threads -> BOOLEAN]
         /\ count' \in [Threads -> Int]
         /\ DMA_active_buffer' \in Bufs \cup {-1}
         /\ Fill_buffer' \in Bufs
         /\ next_buff_count' \in 0 .. BufSize
         /\ pos' \in 0 .. BufSize
  <1>1. dma_data' \in [Threads -> BOOLEAN]
    BY Zenon DEF TypeOK, HandOver
  <1> QED
    BY <1>1, SizeAssumption DEF TypeOK, HandOver, NextBuf, Bufs

\* A thread between dma_started and its transfer holds the claim on the engine.
LEMMA SetterClaimed ==
  ASSUME OneTransfer, NEW t \in Threads, dma_data[t]
  PROVE  Claimed(t)
  <1>1. t \in SettingUp
    BY DEF SettingUp
  <1> QED
    BY <1>1 DEF OneTransfer, Free, Claimed, InFlight, Completing

\* No claim, no transfer.
LEMMA UnclaimedFree ==
  ASSUME TypeOK, OneTransfer, DMA_active_buffer = -1
  PROVE  Free
  <1>1. ASSUME NEW t \in Threads PROVE ~Claimed(t)
    BY DEF Claimed, TypeOK, Bufs
  <1>2. ASSUME NEW d \in issued PROVE ~InFlight(d)
    BY DEF InFlight, TypeOK, Bufs, Descriptors
  <1> QED
    BY <1>1, <1>2 DEF OneTransfer, Completing

\* A step that leaves the claim, the engine and the locals of the thread
\* that sets the transfer up alone leaves the transfer in its stage.
LEMMA StageFrame ==
  ASSUME OneTransfer,
         UNCHANGED <<DMA_active_buffer, SettingUp, txcookie, engine>>,
         \A t \in SettingUp :
            pc'[t] = pc[t] /\ bufnumber'[t] = bufnumber[t] /\ count'[t] = count[t],
         pc'[Tasklet] = "claim" <=> pc[Tasklet] = "claim"
  PROVE  OneTransfer'
  <1>2. CASE Free
    BY <1>2 DEF OneTransfer, Free, engine
  <1>3. ASSUME NEW t \in Threads, Claimed(t) PROVE OneTransfer'
    <2>1. t \in SettingUp
      BY <1>3 DEF Claimed
    <2>2. Claimed(t)'
      BY <1>3, <2>1 DEF Claimed, engine
    <2> QED BY <2>2 DEF OneTransfer
  <1>4. ASSUME NEW d \in issued, InFlight(d) PROVE OneTransfer'
    <2>1. InFlight(d)'
      BY <1>4 DEF InFlight, engine
    <2> QED BY <2>1 DEF OneTransfer, engine
  <1>5. CASE Completing
    BY <1>5 DEF OneTransfer, Completing, engine
  <1> QED
    BY <1>2, <1>3, <1>4, <1>5 DEF OneTransfer

\* WriteLock preserves the invariant.
LEMMA WriteLockStep ==
  ASSUME IInv, NEW p \in Procs, NEW n \in 0 .. BufSize + 1, WriteLock(p, n)
  PROVE  IInv'
  <1> USE SizeAssumption, ThreadAssumption DEF Threads, Bufs, Slots, IInv
  <1>1. TypeOK'
    <2>1. Goto(p, "check") /\ "check" \in ProcLabels
      BY DEF WriteLock, ProcLabels
    <2>2. count' \in [Threads -> Int]
      BY DEF WriteLock, TypeOK
    <2> QED
      BY <2>1, <2>2, GotoType DEF WriteLock, TypeOK, engine, waiters, stream
  <1>2. OneTransfer'
    BY SetterClaimed, StageFrame DEF SettingUp, WriteLock, Goto, Claimed
  <1>3. Control'
    BY DEF TypeOK, WriteLock, Goto, waiters, Control, InMutex
  <1>4. FillerOwnsBuffer'
    BY DEF WriteLock, Goto, FillerOwnsBuffer
  <1>5. FillPosition'
    BY DEF WriteLock, FillPosition, FillerOwnsBuffer
  <1>6. NoLostWakeup'
    BY DEF WriteLock, Goto, waiters, NoLostWakeup
  <1> QED
    BY <1>1, <1>2, <1>3, <1>4, <1>5, <1>6

\* WriteCheck preserves the invariant.
LEMMA WriteCheckStep ==
  ASSUME IInv, NEW p \in Procs, WriteCheck(p)
  PROVE  IInv'
  <1> USE SizeAssumption, ThreadAssumption DEF Threads, Bufs, Slots, IInv
  <1>1. TypeOK'
    <2>1. \E l \in ProcLabels : Goto(p, l)
      BY DEF WriteCheck, ProcLabels
    <2>2. bufnumber' \in [Threads -> Bufs] /\ count' \in [Threads -> Int]
      BY DEF WriteCheck, TypeOK
    <2> QED
      BY <2>1, <2>2, GotoType
      DEF WriteCheck, TypeOK, shared, engine, waiters, stream
  <1>2. OneTransfer'
    BY SetterClaimed, StageFrame DEF SettingUp, TypeOK, WriteCheck, Goto, shared, Claimed
  <1>3. Control'
    <2>1. CASE Fill_buffer # DMA_active_buffer
      BY <2>1 DEF WriteCheck, Control, InMutex, TypeOK, Goto, shared, waiters
    <2>2. CASE Fill_buffer = DMA_active_buffer
      BY <2>2 DEF WriteCheck, Control, InMutex, TypeOK, Goto, shared, waiters
    <2> QED BY <2>1, <2>2
  <1>4. FillerOwnsBuffer'
    BY DEF TypeOK, WriteCheck, Goto, shared, Control, FillerOwnsBuffer, InMutex
  <1>5. FillPosition'
    BY DEF WriteCheck, shared, Control, FillPosition, InMutex
  <1>6. NoLostWakeup'
    BY DEF TypeOK, WriteCheck, Goto, shared, waiters, NoLostWakeup
  <1> QED
    BY <1>1, <1>2, <1>3, <1>4, <1>5, <1>6

\* The clamped request fits in the buffer.
LEMMA RoomRange ==
  ASSUME IInv, NEW p \in Procs, pc[p] = "copy"
  PROVE  Room(p) \in 0 .. BufSize - pos
  BY SizeAssumption DEF IInv, TypeOK, Control, Room, Lesser

\* A copy keeps the buffers' shape.
LEMMA StoreType ==
  ASSUME TypeOK, NEW p \in Procs, NEW n \in Int, NEW f \in [Slots -> Int],
         Store(p, n, f)
  PROVE  buffers' \in [Bufs -> [Slots -> Int]]
  BY DEF TypeOK, Store, Threads

\* WriteCopy preserves the invariant.
LEMMA WriteCopyStep ==
  ASSUME IInv, NEW p \in Procs, WriteCopy(p)
  PROVE  IInv'
  <1> USE SizeAssumption, ThreadAssumption DEF Threads, Bufs, Slots, IInv
  <1>1. TypeOK'
    <2>1. Room(p) \in 0 .. BufSize - pos
      BY RoomRange DEF WriteCopy
    <2>2. \E l \in ProcLabels : Goto(p, l)
      BY DEF WriteCopy, CopyDone, CopyFault, CopyNothing, ProcLabels
    <2>3. buffers' \in [Bufs -> [Slots -> Int]]
      <3>1. CASE CopyDone(p)
        <4>1. [j \in Slots |-> accepted + 1 + j - pos] \in [Slots -> Int]
          BY DEF TypeOK
        <4> QED
          BY <2>1, <3>1, <4>1, StoreType DEF CopyDone
      <3>2. CASE CopyFault(p)
        <4>1. [j \in Slots |-> Junk] \in [Slots -> Int]
          BY DEF Junk
        <4> QED
          BY <2>1, <3>2, <4>1, StoreType DEF CopyFault
      <3>3. CASE CopyNothing(p)
        BY <3>3 DEF CopyNothing, TypeOK
      <3> QED BY <3>1, <3>2, <3>3 DEF WriteCopy
    <2>4. pos' \in 0 .. BufSize /\ accepted' \in Nat
      <3>1. CASE CopyDone(p)
        <4>1. pos' = pos + Room(p) /\ accepted' = accepted + Room(p)
          BY <3>1 DEF CopyDone
        <4>2. pos \in 0 .. BufSize /\ accepted \in Nat
          BY DEF TypeOK
        <4> QED
          BY <2>1, <4>1, <4>2
      <3>2. CASE CopyFault(p) \/ CopyNothing(p)
        BY <3>2 DEF CopyFault, CopyNothing, TypeOK
      <3> QED BY <3>1, <3>2 DEF WriteCopy
    <2>5. count' \in [Threads -> Int]
      <3>1. \E n \in Int : count' = [count EXCEPT ![p] = n]
        BY <2>1 DEF WriteCopy, CopyDone, CopyFault, CopyNothing, EFAULT,
           ENOMEM, TypeOK
      <3> QED BY <3>1 DEF TypeOK
    <2> QED
      BY <2>2, <2>3, <2>4, <2>5, GotoType DEF WriteCopy, TypeOK, engine, waiters
  <1>2. OneTransfer'
    BY SetterClaimed, StageFrame DEF SettingUp, TypeOK, WriteCopy, CopyDone, CopyFault, CopyNothing, Goto, Claimed
  <1>3. Control'
    <2>1. Room(p) \in 0 .. BufSize - pos
      BY RoomRange DEF WriteCopy
    <2>2. CASE CopyDone(p)
      <3>1. pos' > 0 /\ pc' = [pc EXCEPT ![p] = "queue"]
        <4>1. Room(p) > 0 /\ pos' = pos + Room(p) /\ Goto(p, "queue")
          BY <2>2 DEF CopyDone
        <4>2. pos \in Nat
          BY DEF TypeOK
        <4> QED BY <2>1, <4>1, <4>2 DEF Goto
      <3>2. \A q \in Procs \ {p} : count'[q] = count[q]
        BY <2>2 DEF CopyDone, TypeOK
      <3> QED
        BY <3>1, <3>2 DEF WriteCopy, Control, InMutex, TypeOK, waiters
    <2>3. CASE CopyFault(p)
      <3>1. \A q \in Procs \ {p} : count'[q] = count[q]
        BY <2>3 DEF CopyFault, TypeOK
      <3> QED
        BY <2>3, <3>1
        DEF CopyFault, Goto, WriteCopy, Control, InMutex, TypeOK, waiters
    <2>4. CASE CopyNothing(p)
      <3>1. \A q \in Procs \ {p} : count'[q] = count[q]
        BY <2>4 DEF CopyNothing, TypeOK
      <3> QED
        BY <2>4, <3>1
        DEF CopyNothing, Goto, WriteCopy, Control, InMutex, TypeOK, waiters
    <2> QED
      BY <2>2, <2>3, <2>4 DEF WriteCopy
  <1>4. FillerOwnsBuffer'
    BY DEF TypeOK, WriteCopy, CopyDone, CopyFault, CopyNothing, Goto, FillerOwnsBuffer
  <1>5. FillPosition'
    BY DEF TypeOK, WriteCopy, CopyDone, CopyFault, CopyNothing, Goto, FillPosition, FillerOwnsBuffer
  <1>6. NoLostWakeup'
    BY DEF TypeOK, WriteCopy, CopyDone, CopyFault, CopyNothing, Goto, waiters, NoLostWakeup
  <1> QED
    BY <1>1, <1>2, <1>3, <1>4, <1>5, <1>6

\* Handing a buffer over claims the transfer or leaves it in its stage.
LEMMA HandOverStage ==
  ASSUME IInv, NEW p \in Procs, pc[p] \in {"queue", "flush"},
         NEW n \in 1 .. BufSize, HandOver(p, Fill_buffer, n),
         Goto(p, "unlock"), bufnumber' = [bufnumber EXCEPT ![p] = Fill_buffer],
         UNCHANGED <<txcookie, engine>>
  PROVE  OneTransfer'
  <1> USE DEF IInv
  <1>1. ~dma_data[p]
    BY SetterClaimed DEF Claimed, Threads
  <1>2. CASE DMA_active_buffer = -1
    <2>1. Free
      BY <1>2, UnclaimedFree
    <2>2. SettingUp' = {p}
      BY <1>2, <2>1 DEF HandOver, Free, SettingUp, TypeOK, Threads
    <2>3. pc'[Tasklet] # "claim" /\ pc'[p] = "unlock"
      BY <2>1, ThreadAssumption DEF Goto, Free, TypeOK, Threads
    <2>4. DMA_active_buffer' = bufnumber'[p] /\ count'[p] = n
      BY <1>2 DEF HandOver, TypeOK, Threads
    <2>5. Claimed(p)'
      BY <2>1, <2>2, <2>3, <2>4 DEF Claimed, Free, engine
    <2> QED
      BY <2>5 DEF OneTransfer, Threads
  <1>3. CASE DMA_active_buffer # -1
    <2>1. SettingUp' = SettingUp /\ DMA_active_buffer' = DMA_active_buffer
      BY <1>1, <1>3 DEF HandOver, SettingUp, TypeOK
    <2>2. \A t \in Threads : t # p =>
             pc'[t] = pc[t] /\ bufnumber'[t] = bufnumber[t] /\ count'[t] = count[t]
      BY DEF HandOver, Goto, TypeOK
    <2>3. p # Tasklet
      BY ThreadAssumption
    <2> QED
      BY <1>1, <2>1, <2>2, <2>3, StageFrame DEF SettingUp, Threads
  <1> QED
    BY <1>2, <1>3

\* WriteQueue preserves the invariant.
LEMMA WriteQueueStep ==
  ASSUME IInv, NEW p \in Procs, WriteQueue(p)
  PROVE  IInv'
  <1> USE SizeAssumption, ThreadAssumption DEF Threads, Bufs, Slots, IInv
  <1>1. TypeOK'
    <2>1. Goto(p, "unlock") /\ "unlock" \in ProcLabels
      BY DEF WriteQueue, ProcLabels
    <2>2. CASE pos >= BufSize
      <3>1. BufSize \in 1 .. BufSize
        OBVIOUS
      <3>2. HandOver(p, bufnumber[p], BufSize) /\ bufnumber[p] \in Bufs
        BY <2>2 DEF WriteQueue, TypeOK
      <3> QED
        BY <2>1, <3>1, <3>2, GotoType, HandOverType
        DEF WriteQueue, TypeOK, engine, waiters, stream
    <2>3. CASE pos < BufSize
      <3>1. UNCHANGED <<dma_data, DMA_active_buffer, next_buff_count,
                        Fill_buffer, pos, count>>
        BY <2>3 DEF WriteQueue, TypeOK
      <3> QED
        BY <2>1, <3>1, GotoType
        DEF WriteQueue, TypeOK, engine, waiters, stream
    <2> QED BY <2>2, <2>3 DEF WriteQueue
  <1>2. OneTransfer'
    <2>1. bufnumber[p] = Fill_buffer
      BY DEF WriteQueue, FillerOwnsBuffer
    <2>2. CASE pos >= BufSize
      <3>1. bufnumber' = [bufnumber EXCEPT ![p] = Fill_buffer]
        BY <2>1 DEF WriteQueue, TypeOK
      <3>2. BufSize \in 1 .. BufSize
        OBVIOUS
      <3>3. HandOver(p, Fill_buffer, BufSize)
        BY <2>1, <2>2 DEF WriteQueue, HandOver, TypeOK
      <3> QED
        BY <3>1, <3>2, <3>3, HandOverStage DEF WriteQueue
    <2>3. CASE pos < BufSize
      <3>1. p \notin SettingUp
        BY SetterClaimed DEF Claimed, WriteQueue, SettingUp
      <3>2. \A t \in Threads \ {p} : pc'[t] = pc[t]
        BY DEF WriteQueue, Goto, TypeOK
      <3>3. UNCHANGED <<dma_data, DMA_active_buffer, count, bufnumber,
                        txcookie, engine>>
        BY <2>3 DEF WriteQueue, TypeOK
      <3> QED
        BY <3>1, <3>2, <3>3, StageFrame DEF SettingUp
    <2> QED BY <2>2, <2>3 DEF WriteQueue
  <1>3. Control'
    BY SMTT(30) DEF TypeOK, WriteQueue, HandOver, Goto, waiters, Control, InMutex, OneTransfer, Free, Claimed, InFlight
  <1>4. FillerOwnsBuffer'
    BY DEF TypeOK, WriteQueue, Goto, FillerOwnsBuffer
  <1>5. FillPosition'
    <2>1. mutex = p /\ Fill_buffer # DMA_active_buffer
      BY DEF WriteQueue, FillerOwnsBuffer
    <2>2. CASE pos >= BufSize
      BY <2>2 DEF WriteQueue, HandOver, FillPosition
    <2>3. CASE pos < BufSize
      BY <2>1, <2>3 DEF WriteQueue, FillPosition, TypeOK
    <2> QED BY <2>2, <2>3 DEF WriteQueue
  <1>6. NoLostWakeup'
    <2>1. Fill_buffer # DMA_active_buffer
      BY DEF WriteQueue, FillerOwnsBuffer
    <2>2. \A t \in Threads : t # p => pc'[t] = pc[t]
      BY DEF WriteQueue, Goto, TypeOK
    <2>3. pc'[p] = "unlock" /\ triggered' = triggered
      BY DEF WriteQueue, Goto, TypeOK, waiters
    <2> QED
      BY <2>1, <2>2, <2>3 DEF NoLostWakeup
  <1> QED
    BY <1>1, <1>2, <1>3, <1>4, <1>5, <1>6

\* FlushLock preserves the invariant.
LEMMA FlushLockStep ==
  ASSUME IInv, NEW p \in Procs, FlushLock(p)
  PROVE  IInv'
  <1> USE SizeAssumption, ThreadAssumption DEF Threads, Bufs, Slots, IInv
  <1>1. TypeOK'
    BY DEF TypeOK, FlushLock, Goto, engine, waiters, stream, ProcLabels
  <1>2. OneTransfer'
    BY SetterClaimed, StageFrame DEF SettingUp, FlushLock, Goto, Claimed
  <1>3. Control'
    BY DEF TypeOK, FlushLock, Goto, waiters, Control, InMutex
  <1>4. FillerOwnsBuffer'
    BY DEF FlushLock, Goto, FillerOwnsBuffer
  <1>5. FillPosition'
    BY DEF FlushLock, FillPosition, FillerOwnsBuffer
  <1>6. NoLostWakeup'
    BY DEF FlushLock, Goto, waiters, NoLostWakeup
  <1> QED
    BY <1>1, <1>2, <1>3, <1>4, <1>5, <1>6

\* Flush preserves the invariant.
LEMMA FlushStep ==
  ASSUME IInv, NEW p \in Procs, Flush(p)
  PROVE  IInv'
  <1> USE SizeAssumption, ThreadAssumption DEF Threads, Bufs, Slots, IInv
  <1>1. TypeOK'
    <2>1. Goto(p, "unlock") /\ "unlock" \in ProcLabels
      BY DEF Flush, ProcLabels
    <2>2. bufnumber' \in [Threads -> Bufs]
      BY DEF Flush, TypeOK
    <2>3. CASE pos # 0 /\ Fill_buffer # DMA_active_buffer
      <3>1. pos \in 1 .. BufSize /\ HandOver(p, Fill_buffer, pos)
            /\ Fill_buffer \in Bufs
        BY <2>3 DEF Flush, TypeOK
      <3> QED
        BY <2>1, <2>2, <3>1, GotoType, HandOverType
        DEF Flush, TypeOK, engine, waiters, stream
    <2>4. CASE ~(pos # 0 /\ Fill_buffer # DMA_active_buffer)
      <3>1. count' \in [Threads -> Int]
        BY <2>4 DEF Flush, EAGAIN, EINVAL, TypeOK
      <3> QED
        BY <2>1, <2>2, <2>4, <3>1, GotoType
        DEF Flush, TypeOK, engine, waiters, stream
    <2> QED BY <2>3, <2>4
  <1>2. OneTransfer'
    <2>1. CASE pos # 0 /\ Fill_buffer # DMA_active_buffer
      <3>1. pos \in 1 .. BufSize /\ HandOver(p, Fill_buffer, pos)
        BY <2>1 DEF Flush, TypeOK
      <3> QED
        BY <3>1, HandOverStage DEF Flush
    <2>2. CASE ~(pos # 0 /\ Fill_buffer # DMA_active_buffer)
      <3>1. p \notin SettingUp
        BY SetterClaimed DEF Claimed, Flush, SettingUp
      <3>2. \A t \in Threads \ {p} :
               pc'[t] = pc[t] /\ bufnumber'[t] = bufnumber[t] /\ count'[t] = count[t]
        BY <2>2 DEF Flush, Goto, TypeOK
      <3> QED
        BY <2>2, <3>1, <3>2, StageFrame DEF Flush, SettingUp
    <2> QED BY <2>1, <2>2
  <1>3. Control'
    BY SMTT(30) DEF TypeOK, Flush, HandOver, NextBuf, Goto, engine, waiters, TaskletLabels, Control, InMutex
  <1>4. FillerOwnsBuffer'
    BY DEF Flush, Goto, Control, FillerOwnsBuffer, InMutex
  <1>5. FillPosition'
    BY DEF Flush, HandOver, FillPosition
  <1>6. NoLostWakeup'
    BY DEF Flush, Goto, waiters, NoLostWakeup
  <1> QED
    BY <1>1, <1>2, <1>3, <1>4, <1>5, <1>6

\* Unlock preserves the invariant.
LEMMA UnlockStep ==
  ASSUME IInv, NEW p \in Procs, Unlock(p)
  PROVE  IInv'
  <1> USE SizeAssumption, ThreadAssumption DEF Threads, Bufs, Slots, IInv
  <1>1. TypeOK'
    <2>1. CASE dma_data[p]
      <3>1. Goto(p, "pad") /\ "pad" \in ProcLabels
        BY <2>1 DEF Unlock, ProcLabels
      <3> QED
        BY <2>1, <3>1, GotoType DEF Unlock, TypeOK, engine, waiters, stream
    <2>2. CASE ~dma_data[p]
      <3>1. Goto(p, "idle") /\ Forget(p) /\ "idle" \in ProcLabels
        BY <2>2 DEF Unlock, ProcLabels
      <3> QED
        BY <2>2, <3>1, GotoType, ForgetType
        DEF Unlock, TypeOK, engine, waiters, stream
    <2> QED BY <2>1, <2>2
  <1>2. OneTransfer'
    <2>1. CASE dma_data[p]
      <3>1. Claimed(p)
        BY <2>1, SetterClaimed
      <3>2. SettingUp' = SettingUp
        BY <2>1 DEF Unlock, SettingUp
      <3>3. pc'[p] = "pad" /\ pc'[Tasklet] = pc[Tasklet]
        BY <2>1 DEF Unlock, Goto, TypeOK
      <3>4. Claimed(p)'
        BY <2>1, <3>1, <3>2, <3>3 DEF Claimed, Unlock, engine
      <3> QED BY <3>4 DEF OneTransfer
    <2>2. CASE ~dma_data[p]
      <3>1. Goto(p, "idle") /\ Forget(p)
        BY <2>2 DEF Unlock
      <3>2. SettingUp' = SettingUp /\ p \notin SettingUp
        BY <2>2, <3>1, ForgetType DEF SettingUp
      <3>3. \A t \in Threads \ {p} :
               pc'[t] = pc[t] /\ bufnumber'[t] = bufnumber[t] /\ count'[t] = count[t]
        BY <3>1 DEF Forget, Goto, TypeOK
      <3>4. p # Tasklet
        OBVIOUS
      <3> QED
        BY <3>2, <3>3, <3>4, StageFrame DEF Unlock, SettingUp
    <2> QED BY <2>1, <2>2
  <1>3. Control'
    <2>1. InMutex(p) /\ \A q \in Procs \ {p} : ~InMutex(q)
      BY DEF Unlock, Control, InMutex
    <2>2. \A q \in Procs \ {p} : pc'[q] = pc[q] /\ count'[q] = count[q]
      BY DEF Unlock, Forget, Goto, TypeOK
    <2>3. pc'[p] \in {"pad", "idle"}
      BY DEF Unlock, Goto, TypeOK
    <2>4. \A q \in Procs : InMutex(q)' <=> mutex' = q
      BY <2>1, <2>2, <2>3 DEF Unlock, InMutex
    <2>5. \A t \in Threads : pc'[t] \in {"pad", "submit", "issue"} => dma_data'[t]
      BY DEF Unlock, Forget, Goto, Control, TypeOK
    <2> QED
      BY <2>2, <2>3, <2>4, <2>5 DEF Unlock, Control, waiters
  <1>4. FillerOwnsBuffer'
    BY DEF TypeOK, Unlock, Goto, Control, FillerOwnsBuffer, InMutex
  <1>5. FillPosition'
    BY DEF Unlock, Control, FillPosition, InMutex
  <1>6. NoLostWakeup'
    BY DEF TypeOK, Unlock, Goto, waiters, NoLostWakeup
  <1> QED
    BY <1>1, <1>2, <1>3, <1>4, <1>5, <1>6

\* Pad preserves the invariant.
LEMMA PadStep ==
  ASSUME IInv, NEW t \in Threads, Pad(t)
  PROVE  IInv'
  <1> USE SizeAssumption, ThreadAssumption DEF Threads, Bufs, Slots, IInv
  <1>1. TypeOK'
    <2>1. t = Tasklet => "submit" \in TaskletLabels
      BY DEF TaskletLabels
    <2>2. t \in Procs => "submit" \in ProcLabels
      BY DEF ProcLabels
    <2>3. buffers' \in [Bufs -> [Slots -> Int]]
      BY DEF Pad, TypeOK
    <2> QED
      BY <2>1, <2>2, <2>3, GotoType DEF Pad, TypeOK, engine, waiters, stream
  <1>2. OneTransfer'
    <2>1. dma_data[t]
      BY DEF Pad, Control
    <2>2. Claimed(t)
      BY <2>1, SetterClaimed
    <2>3. pc'[t] = "submit" /\ (t # Tasklet => pc'[Tasklet] = pc[Tasklet])
      BY DEF Pad, Goto, TypeOK
    <2>4. SettingUp' = SettingUp
      BY DEF Pad, SettingUp
    <2>5. pc[t] = "pad"
      BY DEF Pad
    <2>6. Claimed(t)'
      BY <2>2, <2>3, <2>4, <2>5 DEF Claimed, Pad, engine
    <2> QED BY <2>6 DEF OneTransfer
  <1>3. Control'
    BY DEF Pad, Goto, waiters, Control, InMutex
  <1>4. FillerOwnsBuffer'
    BY DEF Pad, Goto, FillerOwnsBuffer
  <1>5. FillPosition'
    BY DEF Pad, Goto, FillPosition
  <1>6. NoLostWakeup'
    BY DEF Pad, Goto, waiters, NoLostWakeup
  <1> QED
    BY <1>1, <1>2, <1>3, <1>4, <1>5, <1>6

\* Submit preserves the invariant.
LEMMA SubmitStep ==
  ASSUME IInv, NEW t \in Threads, Submit(t)
  PROVE  IInv'
  <1> USE SizeAssumption, ThreadAssumption DEF Threads, Bufs, Slots, IInv
  <1>1. TypeOK'
    <2>1. Claimed(t)
      BY SetterClaimed DEF Submit, Control
    <2>2. AlignedCount(count[t]) \in 1 .. BufSize
      BY <2>1, AlignedCountRange DEF Claimed
    <2>3. submitted' \subseteq Descriptors
      BY <2>1, <2>2 DEF Submit, TypeOK, Descriptors, Claimed
    <2> QED
      BY <2>3 DEF Submit, TypeOK, Goto, waiters, stream, ProcLabels, TaskletLabels
  <1>2. OneTransfer'
    <2>1. Claimed(t) /\ pc[t] = "submit"
      BY SetterClaimed DEF Submit, Control
    <2>2. pc'[t] = "issue" /\ (t # Tasklet => pc'[Tasklet] = pc[Tasklet])
      BY DEF Submit, Goto, TypeOK
    <2>3. SettingUp' = SettingUp
      BY DEF Submit, SettingUp
    <2>4. submitted' = {[cookie |-> txcookie', buf |-> bufnumber[t],
                         len |-> AlignedCount(count[t]), bytes |-> count[t]]}
      BY <2>1 DEF Submit, Claimed
    <2>5. completed' = txcookie' - 1
      BY <2>1 DEF Submit, Claimed, TypeOK
    <2>6. Claimed(t)'
      BY <2>1, <2>2, <2>3, <2>4, <2>5 DEF Claimed, Submit
    <2> QED BY <2>6 DEF OneTransfer
  <1>3. Control'
    BY DEF Submit, Goto, waiters, Control, InMutex
  <1>4. FillerOwnsBuffer'
    BY DEF Submit, Goto, FillerOwnsBuffer
  <1>5. FillPosition'
    BY DEF Submit, Goto, FillPosition
  <1>6. NoLostWakeup'
    BY DEF Submit, Goto, waiters, NoLostWakeup
  <1> QED
    BY <1>1, <1>2, <1>3, <1>4, <1>5, <1>6

\* Issue preserves the invariant.
LEMMA IssueStep ==
  ASSUME IInv, NEW t \in Threads, Issue(t)
  PROVE  IInv'
  <1> USE SizeAssumption, ThreadAssumption DEF Threads, Bufs, Slots, IInv
  <1>1. TypeOK'
    <2>1. \E l : Goto(t, l) /\ (t = Tasklet => l \in TaskletLabels)
                          /\ (t \in Procs => l \in ProcLabels)
      BY DEF Issue, ProcLabels, TaskletLabels
    <2> QED
      BY <2>1, GotoType, ForgetType DEF Issue, TypeOK, shared, waiters, stream
  <1>2. OneTransfer'
    <2>1. Claimed(t) /\ pc[t] = "issue"
      BY SetterClaimed DEF Issue, Control
    <2>2. PICK d : d = [cookie |-> txcookie, buf |-> bufnumber[t],
                        len |-> AlignedCount(count[t]), bytes |-> count[t]]
      OBVIOUS
    <2>3. issued' = {d} /\ submitted' = {} /\ SettingUp' = {}
      BY <2>1, <2>2, ForgetType DEF Issue, Claimed
    <2>4. pc'[Tasklet] # "claim"
      BY <2>1 DEF Issue, Goto, TypeOK, Claimed
    <2>5. InFlight(d)'
      BY <2>1, <2>2, <2>3, <2>4 DEF InFlight, Issue, Claimed, shared
    <2> QED BY <2>3, <2>5 DEF OneTransfer
  <1>3. Control'
    BY DEF TypeOK, Issue, Forget, Goto, shared, waiters, Control, InMutex
  <1>4. FillerOwnsBuffer'
    BY DEF Issue, Forget, Goto, shared, FillerOwnsBuffer
  <1>5. FillPosition'
    BY DEF Issue, Goto, shared, FillPosition
  <1>6. NoLostWakeup'
    BY DEF Issue, Goto, shared, waiters, NoLostWakeup
  <1> QED
    BY <1>1, <1>2, <1>3, <1>4, <1>5, <1>6

\* CallbackStatus preserves the invariant.
LEMMA CallbackStatusStep ==
  ASSUME IInv, CallbackStatus
  PROVE  IInv'
  <1> USE SizeAssumption, ThreadAssumption DEF Threads, Bufs, Slots, IInv
  <1>1. TypeOK'
    BY DEF TypeOK, CallbackStatus, Goto, shared, waiters, stream, TaskletLabels
  <1>2. OneTransfer'
    <2>0. PICK c \in callbacks : callbacks' = callbacks \ {c}
      BY DEF CallbackStatus
    <2>1. SettingUp' = SettingUp /\ pc[Tasklet] = "idle"
      BY DEF CallbackStatus, SettingUp
    <2>2. CASE txcookie <= completed
      <3>1. Completing
        BY <2>0, <2>2 DEF OneTransfer, Free, Claimed, InFlight, TypeOK
      <3>2. pc'[Tasklet] = "claim"
        BY <2>2 DEF CallbackStatus, Goto, TypeOK
      <3>3. Completing'
        BY <2>0, <2>1, <3>1, <3>2 DEF CallbackStatus, Completing, shared
      <3> QED BY <3>3 DEF OneTransfer
    <2>3. CASE ~(txcookie <= completed)
      <3>1. PICK d \in issued : InFlight(d)
        BY <2>0, <2>3 DEF OneTransfer, Free, Claimed, Completing, TypeOK
      <3>2. pc'[Tasklet] = "idle"
        BY <2>3 DEF CallbackStatus, Goto, TypeOK
      <3>3. InFlight(d)'
        BY <2>0, <2>1, <3>1, <3>2 DEF CallbackStatus, InFlight, shared
      <3> QED BY <3>1, <3>3 DEF OneTransfer, CallbackStatus
    <2> QED BY <2>2, <2>3
  <1>3. Control'
    BY DEF CallbackStatus, Goto, shared, waiters, Control, InMutex
  <1>4. FillerOwnsBuffer'
    BY DEF CallbackStatus, Goto, shared, FillerOwnsBuffer
  <1>5. FillPosition'
    BY DEF CallbackStatus, Goto, shared, FillPosition
  <1>6. NoLostWakeup'
    BY DEF CallbackStatus, Goto, shared, waiters, NoLostWakeup
  <1> QED
    BY <1>1, <1>2, <1>3, <1>4, <1>5, <1>6

\* CallbackClaim preserves the invariant.
LEMMA CallbackClaimStep ==
  ASSUME IInv, CallbackClaim
  PROVE  IInv'
  <1> USE SizeAssumption, ThreadAssumption DEF Threads, Bufs, Slots, IInv
  <1>1. TypeOK'
    <2>1. \E l \in TaskletLabels : Goto(Tasklet, l)
      BY DEF CallbackClaim, TaskletLabels
    <2>2. /\ DMA_active_buffer' \in Bufs \cup {-1}
          /\ bufnumber' \in [Threads -> Bufs]
          /\ count' \in [Threads -> Int]
      BY DEF CallbackClaim, NextBuf, TypeOK
    <2>3. dma_data' \in [Threads -> BOOLEAN]
      BY Zenon DEF CallbackClaim, TypeOK
    <2> QED
      BY <2>1, <2>2, <2>3, GotoType
      DEF CallbackClaim, TypeOK, engine, waiters, stream
  <1>2. OneTransfer'
    <2>1. Completing /\ pc[Tasklet] = "claim" /\ callbacks = {}
      BY DEF CallbackClaim, OneTransfer, Free, Claimed, InFlight, Completing
    <2>2. CASE Fill_buffer = DMA_active_buffer
      <3>1. SettingUp' = {Tasklet}
        BY <2>1, <2>2 DEF CallbackClaim, Completing, SettingUp, TypeOK
      <3>2. /\ pc'[Tasklet] = "pad"
            /\ DMA_active_buffer' = bufnumber'[Tasklet]
            /\ count'[Tasklet] \in 1 .. BufSize
        BY <2>2 DEF CallbackClaim, Goto, TypeOK, Control
      <3>3. Claimed(Tasklet)'
        BY <2>1, <3>1, <3>2 DEF CallbackClaim, Completing, Claimed, engine
      <3> QED BY <3>3 DEF OneTransfer
    <2>3. CASE Fill_buffer # DMA_active_buffer
      <3>1. SettingUp' = {} /\ pc'[Tasklet] = "wake"
        BY <2>1, <2>3 DEF CallbackClaim, Completing, SettingUp, Goto, TypeOK
      <3>2. Free'
        BY <2>1, <2>3, <3>1 DEF CallbackClaim, Completing, Free, engine
      <3> QED BY <3>2 DEF OneTransfer
    <2> QED BY <2>2, <2>3 DEF CallbackClaim
  <1>3. Control'
    <2>1. \A p \in Procs : pc'[p] = pc[p] /\ count'[p] = count[p]
      BY DEF CallbackClaim, Goto, TypeOK
    <2>2. \A t \in Threads : pc'[t] \in {"pad", "submit", "issue"} => dma_data'[t]
      BY DEF CallbackClaim, Goto, Control, TypeOK
    <2>3. Fill_buffer' # DMA_active_buffer'
      BY DEF CallbackClaim, NextBuf, TypeOK
    <2> QED
      BY <2>1, <2>2, <2>3 DEF CallbackClaim, Control, InMutex, waiters
  <1>4. FillerOwnsBuffer'
    BY DEF TypeOK, CallbackClaim, Goto, FillerOwnsBuffer
  <1>5. FillPosition'
    BY DEF TypeOK, CallbackClaim, Goto, FillPosition
  <1>6. NoLostWakeup'
    BY DEF TypeOK, CallbackClaim, Goto, NoLostWakeup
  <1> QED
    BY <1>1, <1>2, <1>3, <1>4, <1>5, <1>6

\* CallbackWake preserves the invariant.
LEMMA CallbackWakeStep ==
  ASSUME IInv, CallbackWake
  PROVE  IInv'
  <1> USE SizeAssumption, ThreadAssumption DEF Threads, Bufs, Slots, IInv
  <1>1. TypeOK'
    BY DEF TypeOK, CallbackWake, Goto, shared, engine, stream, TaskletLabels
  <1>2. OneTransfer'
    BY SetterClaimed, StageFrame DEF SettingUp, CallbackWake, Goto, shared, Claimed
  <1>3. Control'
    BY DEF CallbackWake, Goto, shared, Control, InMutex
  <1>4. FillerOwnsBuffer'
    BY DEF CallbackWake, Goto, shared, FillerOwnsBuffer
  <1>5. FillPosition'
    BY DEF CallbackWake, Goto, shared, FillPosition
  <1>6. NoLostWakeup'
    BY DEF CallbackWake, Goto, Control, NoLostWakeup
  <1> QED
    BY <1>1, <1>2, <1>3, <1>4, <1>5, <1>6

\* PollWait preserves the invariant.
LEMMA PollWaitStep ==
  ASSUME IInv, NEW p \in Procs, PollWait(p)
  PROVE  IInv'
  <1> USE SizeAssumption, ThreadAssumption DEF Threads, Bufs, Slots, IInv
  <1>1. TypeOK'
    BY DEF TypeOK, PollWait, Goto, shared, engine, stream, ProcLabels
  <1>2. OneTransfer'
    BY SetterClaimed, StageFrame DEF SettingUp, PollWait, Goto, shared, Claimed
  <1>3. Control'
    BY DEF PollWait, Goto, shared, Control, InMutex
  <1>4. FillerOwnsBuffer'
    BY DEF PollWait, Goto, shared, FillerOwnsBuffer
  <1>5. FillPosition'
    BY DEF PollWait, Goto, shared, FillPosition
  <1>6. NoLostWakeup'
    BY DEF PollWait, Goto, shared, NoLostWakeup
  <1> QED
    BY <1>1, <1>2, <1>3, <1>4, <1>5, <1>6

\* PollCheck preserves the invariant.
LEMMA PollCheckStep ==
  ASSUME IInv, NEW p \in Procs, PollCheck(p)
  PROVE  IInv'
  <1> USE SizeAssumption, ThreadAssumption DEF Threads, Bufs, Slots, IInv
  <1>1. TypeOK'
    BY DEF TypeOK, PollCheck, PollReturn, Goto, shared, engine, waiters, stream, ProcLabels
  <1>2. OneTransfer'
    BY SetterClaimed, StageFrame DEF SettingUp, TypeOK, PollCheck, PollReturn, Goto, shared, Claimed
  <1>3. Control'
    <2>1. CASE Fill_buffer # DMA_active_buffer
      BY <2>1 DEF PollCheck, PollReturn, Control, InMutex, TypeOK, Goto, shared
    <2>2. CASE Fill_buffer = DMA_active_buffer
      BY <2>2 DEF PollCheck, Control, InMutex, TypeOK, Goto, shared, waiters
    <2> QED BY <2>1, <2>2
  <1>4. FillerOwnsBuffer'
    BY DEF TypeOK, PollCheck, PollReturn, Goto, shared, FillerOwnsBuffer
  <1>5. FillPosition'
    BY DEF TypeOK, PollCheck, PollReturn, Goto, shared, FillPosition
  <1>6. NoLostWakeup'
    BY DEF TypeOK, PollCheck, PollReturn, Goto, shared, NoLostWakeup
  <1> QED
    BY <1>1, <1>2, <1>3, <1>4, <1>5, <1>6

\* PollAgain preserves the invariant.
LEMMA PollAgainStep ==
  ASSUME IInv, NEW p \in Procs, PollAgain(p)
  PROVE  IInv'
  <1> USE SizeAssumption, ThreadAssumption DEF Threads, Bufs, Slots, IInv
  <1>1. TypeOK'
    BY DEF TypeOK, PollAgain, Goto, shared, engine, stream, ProcLabels
  <1>2. OneTransfer'
    BY SetterClaimed, StageFrame DEF SettingUp, PollAgain, Goto, shared, Claimed
  <1>3. Control'
    BY DEF PollAgain, Goto, shared, Control, InMutex
  <1>4. FillerOwnsBuffer'
    BY DEF PollAgain, Goto, shared, FillerOwnsBuffer
  <1>5. FillPosition'
    BY DEF PollAgain, Goto, shared, FillPosition
  <1>6. NoLostWakeup'
    BY DEF TypeOK, PollAgain, Goto, shared, NoLostWakeup
  <1> QED
    BY <1>1, <1>2, <1>3, <1>4, <1>5, <1>6

\* PollTimeout preserves the invariant.
LEMMA PollTimeoutStep ==
  ASSUME IInv, NEW p \in Procs, PollTimeout(p)
  PROVE  IInv'
  <1> USE SizeAssumption, ThreadAssumption DEF Threads, Bufs, Slots, IInv
  <1>1. TypeOK'
    BY DEF TypeOK, PollTimeout, PollReturn, Goto, shared, engine, stream, ProcLabels
  <1>2. OneTransfer'
    BY SetterClaimed, StageFrame DEF SettingUp, PollTimeout, PollReturn, Goto, shared, Claimed
  <1>3. Control'
    BY DEF TypeOK, PollTimeout, PollReturn, Goto, shared, Control, InMutex
  <1>4. FillerOwnsBuffer'
    BY DEF PollTimeout, PollReturn, Goto, shared, FillerOwnsBuffer
  <1>5. FillPosition'
    BY DEF PollTimeout, PollReturn, Goto, shared, FillPosition
  <1>6. NoLostWakeup'
    BY DEF TypeOK, PollTimeout, PollReturn, Goto, shared, NoLostWakeup
  <1> QED
    BY <1>1, <1>2, <1>3, <1>4, <1>5, <1>6

\* HwTransfer preserves the invariant.
LEMMA HwTransferStep ==
  ASSUME IInv, HwTransfer
  PROVE  IInv'
  <1> USE SizeAssumption, ThreadAssumption DEF Threads, Bufs, Slots, IInv
  <1>1. TypeOK'
    <2>1. PICK d \in issued :
            /\ issued' = issued \ {d}
            /\ completed' = d.cookie
            /\ callbacks' = callbacks \cup {d.cookie}
            /\ sent' = sent + d.bytes
      BY DEF HwTransfer
    <2>2. d.cookie \in Nat /\ d.bytes \in Nat
      BY DEF TypeOK, Descriptors
    <2>3. issued' \subseteq Descriptors /\ callbacks' \subseteq Nat
      BY <2>1, <2>2 DEF TypeOK
    <2>4. completed' \in Nat /\ sent' \in Nat
      <3>1. sent \in Nat
        BY DEF TypeOK
      <3> QED BY <2>1, <2>2, <3>1
    <2> QED
      BY <2>3, <2>4 DEF HwTransfer, TypeOK, shared, locals, waiters
  <1>2. OneTransfer'
    <2>1. PICK d \in issued :
            /\ issued' = issued \ {d}
            /\ completed' = d.cookie
            /\ callbacks' = callbacks \cup {d.cookie}
      BY DEF HwTransfer
    <2>2. InFlight(d)
      BY <2>1 DEF OneTransfer, Free, Claimed, InFlight, Completing
    <2>3. callbacks = {} /\ DMA_active_buffer # -1
      <3>1. d \in Descriptors
        BY DEF TypeOK
      <3>2. d.buf \in Bufs
        BY <3>1 DEF Descriptors
      <3>3. d.buf # -1
        BY <3>2
      <3> QED BY <2>2, <3>3 DEF InFlight, HwTransfer
    <2>4. SettingUp' = SettingUp
      BY DEF HwTransfer, SettingUp, locals
    <2>5. Completing'
      BY <2>1, <2>2, <2>3, <2>4
      DEF HwTransfer, InFlight, Completing, shared, locals
    <2> QED BY <2>5 DEF OneTransfer
  <1>3. Control'
    BY DEF HwTransfer, shared, locals, waiters, Control, InMutex
  <1>4. FillerOwnsBuffer'
    BY DEF HwTransfer, shared, locals, FillerOwnsBuffer
  <1>5. FillPosition'
    BY DEF HwTransfer, shared, locals, FillPosition
  <1>6. NoLostWakeup'
    BY DEF HwTransfer, shared, locals, waiters, NoLostWakeup
  <1> QED
    BY <1>1, <1>2, <1>3, <1>4, <1>5, <1>6

\* HwFail preserves the invariant.
LEMMA HwFailStep ==
  ASSUME IInv, HwFail
  PROVE  IInv'
  <1> USE SizeAssumption, ThreadAssumption DEF Threads, Bufs, Slots, IInv
  <1>1. TypeOK'
    BY DEF TypeOK, HwFail, shared, locals, waiters, stream, Descriptors
  <1>2. OneTransfer'
    <2>1. PICK d \in issued : callbacks' = callbacks \cup {d.cookie}
      BY DEF HwFail
    <2>2. InFlight(d)
      BY <2>1 DEF OneTransfer, Free, Claimed, InFlight, Completing
    <2>3. SettingUp' = SettingUp
      BY DEF HwFail, SettingUp, locals
    <2>4. InFlight(d)'
      BY <2>1, <2>2, <2>3 DEF HwFail, InFlight, shared, locals
    <2> QED BY <2>4 DEF OneTransfer, HwFail
  <1>3. Control'
    BY DEF HwFail, shared, locals, waiters, Control, InMutex
  <1>4. FillerOwnsBuffer'
    BY DEF HwFail, shared, locals, FillerOwnsBuffer
  <1>5. FillPosition'
    BY DEF HwFail, shared, locals, FillPosition
  <1>6. NoLostWakeup'
    BY DEF HwFail, shared, locals, waiters, NoLostWakeup
  <1> QED
    BY <1>1, <1>2, <1>3, <1>4, <1>5, <1>6


\* The initial state satisfies the invariant.
LEMMA InitStep == Init => IInv
  <1> SUFFICES ASSUME Init PROVE IInv
    OBVIOUS
  <1> USE SizeAssumption, ThreadAssumption DEF Init, Threads, Bufs, Slots
  <1>1. TypeOK
    <2>1. buffers \in [Bufs -> [Slots -> Int]]
      OBVIOUS
    <2>2. /\ pc \in [Threads -> ProcLabels \cup TaskletLabels]
          /\ \A p \in Procs : pc[p] \in ProcLabels
          /\ pc[Tasklet] \in TaskletLabels
      BY DEF ProcLabels, TaskletLabels
    <2>3. /\ bufnumber \in [Threads -> Bufs]
          /\ count \in [Threads -> Int]
          /\ dma_data \in [Threads -> BOOLEAN]
      OBVIOUS
    <2>4. /\ pos \in 0 .. BufSize /\ next_buff_count \in 0 .. BufSize
          /\ DMA_active_buffer \in Bufs \cup {-1} /\ Fill_buffer \in Bufs
          /\ txcookie \in Nat /\ completed \in Nat
          /\ accepted \in Nat /\ sent \in Nat
      OBVIOUS
    <2>5. /\ submitted \subseteq Descriptors /\ issued \subseteq Descriptors
          /\ callbacks \subseteq Nat /\ wait_queue \subseteq Procs
          /\ triggered \subseteq wait_queue /\ mutex \in Procs \cup {None}
          /\ halted \in BOOLEAN
      OBVIOUS
    <2> QED
      BY <2>1, <2>2, <2>3, <2>4, <2>5 DEF TypeOK
  <1>2. OneTransfer
    BY DEF OneTransfer, Free, SettingUp
  <1>3. Control
    BY DEF Control, InMutex
  <1>4. FillerOwnsBuffer /\ FillPosition /\ NoLostWakeup
    BY DEF FillerOwnsBuffer, FillPosition, NoLostWakeup
  <1> QED
    BY <1>1, <1>2, <1>3, <1>4 DEF IInv

\* Every step, of whichever thread, tasklet or engine, preserves the invariant.
LEMMA NextStep == IInv /\ [Next]_vars => IInv'
  <1> SUFFICES ASSUME IInv, [Next]_vars PROVE IInv'
    OBVIOUS
  <1>1. CASE UNCHANGED vars
    <2> USE <1>1 DEF vars, shared, locals, engine, waiters, stream
    <2>1. TypeOK'
      BY DEF IInv, TypeOK
    <2>2. OneTransfer'
      BY DEF IInv, OneTransfer, Free, Claimed, InFlight, Completing, SettingUp
    <2>3. Control'
      BY DEF IInv, Control, InMutex
    <2>4. FillerOwnsBuffer' /\ FillPosition' /\ NoLostWakeup'
      BY DEF IInv, FillerOwnsBuffer, FillPosition, NoLostWakeup
    <2> QED BY <2>1, <2>2, <2>3, <2>4 DEF IInv
  <1>2. ASSUME NEW p \in Procs, Call(p) PROVE IInv'
    BY <1>2, WriteLockStep, FlushLockStep, PollWaitStep DEF Call
  <1>3. ASSUME NEW t \in Threads, SetupStep(t) PROVE IInv'
    BY <1>3, PadStep, SubmitStep, IssueStep DEF SetupStep
  <1>4. ASSUME NEW p \in Procs, ProcStep(p) PROVE IInv'
    BY <1>3, <1>4, WriteCheckStep, WriteCopyStep, WriteQueueStep, FlushStep,
       UnlockStep, PollCheckStep, PollAgainStep DEF ProcStep, Threads
  <1>5. ASSUME NEW p \in Procs, PollTimeout(p) PROVE IInv'
    BY <1>5, PollTimeoutStep
  <1>6. CASE TaskletStep
    BY <1>3, <1>6, CallbackStatusStep, CallbackClaimStep, CallbackWakeStep
    DEF TaskletStep, Threads
  <1>7. CASE HwTransfer
    BY <1>7, HwTransferStep
  <1>8. CASE HwFail
    BY <1>8, HwFailStep
  <1> QED
    BY <1>1, <1>2, <1>4, <1>5, <1>6, <1>7, <1>8 DEF Next

-----------------------------------------------------------------------------
\* The inductive invariant holds in every reachable state.
THEOREM Invariance == Spec => []IInv
  BY InitStep, NextStep, PTL DEF Spec

\* Every variable keeps its type, and no transfer is longer than a buffer.
THEOREM TypeCorrect == Spec => []TypeOK
  <1>1. IInv => TypeOK
    BY DEF IInv
  <1> QED
    BY <1>1, Invariance, PTL

\* However writers, flushes and the callback interleave, there is one transfer
\* at most and it is for the buffer DMA_active_buffer (dma_write,
\* write_dma_store, tx_transfer_complete).
THEOREM TransferIsUnique == Spec => []OneTransfer
  <1>1. IInv => OneTransfer
    BY DEF IInv
  <1> QED
    BY <1>1, Invariance, PTL

\* The unlocked copy of dma_write goes to a buffer the engine does not have.
THEOREM FillerIsOwner == Spec => []FillerOwnsBuffer
  <1>1. IInv => FillerOwnsBuffer
    BY DEF IInv
  <1> QED
    BY <1>1, Invariance, PTL

\* There is room whenever the mutex is free, and a busy buffer is empty: the
\* -EAGAIN of write_dma_store is never returned.
THEOREM PositionInRange == Spec => []FillPosition
  <1>1. IInv => FillPosition
    BY DEF IInv
  <1> QED
    BY <1>1, Invariance, PTL

\* dma_poll loses no wake-up of tx_transfer_complete.
THEOREM WakeupsArrive == Spec => []NoLostWakeup
  <1>1. IInv => NoLostWakeup
    BY DEF IInv
  <1> QED
    BY <1>1, Invariance, PTL

\* Memory handed to the engine does not change while it has it.
THEOREM TransferIsStable == Spec => BufferStable
  <1> DEFINE Keeps == \A d \in issued \cup submitted : buffers'[d.buf] = buffers[d.buf]
  <1>1. IInv /\ [Next]_vars => [Keeps]_vars
    <2> SUFFICES ASSUME IInv, Next PROVE Keeps
      OBVIOUS
    <2> USE DEF IInv
    <2>1. ASSUME NEW d \in issued \cup submitted
          PROVE  d.buf = DMA_active_buffer
      BY DEF OneTransfer, Free, Claimed, InFlight, Completing
    <2>2. ASSUME NEW p \in Procs, WriteCopy(p) PROVE Keeps
      <3>1. bufnumber[p] # DMA_active_buffer
        BY <2>2 DEF WriteCopy, FillerOwnsBuffer
      <3>2. \A b \in Bufs \ {bufnumber[p]} : buffers'[b] = buffers[b]
        BY <2>2 DEF WriteCopy, CopyDone, CopyFault, CopyNothing, Store, TypeOK
      <3> QED
        BY <2>1, <3>1, <3>2 DEF TypeOK, Descriptors
    <2>3. ASSUME NEW t \in Threads, Pad(t) PROVE Keeps
      <3>1. Claimed(t)
        BY <2>3, SetterClaimed DEF Pad, Control
      <3> QED
        BY <2>3, <3>1 DEF Pad, Claimed
    <2>4. CASE UNCHANGED buffers
      BY <2>4
    <2> QED
      BY <2>2, <2>3, <2>4
      DEF Next, Call, ProcStep, SetupStep, TaskletStep, Threads, WriteLock,
          WriteCheck, WriteQueue, FlushLock, Flush, Unlock, Submit, Issue,
          CallbackStatus, CallbackClaim, CallbackWake, PollWait, PollCheck,
          PollAgain, PollTimeout, HwTransfer, HwFail, shared
  <1> QED
    BY <1>1, Invariance, PTL DEF Spec, BufferStable

-----------------------------------------------------------------------------
(* The implementation of BurstStream *)

\* The size of the burst claimed and not yet sent, as a set of one or none.
Firsts == {count[t] : t \in SettingUp} \cup {d.bytes : d \in issued}

\* The element of such a set as a sequence and, 0 for none, as a number.
AsSeq(S) == IF S = {} THEN << >> ELSE <<CHOOSE n \in S : TRUE>>
AsNum(S) == IF S = {} THEN 0 ELSE CHOOSE n \in S : TRUE

\* The size of the burst that waits for the callback.
Waiting == IF Fill_buffer = DMA_active_buffer THEN next_buff_count ELSE 0

\* The claimed burst has been padded.
Padded == issued # {} \/ \E t \in Threads : pc[t] \in {"submit", "issue"}

\* Every byte accepted is sent, claimed, waiting or in the buffer being filled.
Accounted == accepted = sent + AsNum(Firsts) + Waiting + pos

\* The claimed burst is the bytes that come next, then zeros.
ActiveData ==
  \A n \in Firsts : \A j \in Slots :
    /\ j < n => buffers[DMA_active_buffer][j] = sent + j + 1
    /\ Padded /\ n <= j /\ j < AlignedCount(n) => buffers[DMA_active_buffer][j] = 0

\* After it comes the waiting one, in the other buffer.
WaitingData ==
  Fill_buffer = DMA_active_buffer =>
    \A j \in Slots : j < next_buff_count =>
      buffers[NextBuf(DMA_active_buffer)][j] = sent + AsNum(Firsts) + j + 1

\* The last bytes accepted are in the buffer being filled.
FillingData ==
  \A j \in Slots : j < pos => buffers[Fill_buffer][j] = accepted - pos + j + 1

Data == Accounted /\ ActiveData /\ WaitingData /\ FillingData

-----------------------------------------------------------------------------
(* Operators *)

\* Sets of at most one element, as AsSeq and AsNum turn them into data.
LEMMA OneOrNone ==
  /\ AsSeq({}) = << >> /\ AsNum({}) = 0
  /\ \A n : AsSeq({n}) = <<n>> /\ AsNum({n}) = n
  BY DEF AsSeq, AsNum

\* The queues there can be.
LEMMA ShortSequences ==
  ASSUME NEW a \in Nat, NEW b \in Nat
  PROVE  /\ << >> \o << >> = << >> /\ << >> \o <<b>> = <<b>>
         /\ <<a>> \o << >> = <<a>> /\ <<a>> \o <<b>> = <<a, b>>
         /\ Append(<< >>, a) = <<a>> /\ Append(<<a>>, b) = <<a, b>>
         /\ Head(<<a>>) = a /\ Head(<<a, b>>) = a
         /\ Tail(<<a>>) = << >> /\ Tail(<<a, b>>) = <<b>>
         /\ Len(<< >>) = 0 /\ Len(<<a>>) = 1
         /\ <<a>> # << >> /\ <<a, b>> # << >>
  <1>1. /\ << >> \o << >> = << >> /\ << >> \o <<b>> = <<b>>
        /\ <<a>> \o << >> = <<a>> /\ << >> \o <<a>> = <<a>>
    OBVIOUS
  <1>2. <<a>> \o <<b>> = <<a, b>>
    <2>1. <<a>> \in Seq(Nat) /\ <<b>> \in Seq(Nat) /\ <<a, b>> \in Seq(Nat)
      OBVIOUS
    <2>2. Len(<<a>>) = 1 /\ Len(<<b>>) = 1 /\ Len(<<a, b>>) = 2
      OBVIOUS
    <2>3. /\ <<a>> \o <<b>> \in Seq(Nat) /\ Len(<<a>> \o <<b>>) = 2
          /\ \A j \in 1 .. 2 : (<<a>> \o <<b>>)[j] = IF j <= 1 THEN <<a>>[j] ELSE <<b>>[j - 1]
      BY <2>1, <2>2, ConcatProperties
    <2>4. \A j \in 1 .. 2 : (<<a>> \o <<b>>)[j] = <<a, b>>[j]
      BY <2>3
    <2> QED
      BY <2>1, <2>2, <2>3, <2>4, SeqEqual
  <1>3. Append(<< >>, a) = <<a>> /\ Append(<<a>>, b) = <<a, b>>
    <2>1. << >> \in Seq(Nat) /\ <<a>> \in Seq(Nat)
      OBVIOUS
    <2>2. Append(<< >>, a) = << >> \o <<a>> /\ Append(<<a>>, b) = <<a>> \o <<b>>
      BY <2>1, AppendIsConcat
    <2> QED
      BY <2>2, <1>1, <1>2
  <1>4. Head(<<a>>) = a /\ Head(<<a, b>>) = a
    OBVIOUS
  <1>5. Tail(<<a>>) = << >>
    OBVIOUS
  <1>6. Tail(<<a, b>>) = <<b>>
    OBVIOUS
  <1>7. Len(<< >>) = 0 /\ Len(<<a>>) = 1
    OBVIOUS
  <1>8. <<a>> # << >> /\ <<a, b>> # << >>
    OBVIOUS
  <1> QED
    BY <1>1, <1>2, <1>3, <1>4, <1>5, <1>6, <1>7, <1>8

\* What BurstStream calls the queue.
LEMMA QueueIs ==
  /\ HandedOver = AsSeq(Firsts)
       \o (IF Fill_buffer = DMA_active_buffer THEN <<next_buff_count>> ELSE << >>)
  /\ HandedOver' = AsSeq(Firsts')
       \o (IF Fill_buffer' = DMA_active_buffer' THEN <<next_buff_count'>> ELSE << >>)
  BY DEF HandedOver, AsSeq, Firsts

\* A quotient is known from its bounds.
LEMMA QuotientIs ==
  ASSUME NEW m \in Nat, NEW k \in Nat \ {0}, NEW q \in Nat,
         q * k <= m, m < q * k + k
  PROVE  m \div k = q
  <1> DEFINE a == m \div k
  <1>1. a \in Nat /\ a * k <= m /\ m < a * k + k
    BY DivBounds
  <1> HIDE DEF a
  <1>2. a * k \in Nat /\ q * k \in Nat
    BY <1>1, Z3
  <1>3. ~(a * k < q * k) /\ ~(q * k < a * k)
    BY <1>1, <1>2, MulMono
  <1>4. a * k = q * k
    BY <1>2, <1>3
  <1>5. a = q
    BY <1>1, <1>4, Z3
  <1> QED BY <1>5 DEF a

\* The driver's alignment is that of the stream: a buffer is whole units.
LEMMA AlignedIsPadded ==
  ASSUME NEW n \in 1 .. BufSize
  PROVE  Stream!Padded(n) = AlignedCount(n)
  <1> USE SizeAssumption
  <1> DEFINE q == n \div Align
             k == BufSize \div Align
             m == n + Align - 1
  <1>1. q \in Nat /\ q * Align <= n /\ n < q * Align + Align
    BY DivBounds
  <1>2. k \in Nat /\ BufSize = k * Align
    BY DivBounds, Z3
  <1>3. q * Align \in Nat
    BY <1>1, Z3
  <1>4. m \in Nat /\ m \div Align \in Nat
    BY DivBounds
  <1>5. (m \div Align) * Align <= m /\ m < (m \div Align) * Align + Align
    BY <1>4, DivBounds
  <1>6. n # q * Align => q * Align < BufSize
    <2>1. n # q * Align => q * Align < n
      BY <1>1, <1>3
    <2> QED BY <2>1, <1>3
  <1>7. AlignedCount(n) = IF n # q * Align THEN q * Align + Align ELSE q * Align
    BY <1>6, <1>3 DEF AlignedCount
  <1>8. CASE n = q * Align
    <2>1. m \div Align = q
      BY <1>8, <1>1, <1>4, QuotientIs
    <2> QED
      BY <2>1, <1>7, <1>8 DEF Stream!Padded
  <1>9. CASE n # q * Align
    <2>1. (q + 1) * Align = q * Align + Align
      BY <1>1, Z3
    <2>2. m \div Align = q + 1
      BY <2>1, <1>9, <1>1, <1>3, <1>4, QuotientIs
    <2> QED
      BY <2>1, <2>2, <1>7, <1>9 DEF Stream!Padded
  <1> QED
    BY <1>8, <1>9

\* The other buffer.
LEMMA NextBufOther ==
  ASSUME NEW b \in Bufs
  PROVE  NextBuf(b) \in Bufs /\ NextBuf(b) # b /\ NextBuf(NextBuf(b)) = b
  BY DEF NextBuf, Bufs

\* The claimed burst in each stage of a transfer.
LEMMA FirstsIs ==
  /\ Free \/ Completing => Firsts = {}
  /\ \A t \in Threads : Claimed(t) => Firsts = {count[t]}
  /\ \A d : InFlight(d) => Firsts = {d.bytes}
  BY DEF Free, Completing, Claimed, InFlight, Firsts

\* There is one at most, and it is not empty.
LEMMA FirstsType ==
  ASSUME IInv
  PROVE  Firsts = {} \/ \E n \in 1 .. BufSize : Firsts = {n}
  BY FirstsIs DEF IInv, TypeOK, OneTransfer, Claimed, Descriptors

\* A thread that has not claimed a transfer may change its count.
LEMMA FirstsFrame ==
  ASSUME UNCHANGED <<SettingUp, issued>>, \A t \in SettingUp : count'[t] = count[t]
  PROVE  Firsts' = Firsts
  BY DEF Firsts

-----------------------------------------------------------------------------
(* Steps that move no byte *)

\* A step of the stream, or none.
StreamStep == [Stream!Next]_(Stream!vars)

\* What a step of the driver that moves no byte leaves alone.
Quiet ==
  /\ UNCHANGED <<pos, accepted, sent, burst, buffers, next_buff_count, Fill_buffer,
                 DMA_active_buffer, Firsts>>
  /\ Padded' => Padded

\* Such a step is none of the stream's, and keeps the bytes where they are.
LEMMA QuietStep ==
  ASSUME Data, Quiet
  PROVE  Data' /\ StreamStep
  <1>1. HandedOver' = HandedOver
    BY QueueIs DEF Quiet
  <1>2. StreamStep
    BY <1>1 DEF StreamStep, Quiet, Stream!vars
  <1>3. Accounted'
    BY DEF Quiet, Data, Accounted, Waiting
  <1>4. ActiveData'
    BY DEF Quiet, Data, ActiveData
  <1>5. WaitingData' /\ FillingData'
    BY DEF Quiet, Data, WaitingData, FillingData
  <1> QED
    BY <1>2, <1>3, <1>4, <1>5 DEF Data

\* A step that leaves the claim, the engine's transfers and the count of the
\* thread that sets one up alone, and pads nothing, moves no byte.
LEMMA QuietFrame ==
  ASSUME UNCHANGED <<pos, accepted, sent, burst, buffers, next_buff_count,
                     Fill_buffer, DMA_active_buffer, SettingUp, issued>>,
         \A t \in SettingUp : count'[t] = count[t],
         \A t \in Threads : pc'[t] \in {"submit", "issue"} => pc[t] \in {"submit", "issue"}
  PROVE  Quiet
  BY FirstsFrame DEF Quiet, Padded

\* The calls of user space and the checks that refuse them move no byte.
LEMMA CallQuiet ==
  ASSUME IInv, NEW p \in Procs,
         \/ \E n \in 0 .. BufSize + 1 : WriteLock(p, n)
         \/ FlushLock(p) \/ WriteCheck(p) \/ PollWait(p) \/ PollCheck(p)
         \/ PollAgain(p) \/ PollTimeout(p)
         \/ WriteCopy(p) /\ CopyNothing(p)
  PROVE  Quiet
  <1> USE DEF IInv
  <1>1. p \notin SettingUp
    BY SetterClaimed
    DEF Claimed, SettingUp, Threads, WriteLock, FlushLock, WriteCheck, PollWait,
        PollCheck, PollAgain, PollTimeout, WriteCopy
  <1>2. /\ UNCHANGED <<pos, accepted, sent, burst, buffers, next_buff_count,
                       Fill_buffer, DMA_active_buffer, dma_data, issued>>
        /\ \A t \in Threads \ {p} : count'[t] = count[t]
    BY DEF TypeOK, WriteLock, FlushLock, WriteCheck, PollWait, PollCheck, PollAgain,
           PollTimeout, WriteCopy, CopyNothing, shared, engine, stream
  <1>3. /\ \A t \in Threads \ {p} : pc'[t] = pc[t]
        /\ pc'[p] \notin {"submit", "issue"}
    BY DEF TypeOK, WriteLock, FlushLock, WriteCheck, PollWait, PollCheck, PollAgain,
           PollTimeout, PollReturn, WriteCopy, CopyNothing, Goto, Threads
  <1> QED
    BY <1>1, <1>2, <1>3, QuietFrame DEF SettingUp

\* Nor does leaving the mutex, whoever has a transfer to set up.
LEMMA UnlockQuiet ==
  ASSUME IInv, NEW p \in Procs, Unlock(p)
  PROVE  Quiet
  <1> USE DEF IInv
  <1>1. SettingUp' = SettingUp /\ \A t \in SettingUp : count'[t] = count[t]
    <2>1. CASE dma_data[p]
      BY <2>1 DEF Unlock, SettingUp
    <2>2. CASE ~dma_data[p]
      <3>1. Forget(p)
        BY <2>2 DEF Unlock
      <3> QED
        BY <2>2, <3>1, ForgetType DEF Forget, SettingUp, Threads, TypeOK
    <2> QED BY <2>1, <2>2
  <1>2. \A t \in Threads : pc'[t] = pc[t] \/ pc'[t] \in {"pad", "idle"}
    BY DEF Unlock, Goto, TypeOK
  <1> QED
    BY <1>1, <1>2, QuietFrame DEF Unlock, engine, stream

\* Nor submitting the descriptor.
LEMMA SubmitQuiet ==
  ASSUME IInv, NEW t \in Threads, Submit(t)
  PROVE  Quiet
  <1>1. \A u \in Threads : pc'[u] \in {"submit", "issue"} => pc[u] \in {"submit", "issue"}
    BY DEF Submit, Goto, IInv, TypeOK
  <1> QED
    BY <1>1, QuietFrame DEF Submit, SettingUp, stream

\* Issuing it passes the claimed burst from the thread to the engine.
LEMMA IssueQuiet ==
  ASSUME IInv, NEW t \in Threads, Issue(t)
  PROVE  Quiet
  <1> USE DEF IInv
  <1>1. Claimed(t)
    BY SetterClaimed DEF Issue, Control
  <1>2. Firsts = {count[t]} /\ Padded
    BY <1>1, FirstsIs DEF Issue, Padded
  <1>3. issued' = submitted /\ submitted = {[cookie |-> txcookie, buf |-> bufnumber[t],
          len |-> AlignedCount(count[t]), bytes |-> count[t]]}
    BY <1>1 DEF Claimed, Issue
  <1>4. SettingUp' = {}
    <2>1. SettingUp' = SettingUp \ {t}
      BY ForgetType DEF Issue
    <2> QED BY <2>1, <1>1 DEF Claimed
  <1>5. Firsts' = {count[t]}
    BY <1>3, <1>4 DEF Firsts
  <1> QED
    BY <1>2, <1>5 DEF Quiet, Issue, shared, stream

\* Nor do a failure of the engine and the parts of the callback that claim nothing.
LEMMA EngineQuiet ==
  ASSUME IInv, HwFail \/ CallbackStatus \/ CallbackWake
  PROVE  Quiet
  <1>1. \A t \in Threads : pc'[t] = pc[t] \/ pc'[t] \in {"claim", "idle"}
    BY DEF HwFail, CallbackStatus, CallbackWake, Goto, locals, IInv, TypeOK
  <1>2. UNCHANGED <<shared, stream, count, dma_data, issued>>
    BY DEF HwFail, CallbackStatus, CallbackWake, locals, engine
  <1> QED
    BY <1>1, <1>2, QuietFrame DEF shared, stream, SettingUp

-----------------------------------------------------------------------------
(* Steps that move bytes *)

\* What the claim is worth: no burst without one, and no more than one.
LEMMA FirstsCases ==
  ASSUME IInv
  PROVE  /\ AsNum(Firsts) \in 0 .. BufSize
         /\ DMA_active_buffer = -1 => Firsts = {}
         /\ \/ Firsts = {} /\ AsSeq(Firsts) = << >> /\ AsNum(Firsts) = 0
            \/ \E n \in 1 .. BufSize :
                  Firsts = {n} /\ AsSeq(Firsts) = <<n>> /\ AsNum(Firsts) = n
  <1>1. DMA_active_buffer = -1 => Firsts = {}
    BY UnclaimedFree, FirstsIs DEF IInv
  <1>2. CASE Firsts = {}
    BY <1>1, <1>2, OneOrNone, SizeAssumption
  <1>3. ASSUME NEW n \in 1 .. BufSize, Firsts = {n}
        PROVE  AsSeq(Firsts) = <<n>> /\ AsNum(Firsts) = n
    BY <1>3, OneOrNone
  <1> QED
    BY <1>1, <1>2, <1>3, FirstsType

\* While the buffer being filled is not claimed there is room in the queue.
LEMMA QueueHasRoom ==
  ASSUME IInv, Fill_buffer # DMA_active_buffer
  PROVE  HandedOver = AsSeq(Firsts) /\ Len(HandedOver) < 2
  <1>1. HandedOver = AsSeq(Firsts) \o << >>
    BY QueueIs
  <1>2. CASE Firsts = {}
    BY <1>1, <1>2, FirstsCases
  <1>3. ASSUME NEW n \in 1 .. BufSize, Firsts = {n}
        PROVE  HandedOver = AsSeq(Firsts) /\ Len(HandedOver) < 2
    <2>1. AsSeq(Firsts) = <<n>>
      BY <1>3, OneOrNone
    <2>2. HandedOver = <<n>>
      BY <1>1, <2>1, ShortSequences
    <2> QED BY <2>1, <2>2, ShortSequences
  <1> QED
    BY <1>2, <1>3, FirstsType

-----------------------------------------------------------------------------
\* copy_from_user succeeds: the bytes continue those in the buffer.
LEMMA CopyDoneData ==
  ASSUME IInv, Data, NEW p \in Procs, WriteCopy(p), CopyDone(p)
  PROVE  Data' /\ StreamStep
  <1> DEFINE n == Room(p)
  <1> USE DEF IInv
  <1>1. n \in 1 .. BufSize - pos /\ n \in 1 .. BufSize
    <2>1. n \in 0 .. BufSize - pos /\ n > 0
      BY RoomRange DEF WriteCopy, CopyDone
    <2>2. pos \in 0 .. BufSize
      BY DEF TypeOK
    <2> QED BY <2>1, <2>2, SizeAssumption
  <1>2. pos' = pos + n /\ accepted' = accepted + n
    BY DEF CopyDone
  <1> HIDE DEF n
  <1>3. bufnumber[p] = Fill_buffer /\ Fill_buffer # DMA_active_buffer
    BY DEF WriteCopy, FillerOwnsBuffer
  <1>4. UNCHANGED <<Fill_buffer, DMA_active_buffer, next_buff_count, sent, burst,
                    issued, dma_data>>
    BY DEF WriteCopy, engine
  <1>5. Firsts' = Firsts /\ (Padded' => Padded)
    <2>1. p \notin SettingUp
      BY SetterClaimed DEF Claimed, SettingUp, Threads, WriteCopy
    <2>2. \A t \in SettingUp : count'[t] = count[t]
      BY <2>1 DEF CopyDone, TypeOK, SettingUp
    <2>3. \A t \in Threads : pc'[t] = pc[t] \/ pc'[t] = "queue"
      BY DEF CopyDone, Goto, TypeOK
    <2> QED
      BY <1>4, <2>2, <2>3, FirstsFrame DEF SettingUp, Padded
  <1>6. /\ \A b \in Bufs \ {Fill_buffer} : buffers'[b] = buffers[b]
        /\ \A j \in Slots :
             buffers'[Fill_buffer][j] = IF pos <= j /\ j < pos + n
                                        THEN accepted + 1 + j - pos
                                        ELSE buffers[Fill_buffer][j]
    BY <1>3 DEF CopyDone, Store, TypeOK, n
  <1>7. Accounted'
    BY <1>1, <1>2, <1>3, <1>4, <1>5, FirstsCases
    DEF Data, Accounted, Waiting, TypeOK
  <1>8. ActiveData'
    <2>1. CASE Firsts = {}
      BY <1>5, <2>1 DEF ActiveData
    <2>2. CASE Firsts # {}
      <3>1. DMA_active_buffer \in Bufs \ {Fill_buffer}
        BY <1>3, <2>2, FirstsCases DEF TypeOK
      <3> QED
        BY <1>4, <1>5, <1>6, <3>1 DEF Data, ActiveData
    <2> QED BY <2>1, <2>2
  <1>9. WaitingData'
    BY <1>3, <1>4 DEF WaitingData
  <1>10. FillingData'
    BY <1>1, <1>2, <1>4, <1>6 DEF Data, FillingData, TypeOK, Slots
  <1>11. StreamStep
    <2>1. HandedOver' = HandedOver
      BY <1>3, <1>4, <1>5, QueueIs
    <2>2. Len(HandedOver) < 2
      BY <1>3, QueueHasRoom
    <2>3. pos + n <= BufSize
      BY <1>1, SizeAssumption DEF TypeOK
    <2>4. Stream!Accept(n)
      BY <1>2, <1>4, <2>1, <2>2, <2>3 DEF Stream!Accept
    <2> QED
      BY <1>1, <2>4 DEF StreamStep, Stream!Next
  <1> QED
    BY <1>7, <1>8, <1>9, <1>10, <1>11 DEF Data

\* copy_from_user fails: what it left behind lies past the bytes accepted.
LEMMA CopyFaultData ==
  ASSUME IInv, Data, NEW p \in Procs, WriteCopy(p), CopyFault(p)
  PROVE  Data' /\ StreamStep
  <1> USE DEF IInv
  <1>3. bufnumber[p] = Fill_buffer /\ Fill_buffer # DMA_active_buffer
    BY DEF WriteCopy, FillerOwnsBuffer
  <1>4. UNCHANGED <<Fill_buffer, DMA_active_buffer, next_buff_count, sent, burst,
                    issued, dma_data, pos, accepted>>
    BY DEF WriteCopy, CopyFault, engine
  <1>5. Firsts' = Firsts /\ (Padded' => Padded)
    <2>1. p \notin SettingUp
      BY SetterClaimed DEF Claimed, SettingUp, Threads, WriteCopy
    <2>2. \A t \in SettingUp : count'[t] = count[t]
      BY <2>1 DEF CopyFault, TypeOK, SettingUp
    <2>3. \A t \in Threads : pc'[t] = pc[t] \/ pc'[t] = "unlock"
      BY DEF CopyFault, Goto, TypeOK
    <2> QED
      BY <1>4, <2>2, <2>3, FirstsFrame DEF SettingUp, Padded
  <1>6. /\ \A b \in Bufs \ {Fill_buffer} : buffers'[b] = buffers[b]
        /\ \A j \in Slots : j < pos => buffers'[Fill_buffer][j] = buffers[Fill_buffer][j]
    BY <1>3 DEF CopyFault, Store, TypeOK, Slots
  <1>7. Accounted'
    BY <1>4, <1>5 DEF Data, Accounted, Waiting
  <1>8. ActiveData'
    <2>1. CASE Firsts = {}
      BY <1>5, <2>1 DEF ActiveData
    <2>2. CASE Firsts # {}
      <3>1. DMA_active_buffer \in Bufs \ {Fill_buffer}
        BY <1>3, <2>2, FirstsCases DEF TypeOK
      <3> QED
        BY <1>4, <1>5, <1>6, <3>1 DEF Data, ActiveData
    <2> QED BY <2>1, <2>2
  <1>9. WaitingData'
    BY <1>3, <1>4 DEF WaitingData
  <1>10. FillingData'
    BY <1>4, <1>6 DEF Data, FillingData
  <1>11. StreamStep
    <2>1. HandedOver' = HandedOver
      BY <1>3, <1>4, <1>5, QueueIs
    <2> QED
      BY <1>4, <2>1 DEF StreamStep, Stream!vars
  <1> QED
    BY <1>7, <1>8, <1>9, <1>10, <1>11 DEF Data

\* A buffer is handed over: its bytes are the burst that comes next, or the
\* one after it.
LEMMA HandOverData ==
  ASSUME IInv, Data, NEW p \in Procs, pc[p] \in {"queue", "flush"},
         pos \in 1 .. BufSize, Fill_buffer # DMA_active_buffer,
         HandOver(p, Fill_buffer, pos), Goto(p, "unlock"),
         UNCHANGED <<issued, buffers, stream>>
  PROVE  Data' /\ StreamStep
  <1> USE DEF IInv
  <1>1. ~dma_data[p]
    BY SetterClaimed DEF Claimed, Threads
  <1>2. /\ pos' = 0 /\ next_buff_count' = pos /\ Fill_buffer' = NextBuf(Fill_buffer)
        /\ UNCHANGED <<buffers, accepted, sent, burst>>
    BY DEF HandOver, stream
  <1>3. Padded' => Padded
    BY DEF Padded, Goto, TypeOK
  <1>4. FillingData'
    BY <1>2 DEF FillingData, Slots
  <1>5. CASE DMA_active_buffer = -1
    <2>1. Free /\ Firsts = {}
      BY <1>5, UnclaimedFree, FirstsCases
    <2>2. Firsts' = {pos}
      <3>1. SettingUp' = {p} /\ count'[p] = pos
        BY <1>5, <2>1 DEF HandOver, Free, SettingUp, TypeOK, Threads
      <3>2. issued' = {}
        BY <2>1 DEF Free
      <3> QED BY <3>1, <3>2 DEF Firsts
    <2>3. DMA_active_buffer' = Fill_buffer /\ Fill_buffer' # DMA_active_buffer'
      BY <1>2, <1>5, NextBufOther DEF HandOver, TypeOK
    <2>4. ~Padded'
      BY <1>3, <2>1 DEF Padded, Control, Free, SettingUp
    <2>5. AsNum(Firsts) = 0 /\ AsNum(Firsts') = pos /\ AsSeq(Firsts) = << >>
          /\ AsSeq(Firsts') = <<pos>>
      BY <2>1, <2>2, OneOrNone
    <2>6. accepted = sent + pos
      BY <2>5 DEF Data, Accounted, Waiting, TypeOK
    <2>7. Accounted'
      BY <1>2, <2>3, <2>5, <2>6 DEF Accounted, Waiting, TypeOK
    <2>8. ActiveData'
      BY <1>2, <2>2, <2>3, <2>4, <2>6 DEF Data, FillingData, ActiveData, TypeOK
    <2>9. WaitingData'
      BY <2>3 DEF WaitingData
    <2>10. HandedOver = << >> /\ HandedOver' = Append(<< >>, pos)
      BY <2>3, <2>5, QueueIs, ShortSequences
    <2>11. Stream!HandOver
      BY <1>2, <2>10, QueueHasRoom DEF Stream!HandOver
    <2> QED
      BY <1>4, <2>7, <2>8, <2>9, <2>11 DEF Data, StreamStep, Stream!Next
  <1>6. CASE DMA_active_buffer # -1
    <2>1. DMA_active_buffer' = DMA_active_buffer /\ dma_data' = dma_data
      BY <1>1, <1>6 DEF HandOver, TypeOK
    <2>2. Firsts' = Firsts
      <3>1. p \notin SettingUp /\ SettingUp' = SettingUp
        BY <1>1, <2>1 DEF SettingUp
      <3>2. \A t \in SettingUp : count'[t] = count[t]
        BY <3>1 DEF HandOver, TypeOK, SettingUp
      <3> QED BY <3>1, <3>2, FirstsFrame
    <2>3. Fill_buffer' = DMA_active_buffer' /\ NextBuf(DMA_active_buffer) = Fill_buffer
      BY <1>2, <1>6, <2>1 DEF TypeOK, NextBuf, Bufs
    <2>4. AsNum(Firsts) \in Nat /\ accepted = sent + AsNum(Firsts) + pos
      BY FirstsCases DEF Data, Accounted, Waiting, TypeOK
    <2>5. Accounted'
      BY <1>2, <2>2, <2>3, <2>4 DEF Accounted, Waiting, TypeOK
    <2>6. ActiveData'
      BY <1>2, <1>3, <2>1, <2>2 DEF Data, ActiveData
    <2>7. WaitingData'
      <3>1. \A j \in Slots : j < pos =>
              buffers[Fill_buffer][j] = sent + AsNum(Firsts) + j + 1
        BY <2>4 DEF Data, FillingData, Slots, TypeOK
      <3> QED
        BY <1>2, <2>1, <2>2, <2>3, <3>1 DEF WaitingData
    <2>8. HandedOver = AsSeq(Firsts) /\ Len(HandedOver) < 2
      BY QueueHasRoom
    <2>9. HandedOver' = AsSeq(Firsts) \o <<pos>>
      BY <1>2, <2>2, <2>3, QueueIs
    <2>10. AsSeq(Firsts) \o <<pos>> = Append(AsSeq(Firsts), pos)
      <3>1. CASE Firsts = {}
        BY <3>1, OneOrNone, ShortSequences
      <3>2. ASSUME NEW n \in 1 .. BufSize, Firsts = {n}
            PROVE  AsSeq(Firsts) \o <<pos>> = Append(AsSeq(Firsts), pos)
        <4>1. AsSeq(Firsts) = <<n>>
          BY <3>2, OneOrNone
        <4>2. <<n>> \o <<pos>> = <<n, pos>> /\ Append(<<n>>, pos) = <<n, pos>>
          BY ShortSequences
        <4> QED BY <4>1, <4>2
      <3> QED BY <3>1, <3>2, FirstsType
    <2>11. Stream!HandOver
      BY <1>2, <2>8, <2>9, <2>10 DEF Stream!HandOver
    <2> QED
      BY <1>4, <2>5, <2>6, <2>7, <2>11 DEF Data, StreamStep, Stream!Next
  <1> QED BY <1>5, <1>6

\* A full buffer is handed over; otherwise nothing moves.
LEMMA WriteQueueData ==
  ASSUME IInv, Data, NEW p \in Procs, WriteQueue(p)
  PROVE  Data' /\ StreamStep
  <1> USE DEF IInv
  <1>1. pos \in 1 .. BufSize
    BY DEF WriteQueue, Control, TypeOK
  <1>2. bufnumber[p] = Fill_buffer /\ Fill_buffer # DMA_active_buffer
    BY DEF WriteQueue, FillerOwnsBuffer
  <1>3. CASE pos >= BufSize
    <2>1. pos = BufSize
      BY <1>1, <1>3, SizeAssumption
    <2>2. HandOver(p, bufnumber[p], BufSize)
      BY <2>1, SizeAssumption DEF WriteQueue
    <2>3. HandOver(p, Fill_buffer, pos)
      BY <1>2, <2>1, <2>2
    <2> QED
      BY <1>1, <1>2, <2>3, HandOverData DEF WriteQueue, engine
  <1>4. CASE pos < BufSize
    <2>1. UNCHANGED <<dma_data, DMA_active_buffer, next_buff_count, Fill_buffer,
                      pos, count>>
      BY <1>1, <1>4, SizeAssumption DEF WriteQueue
    <2>2. \A t \in Threads : pc'[t] = pc[t] \/ pc'[t] = "unlock"
      BY DEF WriteQueue, Goto, TypeOK
    <2>3. Quiet
      BY <2>1, <2>2, QuietFrame DEF WriteQueue, SettingUp, engine, stream
    <2> QED
      BY <2>3, QuietStep
  <1> QED
    BY <1>3, <1>4 DEF WriteQueue

\* A flush hands a part-filled buffer over; refused, it moves nothing.
LEMMA FlushData ==
  ASSUME IInv, Data, NEW p \in Procs, Flush(p)
  PROVE  Data' /\ StreamStep
  <1> USE DEF IInv
  <1>1. CASE pos # 0 /\ Fill_buffer # DMA_active_buffer
    <2>1. pos \in 1 .. BufSize
      BY <1>1 DEF TypeOK
    <2>2. HandOver(p, Fill_buffer, pos)
      BY <1>1 DEF Flush
    <2> QED
      BY <1>1, <2>1, <2>2, HandOverData DEF Flush, engine
  <1>2. CASE pos = 0 \/ Fill_buffer = DMA_active_buffer
    <2>1. p \notin SettingUp
      BY SetterClaimed DEF Claimed, SettingUp, Threads, Flush
    <2>2. /\ UNCHANGED <<dma_data, DMA_active_buffer, next_buff_count, Fill_buffer, pos>>
          /\ \A t \in Threads \ {p} : count'[t] = count[t]
      BY <1>2 DEF Flush, TypeOK
    <2>3. \A t \in Threads : pc'[t] = pc[t] \/ pc'[t] = "unlock"
      BY DEF Flush, Goto, TypeOK
    <2>4. Quiet
      BY <2>1, <2>2, <2>3, QuietFrame DEF Flush, SettingUp, engine, stream
    <2> QED
      BY <2>4, QuietStep
  <1> QED
    BY <1>1, <1>2

\* Padding writes behind the bytes of the claimed burst, in its buffer alone.
LEMMA PadData ==
  ASSUME IInv, Data, NEW t \in Threads, Pad(t)
  PROVE  Data' /\ StreamStep
  <1> USE DEF IInv
  <1>1. Claimed(t)
    BY SetterClaimed DEF Pad, Control
  <1>2. Firsts = {count[t]} /\ count[t] \in 1 .. BufSize
    BY <1>1, FirstsIs DEF Claimed
  <1>3. bufnumber[t] = DMA_active_buffer /\ DMA_active_buffer \in Bufs
    BY <1>1 DEF Claimed, TypeOK
  <1>4. /\ UNCHANGED <<pos, next_buff_count, DMA_active_buffer, Fill_buffer, count,
                       accepted, sent, burst>>
        /\ Firsts' = Firsts
    BY FirstsFrame DEF Pad, SettingUp, engine, stream
  <1>5. /\ \A b \in Bufs \ {DMA_active_buffer} : buffers'[b] = buffers[b]
        /\ \A j \in Slots :
             buffers'[DMA_active_buffer][j] =
               IF count[t] <= j /\ j < AlignedCount(count[t]) THEN 0
               ELSE buffers[DMA_active_buffer][j]
    BY <1>3 DEF Pad, TypeOK
  <1>6. Accounted'
    BY <1>4 DEF Data, Accounted, Waiting
  <1>7. ActiveData'
    <2>1. \A j \in Slots : j < count[t] => ~(count[t] <= j)
      BY <1>2 DEF Slots
    <2> QED
      BY <1>2, <1>4, <1>5, <2>1 DEF Data, ActiveData
  <1>8. WaitingData'
    <2>1. NextBuf(DMA_active_buffer) \in Bufs \ {DMA_active_buffer}
      BY <1>3, NextBufOther
    <2> QED
      BY <1>4, <1>5, <2>1 DEF Data, WaitingData
  <1>9. FillingData'
    <2>1. CASE Fill_buffer # DMA_active_buffer
      BY <1>4, <1>5, <2>1 DEF Data, FillingData, TypeOK
    <2>2. CASE Fill_buffer = DMA_active_buffer
      <3>1. pos = 0
        BY <2>2 DEF FillPosition, TypeOK
      <3> QED BY <1>4, <3>1 DEF FillingData, Slots
    <2> QED BY <2>1, <2>2
  <1>10. StreamStep
    <2>1. HandedOver' = HandedOver
      BY <1>4, QueueIs
    <2> QED BY <1>4, <2>1 DEF StreamStep, Stream!vars
  <1> QED
    BY <1>6, <1>7, <1>8, <1>9, <1>10 DEF Data

\* The callback claims the burst that waits, which becomes the next one, or
\* finds none and releases the claim.
LEMMA CallbackClaimData ==
  ASSUME IInv, Data, CallbackClaim
  PROVE  Data' /\ StreamStep
  <1> USE DEF IInv
  <1>1. Completing
    BY DEF CallbackClaim, OneTransfer, Free, Claimed, InFlight
  <1>2. Firsts = {} /\ SettingUp = {} /\ issued = {} /\ DMA_active_buffer \in Bufs
    BY <1>1, FirstsIs DEF Completing, TypeOK
  <1>3. AsNum(Firsts) = 0 /\ AsSeq(Firsts) = << >>
    BY <1>2, OneOrNone
  <1>4. UNCHANGED <<pos, next_buff_count, Fill_buffer, buffers, issued,
                    accepted, sent, burst>>
    BY DEF CallbackClaim, engine, stream
  <1>5. ~Padded'
    <2>1. \A t \in Threads : pc[t] \notin {"submit", "issue"}
      BY <1>2 DEF Control, SettingUp
    <2> QED
      BY <1>2, <1>4, <2>1 DEF CallbackClaim, Goto, Padded, TypeOK
  <1>6. FillingData'
    BY <1>4 DEF Data, FillingData
  <1>7. CASE Fill_buffer = DMA_active_buffer
    <2>1. next_buff_count \in 1 .. BufSize
      BY <1>7 DEF Control
    <2>2. DMA_active_buffer' = NextBuf(DMA_active_buffer)
          /\ Fill_buffer' # DMA_active_buffer'
      BY <1>2, <1>4, <1>7, NextBufOther DEF CallbackClaim
    <2>3. Firsts' = {next_buff_count}
      <3>1. SettingUp' = {Tasklet} /\ count'[Tasklet] = next_buff_count
        BY <1>2, <1>7 DEF CallbackClaim, SettingUp, TypeOK, Threads
      <3> QED BY <1>2, <1>4, <3>1 DEF Firsts
    <2>4. AsNum(Firsts') = next_buff_count /\ AsSeq(Firsts') = <<next_buff_count>>
      BY <2>3, OneOrNone
    <2>5. Accounted'
      BY <1>3, <1>4, <1>7, <2>1, <2>2, <2>4 DEF Data, Accounted, Waiting, TypeOK
    <2>6. ActiveData'
      <3>1. \A j \in Slots : j < next_buff_count =>
              buffers[NextBuf(DMA_active_buffer)][j] = sent + j + 1
        BY <1>3, <1>7 DEF Data, WaitingData, TypeOK, Slots
      <3> QED
        BY <1>4, <1>5, <2>2, <2>3, <3>1 DEF ActiveData
    <2>7. WaitingData'
      BY <2>2 DEF WaitingData
    <2>8. HandedOver' = HandedOver
      BY <1>3, <1>7, <2>1, <2>2, <2>4, QueueIs, ShortSequences
    <2>9. StreamStep
      BY <1>4, <2>8 DEF StreamStep, Stream!vars
    <2> QED
      BY <1>6, <2>5, <2>6, <2>7, <2>9 DEF Data
  <1>8. CASE Fill_buffer # DMA_active_buffer
    <2>1. DMA_active_buffer' = -1 /\ UNCHANGED <<dma_data, count>>
      BY <1>8 DEF CallbackClaim
    <2>2. Fill_buffer' # DMA_active_buffer'
      BY <1>4, <2>1 DEF TypeOK, Bufs
    <2>3. Firsts' = {}
      BY <1>2, <1>4, <2>1 DEF Firsts, SettingUp
    <2>4. Accounted'
      BY <1>2, <1>4, <1>8, <2>2, <2>3 DEF Data, Accounted, Waiting
    <2>5. ActiveData' /\ WaitingData'
      BY <2>2, <2>3 DEF ActiveData, WaitingData
    <2>6. HandedOver' = HandedOver
      BY <1>2, <1>8, <2>2, <2>3, QueueIs
    <2>7. StreamStep
      BY <1>4, <2>6 DEF StreamStep, Stream!vars
    <2> QED
      BY <1>6, <2>4, <2>5, <2>7 DEF Data
  <1> QED BY <1>7, <1>8

\* A transfer puts the burst that comes next on the stream, padded.
LEMMA HwTransferData ==
  ASSUME IInv, Data, HwTransfer
  PROVE  Data' /\ StreamStep
  <1> USE DEF IInv
  <1> DEFINE W == IF Fill_buffer = DMA_active_buffer THEN <<next_buff_count>> ELSE << >>
  <1>1. PICK d \in issued :
          /\ issued' = issued \ {d}
          /\ burst' = [j \in 0 .. d.len - 1 |-> buffers[d.buf][j]]
          /\ sent' = sent + d.bytes
    BY DEF HwTransfer
  <1>2. InFlight(d)
    BY <1>1 DEF OneTransfer, Free, Claimed, InFlight, Completing
  <1>3. d.bytes \in 1 .. BufSize /\ d.buf = DMA_active_buffer
    BY <1>1, <1>2 DEF TypeOK, Descriptors, InFlight
  <1>4. Firsts = {d.bytes} /\ AsSeq(Firsts) = <<d.bytes>> /\ AsNum(Firsts) = d.bytes
    BY <1>2, FirstsIs, OneOrNone
  <1>5. UNCHANGED <<pos, next_buff_count, Fill_buffer, DMA_active_buffer, buffers,
                    dma_data, accepted>>
    BY DEF HwTransfer, shared, locals
  <1>6. Firsts' = {} /\ AsSeq(Firsts') = << >> /\ AsNum(Firsts') = 0
    <2>1. issued' = {} /\ SettingUp' = {}
      BY <1>1, <1>2, <1>5 DEF InFlight, SettingUp
    <2>2. Firsts' = {}
      BY <2>1 DEF Firsts
    <2> QED BY <2>2, OneOrNone
  <1>7. Accounted'
    <2>1. Waiting \in Nat /\ Waiting' = Waiting
      BY <1>5 DEF Waiting, TypeOK
    <2>2. accepted = sent + d.bytes + Waiting + pos
      BY <1>4 DEF Data, Accounted
    <2>3. sent \in Nat /\ pos \in Nat /\ d.bytes \in Nat
      BY <1>3 DEF TypeOK
    <2> QED
      BY <1>1, <1>5, <1>6, <2>1, <2>2, <2>3 DEF Accounted
  <1>8. ActiveData'
    BY <1>6 DEF ActiveData
  <1>9. WaitingData'
    BY <1>1, <1>3, <1>4, <1>5, <1>6 DEF Data, WaitingData, TypeOK, Slots
  <1>10. FillingData'
    BY <1>5 DEF Data, FillingData
  <1>11. HandedOver = <<d.bytes>> \o W /\ HandedOver' = W
    BY <1>4, <1>5, <1>6, QueueIs, ShortSequences DEF TypeOK
  <1>12. HandedOver # << >> /\ Head(HandedOver) = d.bytes /\ Tail(HandedOver) = W
    <2>1. CASE Fill_buffer = DMA_active_buffer
      <3>1. HandedOver = <<d.bytes, next_buff_count>>
        BY <1>3, <1>11, <2>1, ShortSequences DEF TypeOK
      <3> QED
        BY <1>3, <2>1, <3>1, ShortSequences DEF TypeOK
    <2>2. CASE Fill_buffer # DMA_active_buffer
      <3>1. HandedOver = <<d.bytes>>
        BY <1>3, <1>11, <2>2, ShortSequences
      <3> QED
        BY <1>3, <2>2, <3>1, ShortSequences
    <2> QED BY <2>1, <2>2
  <1>13. burst' = Stream!BurstOf(sent, d.bytes)
    <2>1. Stream!Padded(d.bytes) = d.len /\ d.len \in d.bytes .. BufSize
      BY <1>2, <1>3, AlignedIsPadded, AlignedCountRange DEF InFlight
    <2>2. Padded
      BY <1>1 DEF Padded
    <2>3. \A j \in 0 .. d.len - 1 :
            buffers[d.buf][j] = IF j < d.bytes THEN sent + j + 1 ELSE 0
      <3> TAKE j \in 0 .. d.len - 1
      <3>1. j \in Slots
        BY <1>3, <2>1, SizeAssumption DEF Slots
      <3>2. ~(j < d.bytes) => d.bytes <= j /\ j < AlignedCount(d.bytes)
        BY <1>2, <1>3, <2>1 DEF InFlight
      <3> QED
        BY <1>3, <1>4, <2>2, <3>1, <3>2 DEF Data, ActiveData
    <2> QED
      BY <1>1, <2>1, <2>3 DEF Stream!BurstOf
  <1>14. StreamStep
    <2>1. Stream!Transmit
      BY <1>1, <1>5, <1>11, <1>12, <1>13 DEF Stream!Transmit
    <2> QED BY <2>1 DEF StreamStep, Stream!Next
  <1> QED
    BY <1>7, <1>8, <1>9, <1>10, <1>14 DEF Data

-----------------------------------------------------------------------------
\* Nothing was accepted yet, and no step loses track of a byte.
LEMMA InitData == Init => Data /\ Stream!Init
  <1> SUFFICES ASSUME Init PROVE Data /\ Stream!Init
    OBVIOUS
  <1>1. Firsts = {}
    BY DEF Init, Firsts, SettingUp
  <1>2. AsNum(Firsts) = 0 /\ HandedOver = << >> \o << >>
    BY <1>1, OneOrNone, QueueIs DEF Init
  <1>3. Accounted
    BY <1>2 DEF Init, Accounted, Waiting
  <1>4. ActiveData /\ WaitingData /\ FillingData
    BY <1>1 DEF Init, ActiveData, WaitingData, FillingData, Slots
  <1>5. Stream!Init
    BY <1>2, ShortSequences DEF Init, Stream!Init
  <1> QED
    BY <1>3, <1>4, <1>5 DEF Data

\* Every step of the driver is a step of the stream, or none.
LEMMA StepImplements == IInv /\ Data /\ [Next]_vars => Data' /\ StreamStep
  <1> SUFFICES ASSUME IInv, Data, [Next]_vars PROVE Data' /\ StreamStep
    OBVIOUS
  <1>1. ASSUME Quiet PROVE Data' /\ StreamStep
    BY <1>1, QuietStep
  <1>2. CASE UNCHANGED vars
    <2>1. Quiet
      BY <1>2, QuietFrame DEF vars, shared, locals, engine, stream, SettingUp
    <2> QED BY <2>1, <1>1
  <1>3. ASSUME NEW t \in Threads, SetupStep(t) PROVE Data' /\ StreamStep
    BY <1>1, <1>3, PadData, SubmitQuiet, IssueQuiet DEF SetupStep
  <1>4. ASSUME NEW p \in Procs, WriteCopy(p) PROVE Data' /\ StreamStep
    <2>1. CASE CopyNothing(p)
      BY <1>1, <1>4, <2>1, CallQuiet
    <2> QED
      BY <1>4, <2>1, CopyDoneData, CopyFaultData DEF WriteCopy
  <1>5. ASSUME NEW p \in Procs, Call(p) \/ ProcStep(p) \/ PollTimeout(p)
        PROVE  Data' /\ StreamStep
    BY <1>1, <1>3, <1>4, <1>5, CallQuiet, WriteQueueData, FlushData, UnlockQuiet
    DEF Call, ProcStep, Threads
  <1>6. CASE TaskletStep
    BY <1>1, <1>3, <1>6, EngineQuiet, CallbackClaimData DEF TaskletStep, Threads
  <1>7. CASE HwTransfer \/ HwFail
    BY <1>1, <1>7, HwTransferData, EngineQuiet
  <1> QED
    BY <1>2, <1>5, <1>6, <1>7 DEF Next

\* What the buffers hold is accounted for in every reachable state.
THEOREM BytesAccounted == Spec => []Data
  BY InitData, StepImplements, Invariance, PTL DEF Spec

\* The two buffers, the tasklet and the engine behave as one stream: no byte
\* that dma_write accepted is lost, repeated, reordered or sent before its
\* burst is complete, whoever hands over, flushes and completes.
THEOREM DriverImplementsStream == Spec => StreamSafe
  BY InitData, StepImplements, BytesAccounted, Invariance, PTL
  DEF Spec, StreamSafe, Stream!SafeSpec, StreamStep

-----------------------------------------------------------------------------
(* PollApp: the program over the two drivers *)

CncProofs == INSTANCE CncController_proofs WITH
               Procs <- {App, Operator}, Attrs <- {StopReset} \cup OtherAttrs,
               Reserved <- {}

-----------------------------------------------------------------------------
(* The drivers *)

\* A step of the composition is a step of the DMA driver or leaves it alone.
LEMMA DriverStep == [AppNext]_allVars => [Next]_vars
  <1> SUFFICES ASSUME [AppNext]_allVars PROVE [Next]_vars
    OBVIOUS
  <1>1. App \in Procs /\ BufSize \in 0 .. BufSize + 1
    BY AppAssumption, SizeAssumption
  <1>2. CASE UNCHANGED driverVars
    BY <1>2 DEF driverVars
  <1>3. CASE PollWait(App) \/ PollCheck(App) \/ PollAgain(App) \/ PollTimeout(App)
    BY <1>1, <1>3 DEF Next, Call, ProcStep
  <1>4. CASE \/ WriteLock(App, BufSize) \/ WriteCheck(App) \/ WriteCopy(App)
             \/ WriteQueue(App) \/ Unlock(App) \/ SetupStep(App)
    BY <1>1, <1>4 DEF Next, Call, ProcStep
  <1>5. CASE TaskletStep \/ HwTransfer
    BY <1>5 DEF Next
  <1> QED
    BY <1>2, <1>3, <1>4, <1>5
       DEF AppNext, AppStep, StopResetCall, StopResetStep, PollCall, PollStep,
           WriteCall, WriteStep, Exit, PollExpires, PollFails, OperatorStep, KernelStep,
           allVars

\* A step of the composition is a step of the control driver or leaves it alone.
LEMMA ControlStep == [AppNext]_allVars => [Cnc!Next]_(Cnc!vars)
  <1> SUFFICES ASSUME [AppNext]_allVars PROVE [Cnc!Next]_(Cnc!vars)
    OBVIOUS
  <1>1. CASE UNCHANGED controlVars
    BY <1>1 DEF controlVars, Cnc!vars
  <1>2. ASSUME NEW p \in {App, Operator},
               Cnc!Store(p) \/ Cnc!Lock(p) \/ Cnc!Read(p) \/ Cnc!Unlock(p)
        PROVE  Cnc!Next
    BY <1>2 DEF Cnc!Next, Cnc!StoreStep
  <1>3. ASSUME NEW p \in {App, Operator}, NEW b \in {StopReset} \cup OtherAttrs,
               NEW on \in BOOLEAN, Cnc!Write(p, [bit |-> b, on |-> on])
        PROVE  Cnc!Next
    <2>1. [bit |-> b, on |-> on] \in Cnc!Requests
      BY DEF Cnc!Requests
    <2> QED BY <1>3, <2>1 DEF Cnc!Next, Cnc!StoreStep
  <1> QED
    BY <1>1, <1>2, <1>3
       DEF AppNext, AppStep, StopResetCall, StopResetStep, PollCall, PollStep,
           WriteCall, WriteStep, Exit, PollExpires, PollFails, OperatorStep, KernelStep,
           allVars

\* The program and its environment use each driver as the driver's own
\* specification lets any program: what is proved of the drivers holds here.
THEOREM UsesTheDrivers == AppSpec => Spec /\ Cnc!Spec
  BY DriverStep, ControlStep, PTL DEF AppSpec, AppInit, Spec, Cnc!Spec

\* The invariant of the control driver.
LEMMA ControlInvariant == AppSpec => []CncProofs!IInv
  <1>1. None \notin {App, Operator} /\ (({StopReset} \cup OtherAttrs) \cap {}) = {}
    BY AppAssumption, ThreadAssumption
  <1>2. Cnc!Init => CncProofs!IInv
    <2>1. Cnc!Init => CncProofs!Init
      BY DEF CncProofs!Init, Cnc!Init, CncProofs!Bits, Cnc!Bits
    <2> QED BY <1>1, <2>1, CncProofs!InitStep
  <1>3. CncProofs!IInv /\ [Cnc!Next]_(Cnc!vars) => CncProofs!IInv'
    <2>1. [Cnc!Next]_(Cnc!vars) => [CncProofs!Next]_(CncProofs!vars)
      BY DEF Cnc!Next, Cnc!StoreStep, Cnc!Store, Cnc!Lock, Cnc!Read, Cnc!Write,
             Cnc!Unlock, Cnc!Goto, Cnc!Requests, Cnc!vars,
             CncProofs!Next, CncProofs!StoreStep, CncProofs!Store, CncProofs!Lock,
             CncProofs!Read, CncProofs!Write, CncProofs!Unlock, CncProofs!Goto,
             CncProofs!Requests, CncProofs!vars
    <2> QED BY <1>1, <2>1, CncProofs!NextStep
  <1> QED BY <1>2, <1>3, UsesTheDrivers, PTL DEF Cnc!Spec

-----------------------------------------------------------------------------
(* The invariant of the program *)

\* Where the program's thread is in the driver; no other thread is.
AppAt ==
  /\ step = "poll" => IF fd THEN pc[App] \in {"poll", "sleep"} ELSE pc[App] = "idle"
  /\ step = "write" => pc[App] \in {"check", "copy", "queue", "unlock", "pad",
                                    "submit", "issue"}
  /\ step \notin {"poll", "write"} => pc[App] = "idle"
  /\ \A p \in Procs : p # App => pc[p] = "idle"

\* A POLLOUT holds until the write has checked it; the buffer is empty then, is
\* filled by one copy and handed over by the step after it.
Taken ==
  /\ pos = IF pc[App] = "queue" THEN BufSize ELSE 0
  /\ step = "ready" \/ pc[App] = "check" => Fill_buffer # DMA_active_buffer
  /\ pc[App] \in {"check", "copy"} => count[App] = BufSize
  /\ writes \in Nat
  /\ accepted = IF pc[App] \in {"check", "copy"} THEN (writes - 1) * BufSize
                ELSE writes * BufSize

\* The store to stop_reset is over before the first write, and what it set
\* stays set.
StopIsReset ==
  /\ step \in {"start", "stop_reset"} => writes = 0
  /\ step = "stop_reset" => rst_fd /\ at[App] # "idle"
  /\ step # "stop_reset" => at[App] = "idle"
  /\ rst_fd /\ step \notin {"start", "stop_reset"} => StopReset \in ctrl_reg
  /\ at[App] = "unlock" => StopReset \in ctrl_reg

\* With the invariants of the two drivers.
AppInv == IInv /\ CncProofs!IInv /\ AppAt /\ Taken /\ StopIsReset

\* What the steps need of the driver's invariant.
LEMMA DriverFacts ==
  ASSUME IInv
  PROVE  /\ App \in Procs /\ App \in Threads /\ App # Tasklet
         /\ pc \in [Threads -> ProcLabels \cup TaskletLabels]
         /\ count \in [Threads -> Int]
         /\ Fill_buffer \in Bufs /\ DMA_active_buffer \in Bufs \cup {-1}
         /\ pc[App] = "copy" => Fill_buffer # DMA_active_buffer
         /\ BufSize \in Nat \ {0} /\ accepted \in Nat
  BY AppAssumption, SizeAssumption, ThreadAssumption
     DEF IInv, TypeOK, FillerOwnsBuffer, Threads

\* The program starts with nothing written.
LEMMA AppInitially == AppInit => AppAt /\ Taken /\ StopIsReset
  <1> SUFFICES ASSUME AppInit PROVE AppAt /\ Taken /\ StopIsReset
    OBVIOUS
  <1>1. /\ step = "start" /\ writes = 0 /\ pos = 0 /\ accepted = 0
        /\ \A p \in Procs : pc[p] = "idle"
        /\ at[App] = "idle"
    BY DEF AppInit, Init, Cnc!Init, Threads
  <1>2. App \in Procs /\ BufSize \in Nat
    BY AppAssumption, SizeAssumption
  <1> QED BY <1>1, <1>2 DEF AppAt, Taken, StopIsReset

\* Moving a thread moves no other.
LEMMA Moved ==
  ASSUME IInv, NEW t \in Threads, NEW l, Goto(t, l)
  PROVE  /\ pc'[t] = l
         /\ \A u \in Threads : u # t => pc'[u] = pc[u]
  BY DEF IInv, TypeOK, Goto

\* The tasklet and the engine leave the filling to the program; the callback
\* only ever makes the buffer being filled free.
LEMMA KernelKeeps ==
  ASSUME AppInv, KernelStep
  PROVE  AppAt' /\ Taken' /\ StopIsReset'
  <1> USE DriverFacts DEF AppInv
  <1>1. UNCHANGED <<step, rst_fd, fd, writes, at, ctrl_reg>>
    BY DEF KernelStep, controlVars, appVars
  <1>2. /\ \A p \in Procs : pc'[p] = pc[p] /\ (pc'[p] = "check" => count'[p] = count[p])
        /\ pc'[App] \in {"check", "copy"} => count'[App] = count[App]
        /\ UNCHANGED <<pos, Fill_buffer, accepted>>
        /\ Fill_buffer # DMA_active_buffer => Fill_buffer' # DMA_active_buffer'
    <2>1. CASE CallbackStatus
      <3>1. PICK l : Goto(Tasklet, l)
        BY <2>1 DEF CallbackStatus
      <3> QED BY <2>1, <3>1, Moved, ThreadAssumption
              DEF CallbackStatus, shared, stream, Threads
    <2>2. CASE CallbackClaim
      <3>1. PICK l : Goto(Tasklet, l)
        BY <2>2 DEF CallbackClaim
      <3>2. \A p \in Procs : count'[p] = count[p]
        BY <2>2, ThreadAssumption DEF CallbackClaim, Threads
      <3>3. Fill_buffer # DMA_active_buffer => Fill_buffer # DMA_active_buffer'
        BY <2>2 DEF CallbackClaim, Bufs
      <3> QED BY <2>2, <3>1, <3>2, <3>3, Moved, ThreadAssumption
              DEF CallbackClaim, stream, Threads
    <2>3. CASE Pad(Tasklet)
      <3>1. PICK l : Goto(Tasklet, l)
        BY <2>3 DEF Pad
      <3> QED BY <2>3, <3>1, Moved, ThreadAssumption DEF Pad, stream, Threads
    <2>4. CASE Submit(Tasklet)
      <3>1. PICK l : Goto(Tasklet, l)
        BY <2>4 DEF Submit
      <3> QED BY <2>4, <3>1, Moved, ThreadAssumption DEF Submit, stream, Threads
    <2>5. CASE Issue(Tasklet)
      <3>1. PICK l : Goto(Tasklet, l)
        BY <2>5 DEF Issue
      <3>2. \A p \in Procs : count'[p] = count[p]
        BY <2>5, ThreadAssumption DEF Issue, Forget, Threads
      <3> QED BY <2>5, <3>1, <3>2, Moved, ThreadAssumption
              DEF Issue, shared, stream, Threads
    <2>6. CASE CallbackWake
      <3>1. PICK l : Goto(Tasklet, l)
        BY <2>6 DEF CallbackWake
      <3> QED BY <2>6, <3>1, Moved, ThreadAssumption
              DEF CallbackWake, shared, stream, Threads
    <2>7. CASE HwTransfer
      BY <2>7 DEF HwTransfer, shared, locals
    <2> QED BY <2>1, <2>2, <2>3, <2>4, <2>5, <2>6, <2>7
            DEF KernelStep, TaskletStep, SetupStep
  <1>3. AppAt' /\ StopIsReset'
    BY <1>1, <1>2 DEF AppAt, StopIsReset
  <1>4. Taken'
    BY <1>1, <1>2 DEF Taken
  <1> QED BY <1>3, <1>4

\* Another program's store changes another bit of the value that is there.
LEMMA OperatorKeeps ==
  ASSUME AppInv, OperatorStep
  PROVE  AppAt' /\ Taken' /\ StopIsReset'
  <1> USE AppAssumption DEF AppInv
  <1>1. UNCHANGED <<driverVars, appVars>>
    BY DEF OperatorStep
  <1>2. AppAt' /\ Taken'
    BY <1>1, Zenon
       DEF AppAt, Taken, driverVars, vars, shared, locals, stream, appVars
  <1>3. at'[App] = at[App]
    BY DEF OperatorStep, Cnc!Store, Cnc!Lock, Cnc!Read, Cnc!Write, Cnc!Unlock,
           Cnc!Goto, CncProofs!IInv, CncProofs!TypeOK
  <1>4. StopReset \in ctrl_reg => StopReset \in ctrl_reg'
    <2>1. ASSUME NEW b \in OtherAttrs, NEW on \in BOOLEAN,
                 Cnc!Write(Operator, [bit |-> b, on |-> on]), StopReset \in ctrl_reg
          PROVE  StopReset \in ctrl_reg'
      <3>1. regvalue[Operator] = ctrl_reg
        BY <2>1 DEF Cnc!Write, CncProofs!IInv, CncProofs!ValueIsFresh
      <3>2. b # StopReset
        OBVIOUS
      <3> QED BY <2>1, <3>1, <3>2 DEF Cnc!Write
    <2>2. CASE UNCHANGED ctrl_reg
      BY <2>2
    <2> QED BY <2>1, <2>2 DEF OperatorStep, Cnc!Store, Cnc!Lock, Cnc!Read, Cnc!Unlock
  <1>5. StopIsReset'
    BY <1>1, <1>3, <1>4 DEF StopIsReset, appVars
  <1> QED BY <1>2, <1>5

\* The store to stop_reset sets its bit before it returns.
LEMMA StoreKeeps ==
  ASSUME AppInv, StopResetCall \/ StopResetStep
  PROVE  AppAt' /\ Taken' /\ StopIsReset'
  <1> USE DriverFacts DEF AppInv
  <1>1. UNCHANGED <<driverVars, rst_fd, fd, i, writes>>
    BY DEF StopResetCall, StopResetStep
  <1>2. /\ step \in {"start", "stop_reset"} /\ step' \in {"start", "stop_reset", "loop"}
        /\ step' # "start"
    BY DEF StopResetCall, StopResetStep
  <1>3. AppAt' /\ Taken'
    <2>1. UNCHANGED <<pc, pos, count, accepted, Fill_buffer, DMA_active_buffer>>
      BY <1>1 DEF driverVars, vars, shared, locals, stream
    <2> QED BY <1>1, <1>2, <2>1 DEF AppAt, Taken
  <1>4. StopIsReset'
    <2>1. CASE StopResetCall
      <3>1. CASE rst_fd /\ Cnc!Store(App)
        <4>1. at'[App] = "lock"
          BY <3>1 DEF Cnc!Store, Cnc!Goto, CncProofs!IInv, CncProofs!TypeOK
        <4>2. step' = "stop_reset"
          BY <2>1, <3>1 DEF StopResetCall
        <4> QED BY <1>1, <1>2, <3>1, <4>1, <4>2 DEF StopIsReset
      <3>2. CASE ~rst_fd /\ UNCHANGED controlVars
        <4>1. step' = "loop" /\ step = "start"
          BY <2>1, <3>2 DEF StopResetCall
        <4> QED BY <1>1, <3>2, <4>1 DEF StopIsReset, controlVars
      <3> QED BY <2>1, <3>1, <3>2 DEF StopResetCall
    <2>2. CASE StopResetStep
      <3>1. step = "stop_reset" /\ rst_fd /\ writes = 0
        BY <2>2 DEF StopResetStep, StopIsReset
      <3>2. step' = IF at'[App] = "idle" THEN "loop" ELSE "stop_reset"
        BY <2>2, <3>1 DEF StopResetStep
      <3>3. /\ at'[App] = "unlock" => StopReset \in ctrl_reg'
            /\ at'[App] = "idle" => StopReset \in ctrl_reg'
        <4> USE DEF CncProofs!IInv, CncProofs!TypeOK, Cnc!Goto
        <4>1. CASE Cnc!Lock(App)
          BY <4>1 DEF Cnc!Lock
        <4>2. CASE Cnc!Read(App)
          BY <4>2 DEF Cnc!Read
        <4>3. CASE Cnc!Unlock(App)
          BY <4>3 DEF Cnc!Unlock, StopIsReset
        <4>4. CASE Cnc!Write(App, [bit |-> StopReset, on |-> TRUE])
          <5>1. at'[App] = "unlock" /\ ctrl_reg' = regvalue[App] \cup {StopReset}
            BY <4>4 DEF Cnc!Write
          <5> QED BY <5>1
        <4> QED BY <2>2, <4>1, <4>2, <4>3, <4>4 DEF StopResetStep
      <3> QED BY <1>1, <3>1, <3>2, <3>3 DEF StopIsReset
    <2> QED BY <2>1, <2>2
  <1> QED BY <1>3, <1>4

\* Polling, waiting and leaving: nothing is written.  A POLLOUT is answered
\* when the buffer being filled is not the engine's.
LEMMA PollKeeps ==
  ASSUME AppInv, PollCall \/ PollStep \/ PollExpires \/ PollFails \/ Exit
  PROVE  AppAt' /\ Taken' /\ StopIsReset'
  <1> USE DriverFacts DEF AppInv
  <1>1. UNCHANGED <<controlVars, rst_fd, fd, writes>>
    BY DEF PollCall, PollStep, PollExpires, PollFails, Exit
  <1>2. UNCHANGED <<pos, count, accepted, Fill_buffer, DMA_active_buffer>>
    BY DEF PollCall, PollStep, PollExpires, PollFails, Exit, PollWait, PollCheck,
           PollAgain, PollTimeout, driverVars, vars, shared, locals, stream
  <1>3. /\ step \in {"loop", "poll"}
        /\ step' \in {"loop", "poll", "ready", "exit", "aborted"}
        /\ pc'[App] \in {"idle", "poll", "sleep"}
        /\ step' = "poll" => IF fd THEN pc'[App] \in {"poll", "sleep"} ELSE pc'[App] = "idle"
        /\ step' # "poll" => pc'[App] = "idle"
        /\ step' = "ready" => Fill_buffer # DMA_active_buffer
        /\ \A p \in Procs : p # App => pc'[p] = pc[p]
    <2>1. CASE PollCall
      <3>1. step = "loop" /\ step' = "poll" /\ pc[App] = "idle"
        BY <2>1 DEF PollCall, AppAt
      <3>2. CASE fd
        <4>1. Goto(App, "poll")
          BY <2>1, <3>2 DEF PollCall, PollWait
        <4> QED BY <3>1, <3>2, <4>1, Moved DEF Threads
      <3>3. CASE ~fd
        BY <2>1, <3>1, <3>3 DEF PollCall, driverVars, vars, locals
      <3> QED BY <3>2, <3>3
    <2>2. CASE PollStep
      <3>1. step = "poll" /\ step' = IF pc'[App] = "idle" THEN "ready" ELSE step
        BY <2>2 DEF PollStep
      <3>2. fd
        BY <2>2, <3>1 DEF PollStep, PollCheck, PollAgain, AppAt
      <3>3. CASE PollCheck(App) /\ Fill_buffer # DMA_active_buffer
        <4>1. Goto(App, "idle")
          BY <3>3 DEF PollCheck, PollReturn
        <4> QED BY <3>1, <3>3, <4>1, Moved DEF Threads
      <3>4. CASE PollCheck(App) /\ Fill_buffer = DMA_active_buffer
        <4>1. Goto(App, "sleep")
          BY <3>4 DEF PollCheck
        <4> QED BY <3>1, <3>2, <4>1, Moved DEF Threads
      <3>5. CASE PollAgain(App)
        <4>1. Goto(App, "poll")
          BY <3>5 DEF PollAgain
        <4> QED BY <3>1, <3>2, <4>1, Moved DEF Threads
      <3> QED BY <2>2, <3>3, <3>4, <3>5 DEF PollStep
    <2>3. CASE PollExpires
      <3>1. step = "poll" /\ step' = "loop"
        BY <2>3 DEF PollExpires
      <3>2. CASE fd
        <4>1. Goto(App, "idle")
          BY <2>3, <3>2 DEF PollExpires, PollTimeout, PollReturn
        <4> QED BY <3>1, <4>1, Moved DEF Threads
      <3>3. CASE ~fd
        <4>1. pc' = pc /\ pc[App] = "idle"
          BY <2>3, <3>1, <3>3 DEF PollExpires, AppAt, driverVars, vars, locals
        <4> QED BY <3>1, <4>1
      <3> QED BY <3>2, <3>3
    <2>4. CASE Exit
      <3>1. step = "loop" /\ step' = "exit" /\ pc' = pc /\ pc[App] = "idle"
        BY <2>4 DEF Exit, AppAt, driverVars, vars, locals
      <3> QED BY <3>1
    <2>5. CASE PollFails
      <3>1. step \in {"loop", "poll"} /\ step' = "aborted"
        BY <2>5 DEF PollFails
      <3>2. CASE PollTimeout(App)
        <4>1. Goto(App, "idle")
          BY <3>2 DEF PollTimeout, PollReturn
        <4> QED BY <3>1, <4>1, Moved DEF Threads
      <3>3. CASE UNCHANGED driverVars /\ (step = "loop" \/ ~fd)
        <4>1. pc' = pc /\ pc[App] = "idle"
          BY <3>1, <3>3 DEF AppAt, driverVars, vars, locals
        <4> QED BY <3>1, <4>1
      <3> QED BY <2>5, <3>2, <3>3 DEF PollFails
    <2> QED BY <2>1, <2>2, <2>3, <2>4, <2>5
  <1>4. pc[App] \in {"idle", "poll", "sleep"}
    BY <1>3 DEF AppAt
  <1> QED BY <1>1, <1>2, <1>3, <1>4 DEF AppAt, Taken, StopIsReset, controlVars

\* The write that a POLLOUT led to.
LEMMA WriteCallKeeps ==
  ASSUME AppInv, WriteCall
  PROVE  AppAt' /\ Taken' /\ StopIsReset'
  <1> USE DriverFacts DEF AppInv
  <1>1. /\ step = "ready" /\ step' = "write" /\ writes' = writes + 1 /\ writes \in Nat
        /\ UNCHANGED <<controlVars, rst_fd, fd>>
        /\ Fill_buffer # DMA_active_buffer /\ pos = 0 /\ accepted = writes * BufSize
        /\ pc[App] = "idle"
    BY DEF WriteCall, AppAt, Taken
  <1>2. /\ Goto(App, "check") /\ count'[App] = BufSize
        /\ UNCHANGED <<pos, accepted, Fill_buffer, DMA_active_buffer>>
    BY DEF WriteCall, WriteLock, stream
  <1>3. pc'[App] = "check" /\ \A p \in Procs : p # App => pc'[p] = pc[p]
    BY <1>2, Moved DEF Threads
  <1>4. AppAt' /\ StopIsReset'
    BY <1>1, <1>3 DEF AppAt, StopIsReset, controlVars
  <1>5. writes' - 1 = writes /\ writes' \in Nat
    BY <1>1
  <1>6. Taken'
    BY <1>1, <1>2, <1>3, <1>5 DEF Taken
  <1> QED BY <1>4, <1>6

\* The write finds the buffer free and empty, fills it and hands it over; what
\* it claimed it sets up before it returns.
LEMMA WriteKeeps ==
  ASSUME AppInv, WriteStep
  PROVE  AppAt' /\ Taken' /\ StopIsReset'
  <1> USE DriverFacts DEF AppInv
  <1>1. /\ step = "write" /\ step' = IF pc'[App] = "idle" THEN "loop" ELSE "write"
        /\ UNCHANGED <<controlVars, rst_fd, fd, writes>> /\ writes \in Nat
    BY DEF WriteStep, Taken
  <1>2. StopIsReset'
    BY <1>1 DEF StopIsReset, controlVars
  <1>3. ASSUME NEW l, Goto(App, l), UNCHANGED <<pos, accepted>>, l # "check",
               l \in {"copy", "unlock", "pad", "submit", "issue", "idle"},
               l = "copy" => count'[App] = BufSize /\ pc[App] = "check",
               pc[App] \in {"check", "copy"} => l = "copy", pc[App] # "queue"
        PROVE  AppAt' /\ Taken'
    <2>1. pc'[App] = l /\ \A p \in Procs : p # App => pc'[p] = pc[p]
      BY <1>3, Moved DEF Threads
    <2>2. AppAt'
      BY <1>1, <1>3, <2>1 DEF AppAt
    <2>3. pos' = 0 /\ accepted' = IF l = "copy" THEN (writes - 1) * BufSize ELSE writes * BufSize
      BY <1>1, <1>3 DEF Taken
    <2>4. step' # "ready"
      BY <1>1
    <2> QED BY <1>1, <1>3, <2>1, <2>2, <2>3, <2>4 DEF Taken
  <1>4. CASE WriteCheck(App)
    <2>1. /\ pc[App] = "check" /\ Fill_buffer # DMA_active_buffer /\ count[App] = BufSize
          /\ Goto(App, "copy") /\ UNCHANGED <<pos, accepted, count>>
      BY <1>4 DEF WriteCheck, Taken, shared, stream
    <2> QED BY <1>2, <1>3, <2>1
  <1>5. CASE WriteCopy(App) /\ accepted' # accepted
    <2>1. /\ pc[App] = "copy" /\ CopyDone(App) /\ pos = 0 /\ count[App] = BufSize
          /\ accepted = (writes - 1) * BufSize
      BY <1>5 DEF WriteCopy, CopyFault, CopyNothing, Taken
    <2>2. Room(App) = BufSize
      BY <2>1 DEF Room, Lesser
    <2>3. pos' = BufSize /\ accepted' = (writes - 1) * BufSize + BufSize /\ Goto(App, "queue")
      BY <2>1, <2>2 DEF CopyDone
    <2>4. (writes - 1) * BufSize + BufSize = writes * BufSize
      BY <1>1, Z3
    <2>5. pc'[App] = "queue" /\ \A p \in Procs : p # App => pc'[p] = pc[p]
      BY <2>3, Moved DEF Threads
    <2> QED BY <1>1, <1>2, <2>3, <2>4, <2>5 DEF AppAt, Taken
  <1>6. CASE WriteQueue(App)
    <2>1. pc[App] = "queue" /\ pos = BufSize /\ accepted = writes * BufSize
      BY <1>6 DEF WriteQueue, Taken
    <2>2. pos' = 0 /\ accepted' = accepted /\ Goto(App, "unlock")
      BY <1>6, <2>1 DEF WriteQueue, HandOver, stream
    <2>3. pc'[App] = "unlock" /\ \A p \in Procs : p # App => pc'[p] = pc[p]
      BY <2>2, Moved DEF Threads
    <2> QED BY <1>1, <1>2, <2>1, <2>2, <2>3 DEF AppAt, Taken
  <1>7. CASE Unlock(App)
    <2>1. pc[App] = "unlock" /\ UNCHANGED <<pos, accepted>>
      BY <1>7 DEF Unlock, stream
    <2>2. Goto(App, "pad") \/ Goto(App, "idle")
      BY <1>7 DEF Unlock
    <2> QED BY <1>2, <1>3, <2>1, <2>2
  <1>8. CASE SetupStep(App)
    <2>1. pc[App] \in {"pad", "submit", "issue"} /\ UNCHANGED <<pos, accepted>>
      BY <1>8 DEF SetupStep, Pad, Submit, Issue, shared, stream
    <2>2. Goto(App, "submit") \/ Goto(App, "issue") \/ Goto(App, "idle")
      BY <1>8 DEF SetupStep, Pad, Submit, Issue
    <2> QED BY <1>2, <1>3, <2>1, <2>2
  <1> QED BY <1>4, <1>5, <1>6, <1>7, <1>8 DEF WriteStep

\* Every step keeps the invariant, the drivers' by their own proofs.
LEMMA AppInductive ==
  AppInv /\ [AppNext]_allVars => AppAt' /\ Taken' /\ StopIsReset'
  <1> SUFFICES ASSUME AppInv, [AppNext]_allVars
               PROVE  AppAt' /\ Taken' /\ StopIsReset'
    OBVIOUS
  <1>1. CASE UNCHANGED allVars
    BY <1>1, Zenon
       DEF AppInv, AppAt, Taken, StopIsReset, allVars, driverVars, vars, shared,
           locals, stream, controlVars, appVars
  <1> QED BY <1>1, StoreKeeps, PollKeeps, WriteCallKeeps, WriteKeeps, OperatorKeeps,
             KernelKeeps
          DEF AppNext, AppStep

\* The invariant of the program with the two drivers, which brings in theirs.
LEMMA AppInvariance == AppSpec => []AppInv
  <1>1. AppSpec => []IInv /\ []CncProofs!IInv
    BY UsesTheDrivers, Invariance, ControlInvariant, PTL
  <1> QED BY <1>1, AppInitially, AppInductive, PTL DEF AppSpec, AppInv

\* A POLLOUT of dma_poll still holds when the write it led to runs: every
\* buffer written is taken whole.
THEOREM WritesAreWhole == AppSpec => []WholeWrites
  <1>1. AppInv => WholeWrites
    BY DEF AppInv, AppAt, Taken, WholeWrites
  <1> QED BY <1>1, AppInvariance, PTL

\* Nothing is streamed before the stop was reset, and no store to another
\* attribute undoes that.
THEOREM StreamsAfterReset == AppSpec => []StopResetFirst
  <1>1. AppInv => StopResetFirst
    <2> SUFFICES ASSUME AppInv, rst_fd, accepted > 0
                 PROVE  StopReset \in ctrl_reg
      BY DEF StopResetFirst
    <2>1. step \notin {"start", "stop_reset"}
      <3> SUFFICES ASSUME step \in {"start", "stop_reset"} PROVE FALSE
        OBVIOUS
      <3>1. pc[App] = "idle" /\ writes = 0
        BY DEF AppInv, AppAt, StopIsReset
      <3>2. accepted = writes * BufSize /\ BufSize \in Nat
        BY <3>1, SizeAssumption DEF AppInv, Taken
      <3> QED BY <3>1, <3>2, Z3
    <2> QED BY <2>1 DEF AppInv, StopIsReset
  <1> QED BY <1>1, AppInvariance, PTL
=============================================================================
