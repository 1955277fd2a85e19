----------------------------- MODULE AxiDmaOut -----------------------------
(***************************************************************************)
(* The axidmaout driver (recipes-modules/axidmaout/files/axidmaout.c)      *)
(* between its probe and its remove: the write and poll file operations,   *)
(* the write_dma sysfs attribute and the DMA-complete tasklet, which fill  *)
(* and send two buffers in turn.                                           *)
(*                                                                         *)
(* Threads of a process context (Procs) and the tasklet run concurrently.  *)
(* A step is a stretch of code between two points where another thread     *)
(* can observe or disturb it: a critical section of buff_ctrl_lock is one  *)
(* step, buff_ctrl_mutex is held over several, and setup_DMA_transfer,     *)
(* which runs under neither, is three steps.  The DMA engine and the poll  *)
(* machinery of the kernel are modelled from how the driver uses them.     *)
(*                                                                         *)
(* Byte k accepted from user space is the number k, so that what reaches   *)
(* the stream can be compared with what was written.                       *)
(***************************************************************************)
EXTENDS Integers, Sequences, FiniteSets

CONSTANTS
  Procs,       \* threads that call write, poll or the sysfs attribute
  Tasklet,     \* the DMA engine's tasklet, which runs tx_transfer_complete
  None,        \* buff_ctrl_mutex is not held
  BufSize,     \* DMA_U8_SIZE
  Align,       \* the 64 of setup_DMA_transfer
  MaxBytes,    \* bound: bytes accepted in one behaviour
  DmaMayFail   \* may the DMA engine report an error?

ASSUME ThreadAssumption == Tasklet \notin Procs /\ None \notin Procs
ASSUME SizeAssumption ==
  /\ BufSize \in Nat \ {0}
  /\ Align \in Nat \ {0}
  /\ BufSize % Align = 0
ASSUME BoundAssumption == MaxBytes \in Nat /\ DmaMayFail \in BOOLEAN

VARIABLES
  mutex,               \* the holder of buff_ctrl_mutex, or None
  buffers,             \* contents of the two DMA buffers
  pos,                 \* fill level of the buffer being filled
  next_buff_count,     \* bytes in the buffer that waits for the callback
  DMA_active_buffer,   \* the buffer a transfer is claimed for, or -1
  Fill_buffer,         \* the buffer being filled
  txcookie,            \* cookie of the last descriptor submitted
  pc,                  \* where each thread is
  bufnumber,           \* each thread's local of that name
  count,               \* each thread's count: request, result, or setup argument
  dma_data,            \* each thread's flag: it claimed a transfer to set up
  submitted,           \* descriptors submitted to the engine, not issued
  issued,              \* descriptors the engine works on
  completed,           \* the engine's last completed cookie
  callbacks,           \* cookies whose callback is due
  halted,              \* the engine stopped on an error
  wait_queue,          \* threads registered on wait_queue_poll_data
  triggered,           \* of those, the ones a wake_up reached
  accepted,            \* bytes copied from user space so far
  sent,                \* bytes sent so far, padding not counted
  burst                \* the last burst on the stream

shared   == <<mutex, buffers, pos, next_buff_count, DMA_active_buffer,
              Fill_buffer, txcookie>>
locals   == <<pc, bufnumber, count, dma_data>>
engine   == <<submitted, issued, completed, callbacks, halted>>
waiters  == <<wait_queue, triggered>>
stream   == <<accepted, sent, burst>>
vars     == <<shared, locals, engine, waiters, stream>>

Threads == Procs \cup {Tasklet}
Bufs    == 0 .. 1
Slots   == 0 .. BufSize - 1

EAGAIN == -11
ENOMEM == -12
EFAULT == -14
EINVAL == -22

\* What a failed copy_from_user leaves behind: bytes user space never wrote.
Junk == -1

Lesser(m, n) == IF m < n THEN m ELSE n

\* Defect: the wrap is forgotten.
NextBuf_NoWrap(b) == b + 1

\* Fill_buffer++ and DMA_active_buffer++ with the wrap after the last buffer.
NextBuf(b) == IF b + 1 > 1 THEN 0 ELSE b + 1

\* aligned_count of setup_DMA_transfer: round down, then up if bytes remain.
AlignedCount(n) ==
  LET down == (n \div Align) * Align
  IN  IF n # down /\ down < BufSize THEN down + Align ELSE down

Init ==
  /\ mutex = None
  /\ buffers = [b \in Bufs |-> [i \in Slots |-> 0]]
  /\ pos = 0
  /\ next_buff_count = 0
  /\ DMA_active_buffer = -1
  /\ Fill_buffer = 0
  /\ txcookie = 0
  /\ pc = [t \in Threads |-> "idle"]
  /\ bufnumber = [t \in Threads |-> 0]
  /\ count = [t \in Threads |-> 0]
  /\ dma_data = [t \in Threads |-> FALSE]
  /\ submitted = {}
  /\ issued = {}
  /\ completed = 0
  /\ callbacks = {}
  /\ halted = FALSE
  /\ wait_queue = {}
  /\ triggered = {}
  /\ accepted = 0
  /\ sent = 0
  /\ burst = << >>

Goto(t, label) == pc' = [pc EXCEPT ![t] = label]

\* The locals of a thread go when its function returns.
Forget(t) ==
  /\ bufnumber' = [bufnumber EXCEPT ![t] = 0]
  /\ count' = [count EXCEPT ![t] = 0]
  /\ dma_data' = [dma_data EXCEPT ![t] = FALSE]

-----------------------------------------------------------------------------
(* dma_write *)

\* A thread calls write(2) with n bytes and gets the mutex.
WriteLock(p, n) ==
  /\ pc[p] = "idle"
  /\ mutex = None
  /\ mutex' = p
  /\ count' = [count EXCEPT ![p] = n]
  /\ Goto(p, "check")
  /\ UNCHANGED <<buffers, pos, next_buff_count, DMA_active_buffer, Fill_buffer,
                 txcookie, bufnumber, dma_data, engine, waiters, stream>>

\* Defect: a busy buffer is written to.
WriteCheck_IgnoresBusy(p) ==
  /\ pc[p] = "check"
  /\ bufnumber' = [bufnumber EXCEPT ![p] = Fill_buffer]
  /\ Goto(p, "copy")
  /\ UNCHANGED <<shared, count, dma_data, engine, waiters, stream>>

\* Both indices are read under the spinlock; a busy buffer refuses the write.
WriteCheck(p) ==
  /\ pc[p] = "check"
  /\ bufnumber' = [bufnumber EXCEPT ![p] = Fill_buffer]
  /\ \/ /\ Fill_buffer # DMA_active_buffer
        /\ Goto(p, "copy")
        /\ UNCHANGED count
     \/ /\ Fill_buffer = DMA_active_buffer
        /\ Goto(p, "unlock")
        /\ count' = [count EXCEPT ![p] = 0]
  /\ UNCHANGED <<shared, dma_data, engine, waiters, stream>>

\* The request clamped to the room left in the buffer.
Room(p) == Lesser(count[p], BufSize - pos)

\* The n slots of p's buffer from pos on take the values of f.
Store(p, n, f) ==
  buffers' = [buffers EXCEPT ![bufnumber[p]] =
                [i \in Slots |-> IF pos <= i /\ i < pos + n THEN f[i] ELSE @[i]]]

CopyDone(p) ==
  LET n == Room(p)
  IN  /\ n > 0
      /\ accepted + n <= MaxBytes
      /\ Store(p, n, [i \in Slots |-> accepted + 1 + i - pos])
      /\ pos' = pos + n
      /\ accepted' = accepted + n
      /\ count' = [count EXCEPT ![p] = n]
      /\ Goto(p, "queue")

CopyFault(p) ==
  /\ Room(p) > 0
  /\ Store(p, Room(p), [i \in Slots |-> Junk])
  /\ count' = [count EXCEPT ![p] = EFAULT]
  /\ Goto(p, "unlock")
  /\ UNCHANGED <<pos, accepted>>

CopyNothing(p) ==
  /\ Room(p) = 0
  /\ count' = [count EXCEPT ![p] = ENOMEM]
  /\ Goto(p, "unlock")
  /\ UNCHANGED <<buffers, pos, accepted>>

\* Clamp, copy_from_user into the buffer read at the check, advance pos.
WriteCopy(p) ==
  /\ pc[p] = "copy"
  /\ CopyDone(p) \/ CopyFault(p) \/ CopyNothing(p)
  /\ UNCHANGED <<mutex, next_buff_count, DMA_active_buffer, Fill_buffer,
                 txcookie, bufnumber, dma_data, engine, waiters, sent, burst>>

\* Defect: the transfer is claimed although another is pending.
HandOver_AlwaysClaims(p, b, n) ==
  /\ dma_data' = [dma_data EXCEPT ![p] = TRUE]
  /\ DMA_active_buffer' = b
  /\ next_buff_count' = n
  /\ Fill_buffer' = NextBuf(Fill_buffer)
  /\ pos' = 0
  /\ count' = [count EXCEPT ![p] = n]

\* The n bytes of buffer b are handed over: claimed by p if no transfer is
\* pending, left for the callback otherwise; filling moves to the next buffer.
HandOver(p, b, n) ==
  /\ dma_data' = [dma_data EXCEPT ![p] = (DMA_active_buffer = -1)]
  /\ DMA_active_buffer' = IF DMA_active_buffer = -1 THEN b ELSE DMA_active_buffer
  /\ next_buff_count' = n
  /\ Fill_buffer' = NextBuf(Fill_buffer)
  /\ pos' = 0
  /\ count' = [count EXCEPT ![p] = n]

\* Defect: > for >=, a buffer filled exactly is not handed over.
WriteQueue_OffByOne(p) ==
  /\ pc[p] = "queue"
  /\ pos <= BufSize
  /\ Goto(p, "unlock")
  /\ UNCHANGED <<shared, bufnumber, count, dma_data, engine, waiters, stream>>

\* The second critical section of dma_write.
WriteQueue(p) ==
  /\ pc[p] = "queue"
  /\ \/ /\ pos >= BufSize
        /\ HandOver(p, bufnumber[p], BufSize)
     \/ /\ pos < BufSize
        /\ UNCHANGED <<dma_data, DMA_active_buffer, next_buff_count,
                       Fill_buffer, pos, count>>
  /\ Goto(p, "unlock")
  /\ UNCHANGED <<mutex, buffers, txcookie, bufnumber, engine, waiters, stream>>

-----------------------------------------------------------------------------
(* write_dma_store *)

\* A thread writes 1 to the write_dma attribute and gets the mutex.
FlushLock(p) ==
  /\ pc[p] = "idle"
  /\ mutex = None
  /\ mutex' = p
  /\ Goto(p, "flush")
  /\ UNCHANGED <<buffers, pos, next_buff_count, DMA_active_buffer, Fill_buffer,
                 txcookie, bufnumber, count, dma_data, engine, waiters, stream>>

\* Hand over the part-filled buffer; pos is stable, the mutex protects it.
Flush(p) ==
  /\ pc[p] = "flush"
  /\ bufnumber' = [bufnumber EXCEPT ![p] = Fill_buffer]
  /\ \/ /\ pos # 0
        /\ Fill_buffer # DMA_active_buffer
        /\ HandOver(p, Fill_buffer, pos)
     \/ /\ pos # 0
        /\ Fill_buffer = DMA_active_buffer
        /\ count' = [count EXCEPT ![p] = EAGAIN]
        /\ UNCHANGED <<dma_data, DMA_active_buffer, next_buff_count,
                       Fill_buffer, pos>>
     \/ /\ pos = 0
        /\ count' = [count EXCEPT ![p] = EINVAL]
        /\ UNCHANGED <<dma_data, DMA_active_buffer, next_buff_count,
                       Fill_buffer, pos>>
  /\ Goto(p, "unlock")
  /\ UNCHANGED <<mutex, buffers, txcookie, engine, waiters, stream>>

\* mutex_unlock, the common exit of dma_write and write_dma_store.
Unlock(p) ==
  /\ pc[p] = "unlock"
  /\ mutex' = None
  /\ \/ /\ dma_data[p]
        /\ Goto(p, "pad")
        /\ UNCHANGED <<bufnumber, count, dma_data>>
     \/ /\ ~dma_data[p]
        /\ Goto(p, "idle")
        /\ Forget(p)
  /\ UNCHANGED <<buffers, pos, next_buff_count, DMA_active_buffer, Fill_buffer,
                 txcookie, engine, waiters, stream>>

-----------------------------------------------------------------------------
(* setup_DMA_transfer, run by the thread that claimed the transfer, with no
   lock held *)

\* Zero the bytes between the count and the aligned count.
Pad(t) ==
  /\ pc[t] = "pad"
  /\ buffers' = [buffers EXCEPT ![bufnumber[t]] =
                   [i \in Slots |->
                      IF count[t] <= i /\ i < AlignedCount(count[t])
                      THEN 0 ELSE @[i]]]
  /\ Goto(t, "submit")
  /\ UNCHANGED <<mutex, pos, next_buff_count, DMA_active_buffer, Fill_buffer,
                 txcookie, bufnumber, count, dma_data, engine, waiters, stream>>

\* Prepare a descriptor for the aligned count and submit it.
Submit(t) ==
  /\ pc[t] = "submit"
  /\ txcookie' = txcookie + 1
  /\ submitted' = submitted \cup
       {[cookie |-> txcookie + 1, buf |-> bufnumber[t],
         len |-> AlignedCount(count[t]), bytes |-> count[t]]}
  /\ Goto(t, "issue")
  /\ UNCHANGED <<mutex, buffers, pos, next_buff_count, DMA_active_buffer,
                 Fill_buffer, bufnumber, count, dma_data, issued, completed,
                 callbacks, halted, waiters, stream>>

\* Defect: the callback wakes pollers only when it queued nothing.
Issue_NoWake(t) ==
  /\ pc[t] = "issue"
  /\ issued' = issued \cup submitted
  /\ submitted' = {}
  /\ Forget(t)
  /\ Goto(t, "idle")
  /\ UNCHANGED <<shared, completed, callbacks, halted, waiters, stream>>

\* dma_async_issue_pending starts whatever was submitted.
Issue(t) ==
  /\ pc[t] = "issue"
  /\ issued' = issued \cup submitted
  /\ submitted' = {}
  /\ Forget(t)
  /\ Goto(t, IF t = Tasklet THEN "wake" ELSE "idle")
  /\ UNCHANGED <<shared, completed, callbacks, halted, waiters, stream>>

-----------------------------------------------------------------------------
(* tx_transfer_complete *)

\* The engine's tasklet runs the callback, which first asks for the status.
CallbackStatus ==
  /\ pc[Tasklet] = "idle"
  /\ \E c \in callbacks : callbacks' = callbacks \ {c}
  /\ Goto(Tasklet, IF txcookie <= completed THEN "claim" ELSE "idle")
  /\ UNCHANGED <<shared, bufnumber, count, dma_data, submitted, issued,
                 completed, halted, waiters, stream>>

\* Defect: the waiting buffer is sent as a full one.
CallbackClaim_FullCount ==
  /\ pc[Tasklet] = "claim"
  /\ \/ /\ Fill_buffer = DMA_active_buffer
        /\ DMA_active_buffer' = NextBuf(DMA_active_buffer)
        /\ bufnumber' = [bufnumber EXCEPT ![Tasklet] = NextBuf(DMA_active_buffer)]
        /\ dma_data' = [dma_data EXCEPT ![Tasklet] = TRUE]
        /\ count' = [count EXCEPT ![Tasklet] = BufSize]
        /\ Goto(Tasklet, "pad")
     \/ /\ Fill_buffer # DMA_active_buffer
        /\ DMA_active_buffer' = -1
        /\ Goto(Tasklet, "wake")
        /\ UNCHANGED <<bufnumber, dma_data, count>>
  /\ UNCHANGED <<mutex, buffers, pos, next_buff_count, Fill_buffer, txcookie,
                 engine, waiters, stream>>

\* Defect: the waiting buffer is forgotten.
CallbackClaim_Releases ==
  /\ pc[Tasklet] = "claim"
  /\ DMA_active_buffer' = -1
  /\ Goto(Tasklet, "wake")
  /\ UNCHANGED <<mutex, buffers, pos, next_buff_count, Fill_buffer, txcookie,
                 bufnumber, dma_data, count, engine, waiters, stream>>

\* The callback's critical section: claim the waiting buffer or release.
CallbackClaim ==
  /\ pc[Tasklet] = "claim"
  /\ \/ /\ Fill_buffer = DMA_active_buffer
        /\ DMA_active_buffer' = NextBuf(DMA_active_buffer)
        /\ bufnumber' = [bufnumber EXCEPT ![Tasklet] = NextBuf(DMA_active_buffer)]
        /\ dma_data' = [dma_data EXCEPT ![Tasklet] = TRUE]
        /\ count' = [count EXCEPT ![Tasklet] = next_buff_count]
        /\ Goto(Tasklet, "pad")
     \/ /\ Fill_buffer # DMA_active_buffer
        /\ DMA_active_buffer' = -1
        /\ Goto(Tasklet, "wake")
        /\ UNCHANGED <<bufnumber, dma_data, count>>
  /\ UNCHANGED <<mutex, buffers, pos, next_buff_count, Fill_buffer, txcookie,
                 engine, waiters, stream>>

\* Defect: an exclusive wake-up, which reaches one thread only.
CallbackWake_One ==
  /\ pc[Tasklet] = "wake"
  /\ IF wait_queue = {} THEN UNCHANGED triggered
     ELSE triggered' = triggered \cup {CHOOSE p \in wait_queue : TRUE}
  /\ Goto(Tasklet, "idle")
  /\ UNCHANGED <<shared, bufnumber, count, dma_data, engine, wait_queue, stream>>

\* wake_up reaches every thread registered on the wait queue.
CallbackWake ==
  /\ pc[Tasklet] = "wake"
  /\ triggered' = triggered \cup wait_queue
  /\ Goto(Tasklet, "idle")
  /\ UNCHANGED <<shared, bufnumber, count, dma_data, engine, wait_queue, stream>>

-----------------------------------------------------------------------------
(* dma_poll, and the loop of poll(2) around it *)

\* poll(2) calls dma_poll, whose poll_wait registers the thread.
PollWait(p) ==
  /\ pc[p] = "idle"
  /\ wait_queue' = wait_queue \cup {p}
  /\ Goto(p, "poll")
  /\ UNCHANGED <<shared, bufnumber, count, dma_data, engine, triggered, stream>>

\* poll(2) returns: the thread leaves the wait queue.
PollReturn(p) ==
  /\ Goto(p, "idle")
  /\ wait_queue' = wait_queue \ {p}
  /\ triggered' = triggered \ {p}

\* The check under the spinlock: POLLOUT, or nothing and poll(2) sleeps.
PollCheck(p) ==
  /\ pc[p] = "poll"
  /\ \/ /\ Fill_buffer # DMA_active_buffer
        /\ PollReturn(p)
     \/ /\ Fill_buffer = DMA_active_buffer
        /\ Goto(p, "sleep")
        /\ UNCHANGED waiters
  /\ UNCHANGED <<shared, bufnumber, count, dma_data, engine, stream>>

\* A sleeping thread that was woken checks again.
PollAgain(p) ==
  /\ pc[p] = "sleep"
  /\ p \in triggered
  /\ triggered' = triggered \ {p}
  /\ Goto(p, "poll")
  /\ UNCHANGED <<shared, bufnumber, count, dma_data, engine, wait_queue, stream>>

\* The timeout given to poll(2) expires first.
PollTimeout(p) ==
  /\ pc[p] = "sleep"
  /\ PollReturn(p)
  /\ UNCHANGED <<shared, bufnumber, count, dma_data, engine, stream>>

-----------------------------------------------------------------------------
(* The DMA engine: it serves issued descriptors in the order of their cookies *)

Oldest(d) == \A e \in issued : d.cookie <= e.cookie

\* A transfer completes: the burst is on the stream, the callback is due.
HwTransfer ==
  /\ ~halted
  /\ \E d \in issued :
       /\ Oldest(d)
       /\ issued' = issued \ {d}
       /\ completed' = d.cookie
       /\ callbacks' = callbacks \cup {d.cookie}
       /\ burst' = [i \in 0 .. d.len - 1 |-> buffers[d.buf][i]]
       /\ sent' = sent + d.bytes
  /\ UNCHANGED <<shared, locals, submitted, halted, waiters, accepted>>

\* A transfer fails: the engine halts and keeps the descriptor; its callback
\* is due all the same, and will find no completion.
HwFail ==
  /\ DmaMayFail
  /\ ~halted
  /\ \E d \in issued :
       /\ Oldest(d)
       /\ callbacks' = callbacks \cup {d.cookie}
  /\ halted' = TRUE
  /\ UNCHANGED <<shared, locals, submitted, issued, completed, waiters, stream>>

-----------------------------------------------------------------------------
SetupStep(t) == Pad(t) \/ Submit(t) \/ Issue(t)

\* A call of user space; nothing obliges it to make one.
Call(p) ==
  \/ \E n \in 0 .. BufSize + 1 : WriteLock(p, n)
  \/ FlushLock(p)
  \/ PollWait(p)

\* A step of a call under way.
ProcStep(p) ==
  \/ WriteCheck(p) \/ WriteCopy(p) \/ WriteQueue(p)
  \/ Flush(p) \/ Unlock(p) \/ SetupStep(p)
  \/ PollCheck(p) \/ PollAgain(p)

TaskletStep ==
  CallbackStatus \/ CallbackClaim \/ SetupStep(Tasklet) \/ CallbackWake

Next ==
  \/ \E p \in Procs : Call(p) \/ ProcStep(p) \/ PollTimeout(p)
  \/ TaskletStep
  \/ HwTransfer \/ HwFail

\* The scheduler runs every runnable thread, softirqs are not starved and a
\* transfer the engine started ends.  No timeout is relied upon.
Fairness ==
  /\ \A p \in Procs : WF_vars(ProcStep(p))
  /\ WF_vars(TaskletStep)
  /\ WF_vars(HwTransfer)

Spec == Init /\ [][Next]_vars
FairSpec == Spec /\ Fairness
-----------------------------------------------------------------------------
(* Types *)

Descriptors == [cookie : Nat \ {0}, buf : Bufs, len : 1 .. BufSize,
                bytes : 1 .. BufSize]

ProcLabels    == {"idle", "check", "copy", "queue", "flush", "unlock",
                  "pad", "submit", "issue", "poll", "sleep"}
TaskletLabels == {"idle", "claim", "pad", "submit", "issue", "wake"}

\* Every variable has its type; a transfer is never longer than a buffer.
TypeOK ==
  /\ mutex \in Procs \cup {None}
  /\ buffers \in [Bufs -> [Slots -> Int]]
  /\ pos \in 0 .. BufSize
  /\ next_buff_count \in 0 .. BufSize
  /\ DMA_active_buffer \in Bufs \cup {-1}
  /\ Fill_buffer \in Bufs
  /\ txcookie \in Nat
  /\ pc \in [Threads -> ProcLabels \cup TaskletLabels]
  /\ \A p \in Procs : pc[p] \in ProcLabels
  /\ pc[Tasklet] \in TaskletLabels
  /\ bufnumber \in [Threads -> Bufs]
  /\ count \in [Threads -> Int]
  /\ dma_data \in [Threads -> BOOLEAN]
  /\ submitted \subseteq Descriptors
  /\ issued \subseteq Descriptors
  /\ completed \in Nat
  /\ callbacks \subseteq Nat
  /\ halted \in BOOLEAN
  /\ wait_queue \subseteq Procs
  /\ triggered \subseteq wait_queue
  /\ accepted \in Nat
  /\ sent \in Nat

-----------------------------------------------------------------------------
(* The life of a transfer: DMA_active_buffer is a claim on the one transfer
   there may be, and it is in exactly one of these stages. *)

SettingUp == {t \in Threads : dma_data[t]}

\* Nothing is claimed and the engine has nothing to do.
Free ==
  /\ DMA_active_buffer = -1
  /\ SettingUp = {}
  /\ submitted = {} /\ issued = {} /\ callbacks = {}
  /\ pc[Tasklet] # "claim"
  /\ completed = txcookie /\ ~halted

\* Thread t has claimed the buffer and not yet issued its transfer.
Claimed(t) ==
  /\ SettingUp = {t}
  /\ DMA_active_buffer = bufnumber[t]
  /\ count[t] \in 1 .. BufSize
  /\ pc[t] \in {"unlock", "pad", "submit", "issue"}
  /\ pc[Tasklet] # "claim"
  /\ IF pc[t] = "issue"
     THEN /\ submitted = {[cookie |-> txcookie, buf |-> bufnumber[t],
                           len |-> AlignedCount(count[t]), bytes |-> count[t]]}
          /\ completed = txcookie - 1
     ELSE submitted = {} /\ completed = txcookie
  /\ issued = {} /\ callbacks = {} /\ ~halted

\* The engine has the transfer d; if it halted, it will keep it.
InFlight(d) ==
  /\ issued = {d}
  /\ d.cookie = txcookie
  /\ d.buf = DMA_active_buffer
  /\ d.len = AlignedCount(d.bytes)
  /\ SettingUp = {} /\ submitted = {}
  /\ pc[Tasklet] # "claim"
  /\ completed = txcookie - 1
  /\ callbacks = {} \/ (halted /\ callbacks = {txcookie})

\* The transfer is over and its callback will release or pass on the claim.
Completing ==
  /\ DMA_active_buffer # -1
  /\ SettingUp = {} /\ submitted = {} /\ issued = {}
  /\ \/ callbacks = {txcookie} /\ pc[Tasklet] # "claim"
     \/ callbacks = {} /\ pc[Tasklet] = "claim"
  /\ completed = txcookie /\ ~halted

\* At most one transfer exists, whoever fills, flushes and completes: it is
\* claimed, set up, in flight and completed by turns, always for the buffer
\* DMA_active_buffer (dma_write and write_dma_store claim, the callback
\* passes on), and a callback always finds the cookie it is about.
OneTransfer ==
  \/ Free
  \/ \E t \in Threads : Claimed(t)
  \/ \E d \in issued : InFlight(d)
  \/ Completing

-----------------------------------------------------------------------------
(* Filling *)

InMutex(p) == pc[p] \in {"check", "copy", "queue", "flush", "unlock"}

\* The index read at the check of dma_write, outside the spinlock since, is
\* still that of the filling buffer when the copy starts and when the buffer is
\* handed over, and the buffer is not the engine's at either time.
FillerOwnsBuffer ==
  \A p \in Procs : pc[p] \in {"copy", "queue"} =>
    /\ mutex = p
    /\ bufnumber[p] = Fill_buffer
    /\ Fill_buffer # DMA_active_buffer

\* Whoever takes the mutex finds room, so -ENOMEM answers empty writes only;
\* bytes are never kept in a busy buffer, so a flush never returns -EAGAIN.
FillPosition ==
  /\ pos = BufSize => \E p \in Procs : pc[p] = "queue"
  /\ pos > 0 => Fill_buffer # DMA_active_buffer

\* dma_write copies user data, and setup_DMA_transfer pads, without the
\* spinlock: no memory the engine may be reading changes under it.
BufferStable ==
  [][\A d \in issued \cup submitted : buffers'[d.buf] = buffers[d.buf]]_vars

-----------------------------------------------------------------------------
(* Polling *)

\* A thread asleep in poll(2) that no wake_up has reached sleeps for a reason:
\* the device is busy, or the callback that freed it is about to wake it.
NoLostWakeup ==
  \A p \in Procs : pc[p] = "sleep" /\ p \notin triggered =>
    \/ Fill_buffer = DMA_active_buffer
    \/ pc[Tasklet] \in {"pad", "submit", "issue", "wake"}

\* poll(2) does not rely on its timeout: a thread does not sleep for ever.
PollerWakes == \A p \in Procs : pc[p] = "sleep" ~> pc[p] # "sleep"

-----------------------------------------------------------------------------
(* What reaches the stream *)

\* The bursts handed over and not yet sent: the one of the claimed transfer
\* and the one that waits for the callback.
HandedOver ==
  LET first == {count[t] : t \in SettingUp} \cup {d.bytes : d \in issued}
  IN  (IF first = {} THEN << >> ELSE <<CHOOSE n \in first : TRUE>>)
        \o (IF Fill_buffer = DMA_active_buffer THEN <<next_buff_count>> ELSE << >>)

Stream == INSTANCE BurstStream WITH filling <- pos, queue <- HandedOver

\* The two buffers, the tasklet and the engine together behave as one stream:
\* no byte is lost, repeated, reordered or sent before it is complete.
StreamSafe == Stream!SafeSpec

\* ... and, while the engine does not fail, what is handed over is sent.
StreamLive == Stream!Spec

\* "lock so we can decide if we need to queue next dma buf or the callback
\* will" (axidmaout.c, dma_write): a buffer left for the callback is queued.
WaitingBufferQueued ==
  (Fill_buffer = DMA_active_buffer) ~> (Fill_buffer # DMA_active_buffer)
=============================================================================
