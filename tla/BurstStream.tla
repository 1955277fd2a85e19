---------------------------- MODULE BurstStream ----------------------------
(***************************************************************************)
(* What the axidmaout device promises its users, with no threads, locks,   *)
(* buffers or DMA engine: the bytes accepted by write(2) leave on the AXI  *)
(* stream once each and in order, cut into bursts.  A burst is handed over *)
(* when it is full or when user space flushes a part-filled one; at most   *)
(* two bursts are waiting or in flight; a burst is zero-padded to the      *)
(* alignment of the stream.                                                *)
(*                                                                         *)
(* Byte k of the stream is the number k; the padding byte is 0.            *)
(***************************************************************************)
EXTENDS Integers, Sequences

CONSTANTS
  BufSize,    \* bytes in the largest burst, a multiple of Align
  Align       \* a burst is a whole number of units of Align bytes

VARIABLES
  accepted,   \* bytes taken from user space so far
  filling,    \* of those, the ones not yet handed over
  queue,      \* the sizes of the bursts handed over and not yet sent
  sent,       \* bytes sent so far, padding not counted
  burst       \* the last burst on the stream

vars == <<accepted, filling, queue, sent, burst>>

\* A count rounded up to whole units of the stream.
Padded(n) == ((n + Align - 1) \div Align) * Align

\* The burst of the n bytes that follow byte `from`.
BurstOf(from, n) ==
  [i \in 0 .. Padded(n) - 1 |-> IF i < n THEN from + i + 1 ELSE 0]

Init ==
  /\ accepted = 0
  /\ filling = 0
  /\ queue = << >>
  /\ sent = 0
  /\ burst = << >>

\* write(2) takes n bytes into the burst being filled.
Accept(n) ==
  /\ Len(queue) < 2
  /\ filling + n <= BufSize
  /\ accepted' = accepted + n
  /\ filling' = filling + n
  /\ UNCHANGED <<queue, sent, burst>>

\* The burst being filled is handed over: it is full, or user space asked.
HandOver ==
  /\ Len(queue) < 2
  /\ filling > 0
  /\ queue' = Append(queue, filling)
  /\ filling' = 0
  /\ UNCHANGED <<accepted, sent, burst>>

\* The oldest burst handed over goes out, complete and in order.
Transmit ==
  /\ queue # << >>
  /\ burst' = BurstOf(sent, Head(queue))
  /\ sent' = sent + Head(queue)
  /\ queue' = Tail(queue)
  /\ UNCHANGED <<accepted, filling>>

Next == (\E n \in 1 .. BufSize : Accept(n)) \/ HandOver \/ Transmit

\* What was handed over is sent: a burst in the queue does not stay there.
Spec == Init /\ [][Next]_vars /\ WF_vars(Transmit)

\* The same promise without the liveness, for a DMA engine that may fail.
SafeSpec == Init /\ [][Next]_vars
=============================================================================
