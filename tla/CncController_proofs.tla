----------------------- MODULE CncController_proofs -----------------------
(***************************************************************************)
(* Proofs about CncController, for any number of threads and any control   *)
(* bits: the read-modify-write of a store is never stale, and concurrent   *)
(* stores implement the atomic stores of ControlBits.                      *)
(***************************************************************************)
EXTENDS CncController, TLAPS

\* The mutex is held by the thread that is inside the critical section.
MutexOK ==
  \A p \in Procs : at[p] \in {"read", "write", "unlock"} <=> ctrl_mutex = p

\* The inductive invariant.
IInv == TypeOK /\ MutexOK /\ ValueIsFresh

\* The initial state satisfies the invariant.
LEMMA InitStep == Init => IInv
  BY ProcAssumption DEF Init, IInv, TypeOK, MutexOK, ValueIsFresh

\* Every step preserves the invariant.
LEMMA NextStep == IInv /\ [Next]_vars => IInv'
  <1> SUFFICES ASSUME IInv, [Next]_vars PROVE IInv'
    OBVIOUS
  <1> USE ProcAssumption DEF IInv, TypeOK, MutexOK, ValueIsFresh, Goto
  <1>1. CASE UNCHANGED vars
    BY <1>1 DEF vars
  <1>2. ASSUME NEW p \in Procs, Store(p) PROVE IInv'
    BY <1>2 DEF Store
  <1>3. ASSUME NEW p \in Procs, Lock(p) PROVE IInv'
    BY <1>3 DEF Lock
  <1>4. ASSUME NEW p \in Procs, Read(p) PROVE IInv'
    BY <1>4 DEF Read
  <1>5. ASSUME NEW p \in Procs, NEW r \in Requests, Write(p, r) PROVE IInv'
    <2>1. ctrl_reg' \in SUBSET Bits
      BY <1>5 DEF Write, Requests, Bits
    <2>2. \A q \in Procs : at[q] = "write" => q = p
      BY <1>5 DEF Write
    <2> QED
      BY <1>5, <2>1, <2>2 DEF Write
  <1>6. ASSUME NEW p \in Procs, Unlock(p) PROVE IInv'
    BY <1>6 DEF Unlock
  <1> QED
    BY <1>1, <1>2, <1>3, <1>4, <1>5, <1>6 DEF Next, StoreStep

\* Between the read and the write of a store nothing else is written: the
\* read-modify-write under ctrl_mutex never works on a stale value.
THEOREM NoStaleWrite == Spec => []ValueIsFresh
  <1>1. IInv => ValueIsFresh
    BY DEF IInv
  <1> QED
    BY <1>1, InitStep, NextStep, PTL DEF Spec

-----------------------------------------------------------------------------
\* What a step that moves thread p does to the calls of the abstraction.
LEMMA PendingMoves ==
  ASSUME TypeOK, NEW p \in Procs, NEW l, Goto(p, l)
  PROVE  Pending' = [Pending EXCEPT ![p] =
           CASE l = "idle" -> "none" [] l = "unlock" -> "done" [] OTHER -> "called"]
  BY DEF TypeOK, Goto, Pending

\* Concurrent stores to the attributes act one at a time, each on the bit it
\* names and no other, and none is lost (reset_store, stop_clear_store,
\* stop_reset_store, enable_reverse_store).
THEOREM StoresImplementBits == Spec => StoresAreAtomic
  <1>1. Init => Control!Init
    BY DEF Init, Control!Init, Pending
  <1>2. IInv /\ [Next]_vars => [Control!Next]_Control!vars
    <2> SUFFICES ASSUME IInv, [Next]_vars PROVE [Control!Next]_Control!vars
      OBVIOUS
    <2> USE DEF IInv
    <2>1. CASE UNCHANGED vars
      BY <2>1 DEF vars, Control!vars, Pending
    <2>2. ASSUME NEW p \in Procs, Store(p) PROVE Control!Call(p)
      <3>1. Pending[p] = "none" /\ Pending' = [Pending EXCEPT ![p] = "called"]
        BY <2>2, PendingMoves DEF Store, Pending
      <3> QED
        BY <2>2, <3>1 DEF Store, Control!Call
    <2>3. ASSUME NEW p \in Procs, Lock(p) \/ Read(p) PROVE UNCHANGED Control!vars
      <3>1. Pending' = [Pending EXCEPT ![p] = "called"] /\ Pending[p] = "called"
        BY <2>3, PendingMoves DEF Lock, Read, Pending
      <3>2. Pending' = Pending
        BY <3>1 DEF Pending
      <3> QED
        BY <2>3, <3>2 DEF Lock, Read, Control!vars
    <2>4. ASSUME NEW p \in Procs, NEW r \in Requests, Write(p, r)
          PROVE  Control!Apply(p, r)
      <3>1. Pending[p] = "called" /\ Pending' = [Pending EXCEPT ![p] = "done"]
        BY <2>4, PendingMoves DEF Write, Pending
      <3>2. ctrl_reg' = Control!Applied(ctrl_reg, r)
        BY <2>4 DEF Write, ValueIsFresh, Control!Applied
      <3> QED
        BY <3>1, <3>2 DEF Control!Apply
    <2>5. ASSUME NEW p \in Procs, Unlock(p) PROVE Control!Return(p)
      <3>1. Pending[p] = "done" /\ Pending' = [Pending EXCEPT ![p] = "none"]
        BY <2>5, PendingMoves DEF Unlock, Pending
      <3> QED
        BY <2>5, <3>1 DEF Unlock, Control!Return
    <2> QED
      BY <2>1, <2>2, <2>3, <2>4, <2>5 DEF Next, StoreStep, Control!Next
  <1> QED
    BY <1>1, <1>2, InitStep, NextStep, PTL
    DEF Spec, StoresAreAtomic, Control!Spec
=============================================================================
