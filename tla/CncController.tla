--------------------------- MODULE CncController ---------------------------
(***************************************************************************)
(* The cnccontroller driver (recipes-modules/cnccontroller/files/          *)
(* cnccontroller.c) between its probe and its remove.  Four write-only     *)
(* sysfs attributes (reset, stop_clear, stop_reset, enable_reverse) each   *)
(* set or clear one bit of the control register: the register is read,     *)
(* changed and written back under ctrl_mutex.  Storing "1" sets the bit,   *)
(* storing anything else clears it.                                        *)
(*                                                                         *)
(* The register is the set of its bits that are 1.  It is a plain register *)
(* of the CNC control block: it holds what was last written to it.         *)
(***************************************************************************)
CONSTANTS
  Procs,      \* threads that store to the attributes
  None,       \* ctrl_mutex is not held
  Attrs,      \* the bits of the four attributes
  Reserved    \* the other bits of the register

ASSUME ProcAssumption == None \notin Procs
ASSUME BitAssumption == Attrs \cap Reserved = {}

VARIABLES
  ctrl_mutex, \* the holder of ctrl_mutex, or None
  ctrl_reg,   \* the control register
  at,         \* where each thread is in a store
  regvalue    \* each thread's local of that name

vars == <<ctrl_mutex, ctrl_reg, at, regvalue>>

Bits     == Attrs \cup Reserved
Requests == [bit : Attrs, on : BOOLEAN]

Goto(p, label) == at' = [at EXCEPT ![p] = label]

Init ==
  /\ ctrl_mutex = None
  /\ ctrl_reg \in SUBSET Bits
  /\ at = [p \in Procs |-> "idle"]
  /\ regvalue = [p \in Procs |-> {}]

\* A thread stores to an attribute; it waits for the mutex.
Store(p) ==
  /\ at[p] = "idle"
  /\ Goto(p, "lock")
  /\ UNCHANGED <<ctrl_mutex, ctrl_reg, regvalue>>

\* Defect: the mutex is not waited for.
Lock_NoMutex(p) ==
  /\ at[p] = "lock"
  /\ ctrl_mutex' = p
  /\ Goto(p, "read")
  /\ UNCHANGED <<ctrl_reg, regvalue>>

Lock(p) ==
  /\ at[p] = "lock"
  /\ ctrl_mutex = None
  /\ ctrl_mutex' = p
  /\ Goto(p, "read")
  /\ UNCHANGED <<ctrl_reg, regvalue>>

Read(p) ==
  /\ at[p] = "read"
  /\ regvalue' = [regvalue EXCEPT ![p] = ctrl_reg]
  /\ Goto(p, "write")
  /\ UNCHANGED <<ctrl_mutex, ctrl_reg>>

\* Defect: clearing writes the mask of the other attributes alone.
Write_ClearsReserved(p, r) ==
  /\ at[p] = "write"
  /\ \/ /\ r.on
        /\ ctrl_reg' = regvalue[p] \cup {r.bit}
     \/ /\ ~r.on
        /\ ctrl_reg' = (regvalue[p] \cap Attrs) \ {r.bit}
  /\ Goto(p, "unlock")
  /\ UNCHANGED <<ctrl_mutex, regvalue>>

\* The bit is changed in the value read, and the register is written.  Which
\* attribute it is and what is stored do not matter before.
Write(p, r) ==
  /\ at[p] = "write"
  /\ \/ /\ r.on
        /\ ctrl_reg' = regvalue[p] \cup {r.bit}
     \/ /\ ~r.on
        /\ ctrl_reg' = regvalue[p] \ {r.bit}
  /\ Goto(p, "unlock")
  /\ UNCHANGED <<ctrl_mutex, regvalue>>

\* Defect: an exit that keeps the mutex.
Unlock_Forgotten(p) ==
  /\ at[p] = "unlock"
  /\ regvalue' = [regvalue EXCEPT ![p] = {}]
  /\ Goto(p, "idle")
  /\ UNCHANGED <<ctrl_mutex, ctrl_reg>>

\* The mutex is released and the store returns.
Unlock(p) ==
  /\ at[p] = "unlock"
  /\ ctrl_mutex' = None
  /\ regvalue' = [regvalue EXCEPT ![p] = {}]
  /\ Goto(p, "idle")
  /\ UNCHANGED <<ctrl_reg>>

StoreStep(p) ==
  Lock(p) \/ Read(p) \/ (\E r \in Requests : Write(p, r)) \/ Unlock(p)

Next ==
  \E p \in Procs : Store(p) \/ StoreStep(p)

Spec == Init /\ [][Next]_vars

\* Threads run, and a mutex of the kernel is handed to its waiters in turn.
FairSpec ==
  Spec /\ \A p \in Procs : WF_vars(StoreStep(p)) /\ SF_vars(Lock(p))

-----------------------------------------------------------------------------
\* Every variable has its type.
TypeOK ==
  /\ ctrl_mutex \in Procs \cup {None}
  /\ ctrl_reg \in SUBSET Bits
  /\ at \in [Procs -> {"idle", "lock", "read", "write", "unlock"}]
  /\ regvalue \in [Procs -> SUBSET Bits]

\* The value a store is about to change is the register's, not a stale one:
\* no other store can have come between the read and the write.
ValueIsFresh == \A p \in Procs : at[p] = "write" => regvalue[p] = ctrl_reg

\* A call not yet applied is pending; one applied and not returned is done.
Pending ==
  [p \in Procs |-> CASE at[p] = "idle" -> "none"
                     [] at[p] = "unlock" -> "done"
                     [] OTHER -> "called"]

Control == INSTANCE ControlBits WITH
             bits <- ctrl_reg, call <- Pending, Stores <- Requests

\* Concurrent stores to the attributes act one at a time, each on its bit
\* only, and none is lost.
StoresAreAtomic == Control!Spec

\* A store returns, however many others there are.
StoreReturns == \A p \in Procs : at[p] = "lock" ~> at[p] = "idle"
=============================================================================
