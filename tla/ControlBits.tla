---------------------------- MODULE ControlBits ----------------------------
(***************************************************************************)
(* What the sysfs attributes of the cnccontroller promise: storing to an   *)
(* attribute sets or clears the one control bit it names, at one instant   *)
(* between the call and its return, and no other bit.                      *)
(***************************************************************************)
CONSTANTS
  Procs,      \* threads that store to the attributes
  Bits,       \* the bits of the control register
  Stores      \* the requests: records [bit, on]

VARIABLES
  bits,       \* the control bits that are set
  call        \* each thread's call: "none", "called", or "done" before its return

vars == <<bits, call>>

Applied(s, r) == IF r.on THEN s \cup {r.bit} ELSE s \ {r.bit}

Init ==
  /\ bits \in SUBSET Bits
  /\ call = [p \in Procs |-> "none"]

Call(p) ==
  /\ call[p] = "none"
  /\ call' = [call EXCEPT ![p] = "called"]
  /\ UNCHANGED bits

Apply(p, r) ==
  /\ call[p] = "called"
  /\ bits' = Applied(bits, r)
  /\ call' = [call EXCEPT ![p] = "done"]

Return(p) ==
  /\ call[p] = "done"
  /\ call' = [call EXCEPT ![p] = "none"]
  /\ UNCHANGED bits

Next ==
  \E p \in Procs : Call(p) \/ (\E r \in Stores : Apply(p, r)) \/ Return(p)

Spec == Init /\ [][Next]_vars
=============================================================================
