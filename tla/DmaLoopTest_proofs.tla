------------------------- MODULE DmaLoopTest_proofs -------------------------
(***************************************************************************)
(* Proofs about DmaLoopTest: its verdicts are true, its buffers are freed  *)
(* in time and its timeouts are real, through any number of probes and     *)
(* whatever an earlier probe left in the completion objects.               *)
(***************************************************************************)
EXTENDS DmaLoopTest, TLAPS

Labels == {"setup", "submit", "init", "issue rx", "issue tx", "wait tx",
           "check tx", "wait rx", "check rx", "free", "bound"}
Verdicts == {"none", "timeout", "error", "complete"}
Statuses == {"none", "submitted", "issued", "complete", "error"}
Ended    == {"complete", "error"}

TypeOK ==
  /\ pc \in Labels
  /\ done \in [Channels -> Nat]
  /\ waited \in [Channels -> BOOLEAN]
  /\ verdict \in [Channels -> Verdicts]
  /\ rx_buf \in BOOLEAN
  /\ mapped \in BOOLEAN
  /\ status \in [Channels -> Statuses]
  /\ due \subseteq Channels

\* What the probe has done to a channel where it is.
Control ==
  /\ pc \in {"setup", "submit"} => \A c \in Channels : status[c] = "none"
  /\ pc \in {"init", "issue rx"} => \A c \in Channels : status[c] = "submitted"
  /\ pc = "issue tx" => status["tx"] = "submitted"
  /\ pc \in {"setup", "submit", "init", "issue rx", "issue tx", "wait tx"} =>
       ~waited["tx"] /\ verdict["tx"] = "none"
  /\ pc = "check tx" => verdict["tx"] = "none"
  /\ pc \notin {"check rx", "free", "bound"} => ~waited["rx"]
  /\ pc \notin {"free", "bound"} => verdict["rx"] = "none"

\* From its initialisation on, a completion object says what this probe's
\* transfer did: it is completed, about to be, or waited for, exactly if the
\* transfer has ended.
Current(c) ==
  /\ c \in due => status[c] \in Ended
  /\ pc \notin {"setup", "submit", "init"} =>
       ((done[c] > 0 \/ c \in due \/ waited[c]) <=> status[c] \in Ended)

\* What a verdict was given for.
Judged(c) ==
  /\ verdict[c] = "complete" => status[c] = "complete"
  /\ verdict[c] = "error" => status[c] = "error"

IInv ==
  /\ TypeOK /\ Control
  /\ \A c \in Channels : Current(c) /\ Judged(c)
  /\ status["rx"] = "complete" => rx_buf

-----------------------------------------------------------------------------
\* The driver starts in the invariant.
LEMMA InitStep == Init => IInv
  <1>1. Init => done \in [Channels -> Nat]
    BY DEF Init
  <1> QED
    BY <1>1 DEF Init, IInv, TypeOK, Control, Current, Judged, Channels, Labels,
                Verdicts, Statuses, Ended

\* What the three steps that change the completion objects make of them.
LEMMA InitCompletionsDone ==
  ASSUME TypeOK, InitCompletions
  PROVE  done' \in [Channels -> Nat] /\ \A d \in Channels : ~(done'[d] > 0)
  <1>1. done' \in [Channels -> Nat]
    BY DEF InitCompletions
  <1>2. \A d \in Channels : done'[d] = 0
    BY DEF InitCompletions
  <1>3. ~(0 > 0)
    OBVIOUS
  <1> QED
    BY <1>1, <1>2, <1>3, Zenon

\* A wait that ends takes one from its own completion object ...
LEMMA WaitDone ==
  ASSUME TypeOK, NEW c \in Channels, Wait(c)
  PROVE  /\ done' \in [Channels -> Nat] /\ done[c] > 0
         /\ \A d \in Channels \ {c} : done'[d] = done[d]
  BY DEF TypeOK, Wait

\* ... and a callback adds to its own.
LEMMA CallbackDone ==
  ASSUME TypeOK, NEW c \in Channels, Callback(c)
  PROVE  /\ done' \in [Channels -> Nat] /\ done'[c] > 0
         /\ \A d \in Channels \ {c} : done'[d] = done[d]
  BY DEF TypeOK, Callback

\* Each part of the probe, from its buffers to its removal.
LEMMA ProbeStep ==
  ASSUME IInv, Setup \/ Submit \/ InitCompletions \/ Free \/ Remove
  PROVE  IInv'
  <1> USE DEF IInv, TypeOK, Control, Current, Judged, Channels, Labels,
              Verdicts, Statuses, Ended, probe, engine
  <1>1. CASE Setup
    BY <1>1 DEF Setup
  <1>2. CASE Submit
    BY <1>2 DEF Submit
  <1>3. CASE InitCompletions
    <2>1. done' \in [Channels -> Nat] /\ \A d \in Channels : ~(done'[d] > 0)
      BY <1>3, InitCompletionsDone
    <2>2. /\ pc = "init" /\ pc' = "issue rx"
          /\ UNCHANGED <<waited, verdict, mapped, rx_buf, status, due>>
      BY <1>3 DEF InitCompletions
    <2>3. TypeOK' /\ Control'
      BY <2>1, <2>2
    <2>4. ASSUME NEW c \in Channels PROVE Current(c)' /\ Judged(c)'
      <3>1. status[c] = "submitted" /\ ~waited[c] /\ verdict[c] = "none"
        BY <2>2
      <3>2. c \notin due
        BY <3>1
      <3>3. ~(done'[c] > 0)
        BY <2>1
      <3>4. ~(done'[c] > 0 \/ c \in due' \/ waited'[c]) /\ status'[c] \notin Ended
        BY <2>2, <3>1, <3>2, <3>3
      <3> QED
        BY <2>2, <3>1, <3>2, <3>4
    <2> QED
      BY <2>2, <2>3, <2>4
  <1>4. CASE Free
    BY <1>4 DEF Free
  <1>5. CASE Remove
    BY <1>5 DEF Remove
  <1> QED
    BY <1>1, <1>2, <1>3, <1>4, <1>5

\* What the probe does to one of its channels.
LEMMA ChannelStep ==
  ASSUME IInv, NEW c \in Channels, Issue(c) \/ Wait(c) \/ TimeOut(c) \/ Judge(c)
  PROVE  IInv'
  <1> USE DEF IInv, TypeOK, Control, Current, Judged, Channels, Labels,
              Verdicts, Statuses, Ended, probe, engine
  <1>1. CASE Issue(c)
    BY <1>1 DEF Issue
  <1>2. CASE Wait(c)
    <2>1. /\ done' \in [Channels -> Nat] /\ done[c] > 0
          /\ \A d \in Channels \ {c} : done'[d] = done[d]
      BY <1>2, WaitDone
    <2>2. /\ waited' \in [Channels -> BOOLEAN] /\ waited'[c]
          /\ \A d \in Channels \ {c} : waited'[d] = waited[d]
      BY <1>2 DEF Wait
    <2>3. \/ c = "tx" /\ pc = "wait tx" /\ pc' = "check tx"
          \/ c = "rx" /\ pc = "wait rx" /\ pc' = "check rx"
      BY <1>2 DEF Wait, Waiting, Check
    <2>4. UNCHANGED <<verdict, mapped, engine>>
      BY <1>2 DEF Wait
    <2> QED
      BY <2>1, <2>2, <2>3, <2>4
  <1>3. CASE TimeOut(c)
    BY <1>3 DEF TimeOut, Waiting, Check
  <1>4. CASE Judge(c)
    BY <1>4 DEF Judge, Checking, Verdict
  <1> QED
    BY <1>1, <1>2, <1>3, <1>4

\* What the engine does to one of its transfers.
LEMMA EngineStep ==
  ASSUME IInv, NEW c \in Channels, Complete(c) \/ EngineError(c) \/ Callback(c)
  PROVE  IInv'
  <1> USE DEF IInv, TypeOK, Control, Current, Judged, Channels, Labels,
              Verdicts, Statuses, Ended, probe, engine
  <1>1. CASE Complete(c)
    BY <1>1 DEF Complete
  <1>2. CASE EngineError(c)
    BY <1>2 DEF EngineError
  <1>3. CASE Callback(c)
    <2>1. /\ done' \in [Channels -> Nat] /\ done'[c] > 0
          /\ \A d \in Channels \ {c} : done'[d] = done[d]
      BY <1>3, CallbackDone
    <2> QED
      BY <1>3, <2>1 DEF Callback
  <1> QED
    BY <1>1, <1>2, <1>3

\* Every step of the probe, of a channel and of the engine keeps it.
LEMMA NextStep == IInv /\ [Next]_vars => IInv'
  <1>1. ASSUME IInv, UNCHANGED vars PROVE IInv'
    BY <1>1 DEF vars, probe, engine, IInv, TypeOK, Control, Current, Judged
  <1> QED
    BY <1>1, ProbeStep, ChannelStep, EngineStep DEF Next

\* The invariant of the loop test: at every state, whatever the statuses the
\* engine reports and whenever its callbacks come.
THEOREM Invariance == Spec => []IInv
  BY InitStep, NextStep, PTL DEF Spec

\* A transfer logged as complete is, and its data has arrived.
THEOREM VerdictsAreTrue == Spec => []TruthfulVerdict
  <1>1. IInv => TruthfulVerdict
    BY DEF IInv, TruthfulVerdict, Judged, Channels
  <1> QED
    BY <1>1, Invariance, PTL

\* Without a logged timeout the buffers are not taken from a running engine.
THEOREM BuffersOutliveTransfers == Spec => []FreedWhenDone
  <1>1. IInv => FreedWhenDone
    BY DEF IInv, TypeOK, FreedWhenDone, Judged, Verdicts
  <1> QED
    BY <1>1, Invariance, PTL

\* A wait that times out has its callback still to come.
THEOREM TimeoutsAreReal == Spec => NoFalseTimeout
  <1> DEFINE Real == \A c \in Channels :
               verdict[c] = "none" /\ verdict'[c] = "timeout" =>
                 status[c] # "complete" \/ c \in due \/ done[c] > 0
  <1>1. IInv /\ [Next]_vars => [Real]_vars
    <2> SUFFICES ASSUME IInv, Next, NEW c \in Channels,
                        verdict[c] = "none", verdict'[c] = "timeout"
                 PROVE  status[c] # "complete" \/ c \in due \/ done[c] > 0
      BY Zenon
    <2>1. Judge(c)
      BY DEF Next, Setup, Submit, InitCompletions, Free, Remove, Issue, Wait,
             TimeOut, Judge, Complete, EngineError, Callback, probe, IInv, TypeOK
    <2>2. ~waited[c] /\ pc \in {"check tx", "check rx"}
      BY <2>1 DEF Judge, Checking, Verdict, IInv, TypeOK
    <2> QED
      BY <2>2 DEF IInv, Current, Ended
  <1> QED
    BY <1>1, Invariance, PTL DEF Spec, NoFalseTimeout
=============================================================================
