---------------------------- MODULE DmaLoopTest ----------------------------
(***************************************************************************)
(* The transfer that the probe of the dmalooptest driver makes             *)
(* (recipes-modules/dmalooptest/files/dmalooptest.c): one buffer is sent   *)
(* on a channel whose stream the hardware loops back to a second channel,  *)
(* and the probe waits for the two completions, each with a time limit.    *)
(* The two completion objects are globals that outlive a probe.            *)
(*                                                                         *)
(* The DMA engine, external, calls back when a transfer ends, well or not. *)
(***************************************************************************)
EXTENDS Naturals

VARIABLES
  pc,        \* where the probe is
  done,      \* the completion objects: calls of complete() not waited for
  waited,    \* did a wait end before its time limit?
  verdict,   \* what the probe logged of each transfer
  rx_buf,    \* has the data sent arrived in the second buffer?
  mapped,    \* the buffers are the engine's
  status,    \* of each transfer
  due        \* callbacks that the engine still makes

probe  == <<pc, waited, verdict, mapped>>
engine == <<rx_buf, status, due>>
vars   == <<probe, done, engine>>

Channels == {"tx", "rx"}

\* The completion objects of an earlier probe may still be completed.
Init ==
  /\ pc = "setup"
  /\ done \in [Channels -> 0 .. 1]
  /\ waited = [c \in Channels |-> FALSE]
  /\ verdict = [c \in Channels |-> "none"]
  /\ rx_buf = FALSE
  /\ mapped = FALSE
  /\ status = [c \in Channels |-> "none"]
  /\ due = {}

\* The buffers are allocated and mapped, the descriptors prepared.
Setup ==
  /\ pc = "setup"
  /\ mapped' = TRUE
  /\ pc' = "submit"
  /\ UNCHANGED <<waited, verdict, done, engine>>

\* Defect: submitting starts the engine.
Submit_Starts ==
  /\ pc = "submit"
  /\ status' = [c \in Channels |-> "issued"]
  /\ pc' = "init"
  /\ UNCHANGED <<waited, verdict, mapped, done, rx_buf, due>>

\* Both transfers are submitted; the engine does not start yet.
Submit ==
  /\ pc = "submit"
  /\ status' = [c \in Channels |-> "submitted"]
  /\ pc' = "init"
  /\ UNCHANGED <<waited, verdict, mapped, done, rx_buf, due>>

\* Defect: the completions keep what an earlier probe left.
InitCompletions_Missing ==
  /\ pc = "init"
  /\ pc' = "issue rx"
  /\ UNCHANGED <<waited, verdict, mapped, done, engine>>

InitCompletions ==
  /\ pc = "init"
  /\ done' = [c \in Channels |-> 0]
  /\ pc' = "issue rx"
  /\ UNCHANGED <<waited, verdict, mapped, engine>>

\* The receiver is started first, then the sender.
Issue(c) ==
  /\ \/ c = "rx" /\ pc = "issue rx" /\ pc' = "issue tx"
     \/ c = "tx" /\ pc = "issue tx" /\ pc' = "wait tx"
  /\ status' = [status EXCEPT ![c] = IF @ = "submitted" THEN "issued" ELSE @]
  /\ UNCHANGED <<waited, verdict, mapped, done, rx_buf, due>>

Waiting(c)  == pc = (IF c = "tx" THEN "wait tx" ELSE "wait rx")
Checking(c) == pc = (IF c = "tx" THEN "check tx" ELSE "check rx")
Check(c)    == pc' = (IF c = "tx" THEN "check tx" ELSE "check rx")

\* wait_for_completion_timeout returns the time that is left ...
Wait(c) ==
  /\ Waiting(c)
  /\ done[c] > 0
  /\ done' = [done EXCEPT ![c] = @ - 1]
  /\ waited' = [waited EXCEPT ![c] = TRUE]
  /\ Check(c)
  /\ UNCHANGED <<verdict, mapped, engine>>

\* ... or 0: three seconds have passed.
TimeOut(c) ==
  /\ Waiting(c)
  /\ done[c] = 0
  /\ Check(c)
  /\ UNCHANGED <<waited, verdict, mapped, done, engine>>

\* Defect: a completion is taken for success.
Verdict_TrustsCompletion(c) == IF ~waited[c] THEN "timeout" ELSE "complete"

Verdict(c) ==
  IF ~waited[c] THEN "timeout"
  ELSE IF status[c] # "complete" THEN "error" ELSE "complete"

\* The verdict, from the wait and the status of the transfer.
Judge(c) ==
  /\ Checking(c)
  /\ verdict' = [verdict EXCEPT ![c] = Verdict(c)]
  /\ pc' = IF c = "tx" THEN "wait rx" ELSE "free"
  /\ UNCHANGED <<waited, mapped, done, engine>>

\* The buffers are unmapped, the second is printed, both are freed.
Free ==
  /\ pc = "free"
  /\ mapped' = FALSE
  /\ pc' = "bound"
  /\ UNCHANGED <<waited, verdict, done, engine>>

\* The channels are released: the engine drops what it has.  A device that is
\* probed again finds the completion objects as they are.
Remove ==
  /\ pc = "bound"
  /\ pc' = "setup"
  /\ waited' = [c \in Channels |-> FALSE]
  /\ verdict' = [c \in Channels |-> "none"]
  /\ rx_buf' = FALSE
  /\ status' = [c \in Channels |-> "none"]
  /\ due' = {}
  /\ UNCHANGED <<mapped, done>>

-----------------------------------------------------------------------------
(* The DMA engine *)

\* A transfer ends; the receiver's when all has arrived.
Complete(c) ==
  /\ status[c] = "issued"
  /\ c = "rx" => status["tx"] = "complete"
  /\ status' = [status EXCEPT ![c] = "complete"]
  /\ rx_buf' = (rx_buf \/ c = "rx")
  /\ due' = due \cup {c}
  /\ UNCHANGED <<probe, done>>

EngineError(c) ==
  /\ status[c] = "issued"
  /\ status' = [status EXCEPT ![c] = "error"]
  /\ due' = due \cup {c}
  /\ UNCHANGED <<probe, done, rx_buf>>

\* tx_transfer_complete and rx_transfer_complete.
Callback(c) ==
  /\ c \in due
  /\ due' = due \ {c}
  /\ done' = [done EXCEPT ![c] = @ + 1]
  /\ UNCHANGED <<probe, rx_buf, status>>

-----------------------------------------------------------------------------
Next ==
  \/ Setup \/ Submit \/ InitCompletions \/ Free \/ Remove
  \/ \E c \in Channels : Issue(c) \/ Wait(c) \/ TimeOut(c) \/ Judge(c)
  \/ \E c \in Channels : Complete(c) \/ EngineError(c) \/ Callback(c)

Spec == Init /\ [][Next]_vars

-----------------------------------------------------------------------------
\* "complete" is logged of a transfer that is, and the bytes printed then are
\* those that were sent, whatever callbacks of earlier probes left behind.
TruthfulVerdict ==
  /\ \A c \in Channels : verdict[c] = "complete" => status[c] = "complete"
  /\ verdict["rx"] = "complete" => rx_buf

\* The buffers are taken from an engine that may still use them after a logged
\* timeout only: no completion that an earlier probe left ends a wait.
FreedWhenDone ==
  ~mapped /\ (\A c \in Channels : verdict[c] \notin {"none", "timeout"}) =>
    \A c \in Channels : status[c] # "issued"

\* No completion is lost: a wait that runs into its time limit has its callback
\* still to come, since the completion objects are ready before the engine
\* starts.
NoFalseTimeout ==
  [][\A c \in Channels : verdict[c] = "none" /\ verdict'[c] = "timeout" =>
       status[c] # "complete" \/ c \in due \/ done[c] > 0]_vars
=============================================================================
