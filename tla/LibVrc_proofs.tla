---------------------------- MODULE LibVrc_proofs ----------------------------
(***************************************************************************)
(* Proofs about the frame buffer library: through any number of changes of *)
(* resolution the program's pointer stays good, the structure and the      *)
(* screen agree, and a program that waits for the sync never tears.        *)
(***************************************************************************)
EXTENDS LibVrc, SequenceTheorems, TLAPS

\* The allocator's stack when the program has no structure: fresh, or with the
\* mode and the resources of the last one exchanged.
Stacks == {<<1, 2, 3, 4, 5>>, <<1, 3, 2, 4, 5>>}

\* What an opening takes from the allocator, and leaves.
LEMMA Opening ==
  ASSUME NEW s \in Stacks
  PROVE  /\ s[1] = 1 /\ s[2] \in {2, 3} /\ s[3] = 5 - s[2]
         /\ SubSeq(s, 4, Len(s)) = <<4, 5>>
<1>1. Len(s) = 5 /\ s[1] = 1 /\ s[2] \in {2, 3} /\ s[3] = 5 - s[2]
      /\ s[4] = 4 /\ s[5] = 5
  BY DEF Stacks
<1>2. \A k \in 4..5 : s[k] \in Nat
  BY <1>1
<1> DEFINE t == SubSeq(s, 4, 5)
<1>3. /\ t \in Seq(Nat) /\ Len(t) = 2
      /\ \A k \in 1..2 : t[k] = s[4 + k - 1]
  BY <1>2, SubSeqProperties
<1>4. <<4, 5>> \in Seq(Nat) /\ Len(<<4, 5>>) = 2
      /\ \A k \in 1..2 : t[k] = <<4, 5>>[k]
  BY <1>1, <1>3
<1>5. t = <<4, 5>>
  BY <1>3, <1>4, SeqEqual
<1> QED BY <1>1, <1>5

\* What a closing gives back, on top of what was never taken.
LEMMA Closing ==
  ASSUME NEW c \in {2, 3}
  PROVE  <<1, 5 - c, c>> \o <<4, 5>> \in Stacks
<1> DEFINE s == <<1, 5 - c, c>> \o <<4, 5>>
           t == <<1, 5 - c, c, 4, 5>>
<1>1. /\ s \in Seq(Nat) /\ Len(s) = 5
      /\ \A k \in 1..5 : s[k] = IF k <= 3 THEN <<1, 5 - c, c>>[k] ELSE <<4, 5>>[k - 3]
  <2>1. <<1, 5 - c, c>> \in Seq(Nat) /\ <<4, 5>> \in Seq(Nat)
        /\ Len(<<1, 5 - c, c>>) = 3 /\ Len(<<4, 5>>) = 2
    OBVIOUS
  <2> QED BY <2>1, ConcatProperties
<1>2. t \in Seq(Nat) /\ Len(t) = 5
      /\ t[1] = 1 /\ t[2] = 5 - c /\ t[3] = c /\ t[4] = 4 /\ t[5] = 5
  OBVIOUS
<1>3. \A k \in 1..5 : s[k] = t[k]
  BY <1>1, <1>2
<1>4. s = t
  BY <1>1, <1>2, <1>3, SeqEqual
<1>5. t \in Stacks
  BY DEF Stacks
<1> QED BY <1>4, <1>5

-----------------------------------------------------------------------------
\* A structure as drmControlInit leaves it, with its mode in block c.
Structure(c, fb) ==
  [current |-> c, mode_card |-> 5 - c, current_fb |-> fb,
   fb_id |-> [i \in Buffers |-> i + 1]]

\* The structure a program has is block 1, at any moment, and its mode and the
\* resources blocks 2 and 3: they go back on the allocator's stack so that the
\* structure comes off it first again.
Heap ==
  /\ test \in {NoBlock, 1}
  /\ DOMAIN mem = Blocks
  /\ test = NoBlock => live = {} /\ bin \in Stacks
  /\ test # NoBlock =>
       /\ live = {1, 2, 3} /\ bin = <<4, 5>>
       /\ mem[1].current \in {2, 3}
       /\ mem[1] = Structure(mem[1].current, mem[1].current_fb)
       /\ mem[1].current_fb \in Buffers

\* What the kernel keeps for the program.
Kernel ==
  /\ test = NoBlock =>
       fbs = << >> /\ crtc = [fb |-> NoFb, mode |-> Off] /\ flip = NoFb /\ job = NoJob
  /\ test # NoBlock =>
       /\ fbs \in [1..2 -> [mode : Modes, picture : Pictures \cup {Nothing, Half}]]
       /\ crtc \in [fb : 1..2, mode : Modes]
       /\ flip \in 0..2
       /\ \A k \in 1..2 : fbs[k].mode = crtc.mode
       /\ crtc.mode = mem[mem[1].current].mode
       /\ flip # NoFb => flip = mem[1].current_fb + 1
       /\ flip = NoFb => crtc.fb = mem[1].current_fb + 1

\* What is half drawn is the buffer of the job, which is not on the screen nor
\* about to be.
Drawing ==
  /\ job = NoJob => \A k \in DOMAIN fbs : fbs[k].picture # Half
  /\ job # NoJob =>
       /\ test # NoBlock
       /\ job \in [fb : 1..2, picture : Pictures \cup {Nothing}]
       /\ \A k \in DOMAIN fbs : fbs[k].picture = Half => k = job.fb
       /\ WaitsForSync /\ program = "flipper" => flip = NoFb /\ job.fb # crtc.fb

IInv == Heap /\ Kernel /\ Drawing

USE DEF NUM_DUMB_BUFFERS, Buffers, Blocks, NoBlock, NoFb

\* The library is closed, or the program has ended.
LEMMA ClosedIsGood ==
  ASSUME test' = NoBlock, live' = {}, bin' \in Stacks,
         DOMAIN mem' = Blocks, job' = NoJob, KernelCleansUp
  PROVE  IInv'
BY DEF IInv, Heap, Kernel, Drawing, KernelCleansUp

\* A closing frees all there is, and leaves a stack to open from.
LEMMA ClosingIsGood ==
  ASSUME Heap, test = 1
  PROVE  CloseBin(test) \in Stacks /\ live \ {test, Control.current, Control.mode_card} = {}
<1>1. mem[1].current \in {2, 3} /\ mem[1].mode_card = 5 - mem[1].current
      /\ bin = <<4, 5>> /\ live = {1, 2, 3}
  BY DEF Heap, Structure
<1>2. <<1, 5 - mem[1].current, mem[1].current>> \o <<4, 5>> \in Stacks
  BY <1>1, Closing
<1>3. CloseBin(test) \in Stacks
  BY <1>1, <1>2 DEF CloseBin
<1> QED BY <1>1, <1>3 DEF Control

\* The library has been opened in a mode.
LEMMA OpenedIsGood ==
  ASSUME NEW mode \in Modes, NEW c \in {2, 3},
         test' = 1, live' = {1, 2, 3}, bin' = <<4, 5>>,
         DOMAIN mem' = Blocks,
         mem'[1] = Structure(c, 0),
         mem'[c] = [mode |-> mode],
         job' = NoJob, Opened(mode)
  PROVE  IInv'
<1>0. mem'[1].current = c /\ mem'[1].current_fb = 0
  BY DEF Structure
<1>1. Heap'
  BY <1>0 DEF Heap
<1>2. /\ fbs' = [id \in 1..2 |-> [mode |-> mode, picture |-> Nothing]]
      /\ crtc' = [fb |-> 1, mode |-> mode]
      /\ flip' = 0
  BY DEF Opened
<1>3. Kernel'
  BY <1>0, <1>2 DEF Kernel
<1>4. Drawing'
  BY <1>2 DEF Drawing, Nothing, Half
<1> QED BY <1>1, <1>3, <1>4 DEF IInv

\* A drawing or a copy starts.
LEMMA BeginIsGood ==
  ASSUME IInv, Idle, NEW dst \in Buffers, NEW picture \in Pictures \cup {Nothing},
         WaitsForSync /\ program = "flipper" => flip = NoFb /\ dst # mem[1].current_fb,
         Begin(dst, picture)
  PROVE  IInv'
<1>1. test = 1 /\ Control.fb_id[dst] = dst + 1
  BY DEF IInv, Heap, Structure, Idle, Control
<1>2. /\ job' = [fb |-> dst + 1, picture |-> picture]
      /\ fbs' = [fbs EXCEPT ![dst + 1].picture = Half]
      /\ UNCHANGED <<program, alive, test, mem, live, bin, crtc, flip>>
  BY <1>1 DEF Begin, heap
<1>3. Heap'
  BY <1>2 DEF IInv, Heap
<1>4. dst + 1 \in 1..2
  OBVIOUS
<1>5. Kernel'
  BY <1>1, <1>2, <1>4 DEF IInv, Kernel
<1>6. job = NoJob /\ job' # NoJob /\ job'.fb = dst + 1
  BY <1>2 DEF Idle, NoJob
<1>7. \A k \in DOMAIN fbs' : fbs'[k].picture = Half => k = dst + 1
  BY <1>1, <1>2, <1>4, <1>6 DEF IInv, Kernel, Drawing
<1>8. WaitsForSync /\ program = "flipper" => flip = NoFb /\ dst + 1 # crtc.fb
  BY <1>1 DEF IInv, Kernel, Heap
<1>9. Drawing'
  BY <1>1, <1>2, <1>4, <1>6, <1>7, <1>8 DEF Drawing
<1> QED BY <1>3, <1>5, <1>9 DEF IInv

\* The program starts in the invariant.
LEMMA Initially == Init => IInv
BY DEF Init, IInv, Heap, Kernel, Drawing, FreshBin, Stacks

\* Every call of the library and every vertical blank keeps it.
LEMMA Inductive == IInv /\ [Next]_vars => IInv'
<1> SUFFICES ASSUME IInv, [Next]_vars PROVE IInv'
  OBVIOUS
<1>1. CASE UNCHANGED vars
  BY <1>1 DEF IInv, Heap, Kernel, Drawing, vars, heap
<1>2. ASSUME Exit PROVE IInv'
  BY <1>2, ClosedIsGood DEF Exit, FreshBin, Stacks
<1>3. ASSUME NEW mode \in Modes, drmControlInit(mode) PROVE IInv'
  <2> DEFINE h == InitHeap(bin, mode)
  <2>1. CASE Exit
    BY <2>1, <1>2
  <2>2. CASE /\ test' = h.control /\ mem' = h.mem
             /\ live' = live \cup {h.control, h.current, h.mode_card} /\ bin' = h.bin
             /\ Opened(mode) /\ UNCHANGED <<program, alive, job>>
    <3>1. test = NoBlock /\ bin \in Stacks /\ live = {} /\ job = NoJob
          /\ DOMAIN mem = Blocks
      BY <1>3 DEF drmControlInit, IInv, Heap, Kernel
    <3> DEFINE c == bin[2]
               x == Structure(c, 0)
               y == [mode |-> mode]
    <3>2. /\ c \in {2, 3}
          /\ h.control = 1 /\ h.current = c /\ h.mode_card = 5 - c /\ h.bin = <<4, 5>>
          /\ h.mem = [mem EXCEPT ![1] = x, ![c] = y, ![5 - c] = Resources]
      BY <3>1, Opening DEF InitHeap, Malloc, Structure
    <3> HIDE DEF h, x, y, c
    <3>3. /\ DOMAIN mem' = Blocks
          /\ mem'[1] = x /\ mem'[c] = y
      <4>1. mem' = [mem EXCEPT ![1] = x, ![c] = y, ![5 - c] = Resources]
        BY <2>2, <3>2
      <4>2. DOMAIN mem = Blocks /\ c \in {2, 3}
        BY <3>1, <3>2
      <4> QED BY <4>1, <4>2
    <3>4. test' = 1 /\ live' = {1, 2, 3} /\ bin' = <<4, 5>> /\ job' = NoJob
      BY <2>2, <3>1, <3>2
    <3>5. Opened(mode)
      BY <2>2
    <3> QED BY <3>2, <3>3, <3>4, <3>5, OpenedIsGood DEF x, y
  <2> QED BY <1>3, <2>1, <2>2 DEF drmControlInit
<1>4. ASSUME NEW mode \in Modes, setNewResolution(mode) PROVE IInv'
  <2> DEFINE h == InitHeap(CloseBin(test), mode)
  <2>1. CASE Exit
    BY <2>1, <1>2
  <2>2. CASE /\ mem' = [h.mem EXCEPT ![test] = h.mem[h.control]]
             /\ live' = (live \ {test, Control.current, Control.mode_card})
                          \cup {h.control, h.current, h.mode_card}
             /\ bin' = h.bin
             /\ Opened(mode) /\ UNCHANGED <<program, alive, test, job>>
    <3>1. test = 1 /\ job = NoJob /\ DOMAIN mem = Blocks /\ live = {1, 2, 3}
      BY <1>4 DEF setNewResolution, Idle, IInv, Heap
    <3>2. CloseBin(test) \in Stacks /\ live \ {test, Control.current, Control.mode_card} = {}
      BY <3>1, ClosingIsGood DEF IInv
    <3> DEFINE c == CloseBin(test)[2]
               x == Structure(c, 0)
               y == [mode |-> mode]
    <3>3. /\ c \in {2, 3}
          /\ h.control = 1 /\ h.current = c /\ h.mode_card = 5 - c /\ h.bin = <<4, 5>>
          /\ h.mem = [mem EXCEPT ![1] = x, ![c] = y, ![5 - c] = Resources]
      BY <3>2, Opening DEF InitHeap, Malloc, Structure
    <3> HIDE DEF h, x, y, c
    <3>4. /\ DOMAIN h.mem = Blocks
          /\ h.mem[1] = x /\ h.mem[c] = y
      <4>1. DOMAIN mem = Blocks /\ c \in {2, 3}
        BY <3>1, <3>3
      <4> QED BY <4>1, <3>3
    <3>5. mem' = [h.mem EXCEPT ![1] = h.mem[1]]
      BY <2>2, <3>1, <3>3
    <3>6. /\ DOMAIN mem' = Blocks
          /\ mem'[1] = x /\ mem'[c] = y
      BY <3>3, <3>4, <3>5
    <3>7. test' = 1 /\ live' = {1, 2, 3} /\ bin' = <<4, 5>> /\ job' = NoJob
      BY <2>2, <3>1, <3>2, <3>3
    <3>8. Opened(mode)
      BY <2>2
    <3> QED BY <3>3, <3>6, <3>7, <3>8, OpenedIsGood DEF x, y
  <2> QED BY <1>4, <2>1, <2>2 DEF setNewResolution
<1>5. ASSUME drmControlClose PROVE IInv'
  <2>1. CASE Exit
    BY <2>1, <1>2
  <2>2. CASE /\ test' = NoBlock
             /\ live' = live \ {test, Control.current, Control.mode_card}
             /\ bin' = CloseBin(test)
             /\ KernelCleansUp
             /\ UNCHANGED <<program, alive, mem, job>>
    <3>1. test = 1 /\ job = NoJob /\ DOMAIN mem = Blocks
      BY <1>5 DEF drmControlClose, Idle, IInv, Heap
    <3>2. CloseBin(test) \in Stacks /\ live \ {test, Control.current, Control.mode_card} = {}
      BY <3>1, ClosingIsGood DEF IInv
    <3> QED BY <2>2, <3>1, <3>2, ClosedIsGood
  <2> QED BY <1>5, <2>1, <2>2 DEF drmControlClose
<1>6. ASSUME NEW i \in Buffers, mapFBtoCRTC(i) PROVE IInv'
  <2>1. CASE Exit
    BY <2>1, <1>2
  <2>2. CASE /\ flip = NoFb
             /\ flip' = Control.fb_id[i]
             /\ mem' = [mem EXCEPT ![test].current_fb = i]
             /\ UNCHANGED <<program, alive, test, live, bin, job, fbs, crtc>>
    <3>1. test = 1 /\ job = NoJob /\ flip' = i + 1
          /\ DOMAIN mem = Blocks
          /\ mem[1].current \in {2, 3}
          /\ mem[1] = Structure(mem[1].current, mem[1].current_fb)
      BY <1>6, <2>2 DEF mapFBtoCRTC, Idle, IInv, Heap, Control, Structure
    <3> DEFINE x == [mem[1] EXCEPT !.current_fb = i]
    <3>2. /\ DOMAIN mem' = Blocks
          /\ mem'[1] = x /\ mem'[mem[1].current] = mem[mem[1].current]
      <4>1. mem' = [mem EXCEPT ![1] = x]
        BY <2>2, <3>1, Zenon
      <4>2. DOMAIN mem = Blocks /\ mem[1].current \in {2, 3}
        BY <3>1
      <4> HIDE DEF x
      <4> QED BY <4>1, <4>2
    <3>3. mem'[1] = Structure(mem[1].current, i)
      BY <3>1, <3>2 DEF Structure
    <3>7. mem'[1].current = mem[1].current /\ mem'[1].current_fb = i
      BY <3>3 DEF Structure
    <3>4. Heap'
      BY <2>2, <3>1, <3>2, <3>3, <3>7 DEF IInv, Heap
    <3>5. Kernel'
      BY <2>2, <3>1, <3>2, <3>7 DEF IInv, Kernel
    <3>6. Drawing'
      BY <2>2, <3>1 DEF IInv, Drawing
    <3> QED BY <3>4, <3>5, <3>6 DEF IInv
  <2> QED BY <1>6, <2>1, <2>2 DEF mapFBtoCRTC
<1>7. ASSUME Flipper PROVE IInv'
  <2>1. PICK dst \in Buffers \ {Control.current_fb} :
          (\E p \in Pictures : Begin(dst, p)) \/ swapFB(dst, Control.current_fb)
    BY <1>7 DEF Flipper
  <2>2. Idle /\ test = 1 /\ Control = mem[1] /\ Control.current_fb \in Buffers
    BY <1>7 DEF Flipper, Idle, IInv, Heap, Control
  <2>3. WaitsForSync /\ program = "flipper" => flip = NoFb /\ dst # mem[1].current_fb
    BY <1>7, <2>1, <2>2 DEF Flipper
  <2>4. CASE \E p \in Pictures : Begin(dst, p)
    BY <2>1, <2>2, <2>3, <2>4, BeginIsGood
  <2>5. CASE swapFB(dst, Control.current_fb)
    <3>1. Control.fb_id[Control.current_fb] \in 1..2
      BY <2>2 DEF IInv, Heap, Structure
    <3>2. fbs[Control.fb_id[Control.current_fb]].picture \in Pictures \cup {Nothing}
      BY <2>2, <3>1 DEF IInv, Kernel, Drawing, Idle
    <3> QED BY <2>1, <2>2, <2>3, <2>5, <3>2, BeginIsGood DEF swapFB
  <2> QED BY <2>1, <2>4, <2>5
<1>8. ASSUME KmsDemo PROVE IInv'
  <2>1. Idle /\ program # "flipper" /\ \E p \in Pictures : Begin(0, p)
    BY <1>8 DEF KmsDemo
  <2> QED BY <2>1, BeginIsGood
<1>9. ASSUME Done PROVE IInv'
  <2>1. /\ job # NoJob /\ test = 1 /\ job.fb \in 1..2
        /\ job.picture \in Pictures \cup {Nothing}
        /\ fbs' = [fbs EXCEPT ![job.fb].picture = job.picture]
        /\ job' = NoJob
        /\ UNCHANGED <<program, alive, test, mem, live, bin, crtc, flip>>
    BY <1>9 DEF Done, heap, IInv, Drawing, Heap
  <2>2. Heap'
    BY <2>1 DEF IInv, Heap
  <2>3. Kernel'
    BY <2>1 DEF IInv, Kernel
  <2>4. job.picture # Half
    BY <2>1, PicturesAssumption DEF Nothing, Half
  <2>5. \A k \in DOMAIN fbs' : fbs'[k].picture # Half
    BY <2>1, <2>4 DEF IInv, Kernel, Drawing
  <2>6. Drawing'
    BY <2>1, <2>5 DEF Drawing
  <2> QED BY <2>2, <2>3, <2>6 DEF IInv
<1>10. ASSUME VSync PROVE IInv'
  <2>1. /\ flip # NoFb /\ crtc' = [crtc EXCEPT !.fb = flip] /\ flip' = NoFb
        /\ UNCHANGED <<program, alive, test, mem, live, bin, job, fbs>>
    BY <1>10 DEF VSync, heap
  <2>2. test # NoBlock
    BY <2>1 DEF IInv, Kernel
  <2>3. Heap'
    BY <2>1 DEF IInv, Heap
  <2>4. Kernel'
    BY <2>1, <2>2 DEF IInv, Kernel
  <2>5. Drawing'
    BY <2>1, <2>2 DEF IInv, Drawing
  <2> QED BY <2>3, <2>4, <2>5 DEF IInv
<1> QED
  BY <1>1, <1>2, <1>3, <1>4, <1>5, <1>6, <1>7, <1>8, <1>9, <1>10 DEF Next, Killed

\* The invariant of all the theorems below.
THEOREM Invariance == Spec => []IInv
BY Initially, Inductive, PTL DEF Spec

\* setNewResolution copies the new structure over one that was freed, and
\* never frees the new one; all the same the program's pointer is good and
\* nothing leaks (libvrc.c:297-304).
THEOREM PointerStaysGood == Spec => []OwnsItsMemory
<1>1. IInv => OwnsItsMemory
  BY DEF IInv, Heap, Structure, OwnsItsMemory, Control
<1> QED BY <1>1, Invariance, PTL

\* The mode and the current buffer the structure names are the screen's.
THEOREM StructureMatchesScreen == Spec => []ScreenIsCurrent
<1>1. IInv => ScreenIsCurrent
  BY DEF IInv, Heap, Structure, Kernel, ScreenIsCurrent, Control
<1> QED BY <1>1, Invariance, PTL

\* No picture half drawn is shown to one who waits for the sync.
THEOREM WaitingNeverTears == Spec => []NeverTorn
<1>1. IInv => NeverTorn
  BY DEF IInv, Kernel, Drawing, NeverTorn
<1> QED BY <1>1, Invariance, PTL
=============================================================================
