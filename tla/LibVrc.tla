------------------------------- MODULE LibVrc -------------------------------
(***************************************************************************)
(* The frame buffer library libvrc.c: two dumb buffers, one on the screen, *)
(* flipped at the vertical sync; a change of resolution closes everything  *)
(* and opens it again behind the caller's pointer.                         *)
(*                                                                         *)
(* Two programs use it: one that draws out of sight and flips, as the      *)
(* library's comments have it, and kmsdemo.c, which draws on the screen.   *)
(* The DRM of the kernel and the C library's allocator are external.       *)
(***************************************************************************)
EXTENDS Naturals, Sequences

CONSTANTS
  Modes,       \* display modes a program may ask for
  Pictures,    \* what it draws
  Programs,    \* {"flipper", "kmsdemo"}, or one of them
  WaitsForSync \* the flipper waits for the vertical sync after a flip


NUM_DUMB_BUFFERS == 2
Buffers == 0..(NUM_DUMB_BUFFERS - 1)

\* On the 32 bit processor the allocator has one size, 72 bytes, for the three
\* structures it may take for each other: a drm_cntrl and a mode (68 bytes) and
\* the card's resources (64).  No other malloc of the library is of that size.
Blocks == 1..5
FreshBin == <<1, 2, 3, 4, 5>>
NoBlock == 0
NoFb == 0
Off == "off"
Nothing == "nothing"
Half == "half drawn"
NoJob == [fb |-> NoFb, picture |-> Nothing]

ASSUME WaitsAssumption == WaitsForSync \in BOOLEAN
ASSUME PicturesAssumption == Half \notin Pictures
Unset == [nothing |-> TRUE]
Resources == [resources |-> TRUE]

VARIABLES
  program,    \* which program runs
  alive,      \* it has not ended
  test,       \* its pointer to the drm_cntrl, NoBlock when it has none
  mem,        \* what each block holds
  live,       \* the blocks allocated
  bin,        \* the others, in the order malloc takes them
  job,        \* a drawing or copying under way: the buffer and what it becomes
  fbs,        \* kernel: the frame buffers there are, with their mode and picture
  crtc,       \* kernel: what is scanned out, and in which mode
  flip        \* kernel: the frame buffer to take at the next sync

heap == <<mem, live, bin>>
vars == <<program, alive, test, heap, job, fbs, crtc, flip>>

Control == mem[test]
Idle == alive /\ test # NoBlock /\ job = NoJob

-----------------------------------------------------------------------------
(* The allocator and the kernel *)

\* The n-th malloc from here: what was freed last, then memory never used.
Malloc(stack, n) == stack[n]

\* What is left of a program: its files are closed, which destroys its frame
\* buffers and takes the screen from it.
KernelCleansUp == fbs' = <<>> /\ crtc' = [fb |-> NoFb, mode |-> Off] /\ flip' = NoFb

\* A call to the kernel that fails ends the program.
Exit ==
  /\ alive' = FALSE
  /\ test' = NoBlock
  /\ live' = {}
  /\ bin' = FreshBin
  /\ mem' = [b \in Blocks |-> Unset]
  /\ job' = NoJob
  /\ KernelCleansUp
  /\ UNCHANGED program

\* The vertical sync takes a flip.
VSync ==
  /\ flip # NoFb
  /\ crtc' = [crtc EXCEPT !.fb = flip]
  /\ flip' = NoFb
  /\ UNCHANGED <<program, alive, test, heap, job, fbs>>

-----------------------------------------------------------------------------
(* drmControlInit, drmControlClose *)

\* Defect: the other buffer is put on the screen.
Opened_Other(mode) ==
  /\ fbs' = [id \in 1..NUM_DUMB_BUFFERS |-> [mode |-> mode, picture |-> Nothing]]
  /\ crtc' = [fb |-> 2, mode |-> mode]
  /\ flip' = NoFb

\* The buffers are created and the first one is shown.
Opened(mode) ==
  /\ fbs' = [id \in 1..NUM_DUMB_BUFFERS |-> [mode |-> mode, picture |-> Nothing]]
  /\ crtc' = [fb |-> 1, mode |-> mode]
  /\ flip' = NoFb

\* Defect: the mode is allocated before the structure that points to it.
InitHeap_ModeFirst(stack, mode) ==
  LET c == Malloc(stack, 2)
      m == Malloc(stack, 1)
      r == Malloc(stack, 3)
  IN  [control |-> c, current |-> m, mode_card |-> r,
       mem |-> [mem EXCEPT ![c] = [current |-> m, mode_card |-> r, current_fb |-> 0,
                                   fb_id |-> [i \in Buffers |-> i + 1]],
                           ![m] = [mode |-> mode],
                           ![r] = Resources],
       bin |-> SubSeq(stack, 4, Len(stack))]

\* The structure, its mode and the card's resources are allocated; the first
\* buffer is current.
InitHeap(stack, mode) ==
  LET c == Malloc(stack, 1)
      m == Malloc(stack, 2)
      r == Malloc(stack, 3)
  IN  [control |-> c, current |-> m, mode_card |-> r,
       mem |-> [mem EXCEPT ![c] = [current |-> m, mode_card |-> r, current_fb |-> 0,
                                   fb_id |-> [i \in Buffers |-> i + 1]],
                           ![m] = [mode |-> mode],
                           ![r] = Resources],
       bin |-> SubSeq(stack, 4, Len(stack))]

\* The mode is freed, then the resources, the structure last.
CloseBin(control) == <<control, mem[control].mode_card, mem[control].current>> \o bin

drmControlInit(mode) ==
  /\ alive /\ test = NoBlock
  /\ \/ LET h == InitHeap(bin, mode)
        IN  /\ test' = h.control
            /\ mem' = h.mem
            /\ live' = live \cup {h.control, h.current, h.mode_card}
            /\ bin' = h.bin
            /\ Opened(mode)
            /\ UNCHANGED <<program, alive, job>>
     \/ Exit

drmControlClose ==
  /\ Idle /\ program = "flipper"
  /\ \/ /\ test' = NoBlock
        /\ live' = live \ {test, Control.current, Control.mode_card}
        /\ bin' = CloseBin(test)
        /\ KernelCleansUp
        /\ UNCHANGED <<program, alive, mem, job>>
     \/ Exit

\* Close, open, and copy the new structure over the caller's: temp is never
\* freed, and the block it is copied to was.
setNewResolution(mode) ==
  /\ Idle /\ program = "flipper"
  /\ \/ LET h == InitHeap(CloseBin(test), mode)
        IN  /\ mem' = [h.mem EXCEPT ![test] = h.mem[h.control]]
            /\ live' = (live \ {test, Control.current, Control.mode_card})
                         \cup {h.control, h.current, h.mode_card}
            /\ bin' = h.bin
            /\ Opened(mode)
            /\ UNCHANGED <<program, alive, test, job>>
     \/ Exit

-----------------------------------------------------------------------------
(* mapFBtoCRTC, swapFB and drawing *)

\* The kernel refuses a flip while one is pending, and may fail otherwise: the
\* library ends the program.
mapFBtoCRTC(fb_num) ==
  /\ Idle /\ program = "flipper"
  /\ WaitsForSync => flip = NoFb
  /\ \/ /\ flip = NoFb
        /\ flip' = Control.fb_id[fb_num]
        /\ mem' = [mem EXCEPT ![test].current_fb = fb_num]
        /\ UNCHANGED <<program, alive, test, live, bin, job, fbs, crtc>>
     \/ Exit

\* The buffer is written byte by byte: it is half of both until it is done.
Begin(buffer, picture) ==
  /\ job' = [fb |-> Control.fb_id[buffer], picture |-> picture]
  /\ fbs' = [fbs EXCEPT ![Control.fb_id[buffer]].picture = Half]
  /\ UNCHANGED <<program, alive, test, heap, crtc, flip>>

\* Defect: source and destination are exchanged.
swapFB_Exchanged(fb_num_dst, fb_num_src) ==
  Begin(fb_num_src, fbs[Control.fb_id[fb_num_dst]].picture)

swapFB(fb_num_dst, fb_num_src) ==
  Begin(fb_num_dst, fbs[Control.fb_id[fb_num_src]].picture)

\* The flipper writes only to the buffer that is not current.
Flipper ==
  /\ Idle /\ program = "flipper"
  /\ WaitsForSync => flip = NoFb
  /\ \E dst \in Buffers \ {Control.current_fb} :
       \/ \E p \in Pictures : Begin(dst, p)
       \/ swapFB(dst, Control.current_fb)

\* main of kmsdemo.c draws in buffer 0 and then waits for a character that is
\* none: it closes nothing and ends by a signal.
KmsDemo ==
  /\ Idle /\ program = "kmsdemo"
  /\ fbs[Control.fb_id[0]].picture = Nothing
  /\ \E p \in Pictures : Begin(0, p)

Done ==
  /\ job # NoJob
  /\ fbs' = [fbs EXCEPT ![job.fb].picture = job.picture]
  /\ job' = NoJob
  /\ UNCHANGED <<program, alive, test, heap, crtc, flip>>

\* A signal, at any moment.
Killed == alive /\ Exit

-----------------------------------------------------------------------------
Init ==
  /\ program \in Programs
  /\ alive = TRUE
  /\ test = NoBlock
  /\ mem = [b \in Blocks |-> Unset]
  /\ live = {}
  /\ bin = FreshBin
  /\ job = NoJob
  /\ fbs = <<>>
  /\ crtc = [fb |-> NoFb, mode |-> Off]
  /\ flip = NoFb

Next ==
  \/ \E m \in Modes : drmControlInit(m) \/ setNewResolution(m)
  \/ \E i \in Buffers : mapFBtoCRTC(i)
  \/ drmControlClose \/ Flipper \/ KmsDemo \/ Done \/ Killed \/ VSync

Spec == Init /\ [][Next]_vars

-----------------------------------------------------------------------------
\* The program's pointer leads to memory that is allocated, to a structure with
\* a mode and resources of its own, and nothing else stays allocated, through
\* any number of changes of resolution.  It rests on the order of the frees in
\* drmControlClose and of the mallocs in drmControlInit, which make the new
\* structure the block of the old one, though mode and resources change places;
\* with any other the pointer would be that of a freed block.
OwnsItsMemory ==
  /\ test = NoBlock => live = {}
  /\ test # NoBlock =>
       /\ live = {test, Control.current, Control.mode_card}
       /\ Control.current \notin {test, Control.mode_card} /\ Control.mode_card # test

\* What the structure says is what the screen does: its mode is the mode of the
\* screen and of both buffers, and unless a flip is pending its current buffer
\* is the one shown.
ScreenIsCurrent ==
  test # NoBlock =>
    /\ crtc.mode = mem[Control.current].mode
    /\ \A i \in Buffers : fbs[Control.fb_id[i]].mode = crtc.mode
    /\ flip = NoFb => crtc.fb = Control.fb_id[Control.current_fb]

\* A program that waits for the sync after each flip never shows a picture half
\* drawn or half copied.
NeverTorn ==
  WaitsForSync /\ program = "flipper" /\ crtc.fb # NoFb => fbs[crtc.fb].picture # Half
=============================================================================
