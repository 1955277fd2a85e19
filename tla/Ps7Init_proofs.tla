--------------------------- MODULE Ps7Init_proofs ---------------------------
(***************************************************************************)
(* What the interpreter of ps7_init.c makes of any tables of which the     *)
(* facts of TablesAssumption hold, for every damage of an entry, every     *)
(* limit of the polls and the timer, and any number of calls.  At every    *)
(* step of a function that has not failed, the hardware is as the steps    *)
(* before it say.                                                          *)
(***************************************************************************)
EXTENDS Ps7Init, SequenceTheorems, TLAPS

\* Where the function running is, or where it ended.
Cursor ==
  IF pending = <<>> THEN End(call)
  ELSE <<Len(TablesOf[call]) - Len(pending) + 1, ptr>>

\* No operation of the last call was lost, so far.
Unfailed == pending # <<>> \/ ret[call] = PS7_INIT_SUCCESS

\* Where the interpreter can be.
Shape ==
  /\ silicon \in Silicon
  /\ call \in Functions
  /\ pending \in Seq(DOMAIN Tables_3_0)
  /\ Len(pending) <= Len(TablesOf[call])
  /\ \A j \in 1..Len(pending) :
        pending[j] = TablesOf[call][Len(TablesOf[call]) - Len(pending) + j]
  /\ pending # <<>> => ptr \in DOMAIN Tables[silicon][pending[1]]
  /\ DOMAIN ret = Functions

\* Some table sets the field.
Known(v, reg, field) ==
  \E g \in Functions : \E r \in Steps(v, g) : Sets(At(v, g, r), reg, field)

IsPll(reg) == \E p \in Plls : reg = Ctrl[p]

\* The registers have the fields of the tables.
RegsInv ==
  /\ DOMAIN regs = Registers
  /\ \A reg \in Registers : \A field \in DOMAIN regs[reg] :
        IsPll(reg) \/ Known(silicon, reg, field)
  /\ \A p \in Plls : "PLL_FDIV" \in DOMAIN regs[Ctrl[p]]

\* What holds a part of the hardware in reset, and what then cannot be.
HardwareInv ==
  /\ DOMAIN pll = Plls
  /\ unlocked \in BOOLEAN /\ ddr_up \in BOOLEAN
  /\ \A p \in Plls :
        /\ Holds(regs, Ctrl[p], "PLL_RESET", 1) => pll[p] = 0
        /\ pll[p] = 0 => ~Holds(regs, Ctrl[p], "PLL_BYPASS_FORCE", 0)
  /\ Holds(regs, DciCtrl, "RESET", 0) => dci = "reset"
  /\ ddr_up => Released(regs)

\* The hardware is as the steps before the cursor say.
PllsFollow(s) ==
  \A p \in Plls :
    /\ Locked(silicon, call, s, p) => pll[p] # 0
    /\ Restarted(silicon, call, s, p) => pll[p] \in {0, regs[Ctrl[p]].PLL_FDIV}
DdrFollows(s) ==
  /\ Seen(silicon, call, s, "DONE", DciCtrl, "RESET") => dci = "done"
  /\ Seen(silicon, call, s, "ddrc_reg_operating_mode", DdrcCtrl, "reg_ddrc_soft_rstb")
       => ddr_up
LockFollows(s) ==
  /\ Opened(silicon, call, s) => unlocked
  /\ Closed(silicon, call, s) => ~unlocked
Follows ==
  /\ HoldsEffect(Effect(silicon, call, Cursor))
  /\ PllsFollow(Cursor) /\ DdrFollows(Cursor) /\ LockFollows(Cursor)

IInv == Shape /\ RegsInv /\ HardwareInv /\ (Unfailed => Follows)

-----------------------------------------------------------------------------
(* Facts of the steps *)

\* The functions interpret tables of the program.  (TablesOf.)
LEMMA TableNames ==
  \A f \in Functions :
    /\ TablesOf[f] \in Seq(DOMAIN Tables_3_0)
    /\ \A n \in 1..Len(TablesOf[f]) : TablesOf[f][n] \in DOMAIN Tables_3_0
<1>1. DOMAIN Tables_3_0 =
        {"mio", "pll", "clock", "ddr", "peripherals", "post_config", "debug"}
  BY DEF Tables_3_0
<1>2. TablesOf["ps7_init"] = <<"mio", "pll", "clock", "ddr", "peripherals">>
  BY DEF TablesOf
<1>3. TablesOf["ps7_post_config"] = <<"post_config">> /\ TablesOf["ps7_debug"] = <<"debug">>
  BY DEF TablesOf
<1>4. \A f \in Functions : TablesOf[f] \in Seq(DOMAIN Tables_3_0)
  <2>1. <<"mio", "pll", "clock", "ddr", "peripherals">> \in Seq(DOMAIN Tables_3_0)
    BY <1>1
  <2>2. <<"post_config">> \in Seq(DOMAIN Tables_3_0) /\ <<"debug">> \in Seq(DOMAIN Tables_3_0)
    BY <1>1
  <2> QED
    BY <1>2, <1>3, <2>1, <2>2 DEF Functions
<1>5. \A f \in Functions : \A n \in 1..Len(TablesOf[f]) : TablesOf[f][n] \in DOMAIN Tables_3_0
  BY <1>1, <1>2, <1>3 DEF Functions
<1> QED
  BY <1>4, <1>5

\* Each table of a version runs from 1 to its exit.  (TablesEnd.)
LEMMA TableShape ==
  ASSUME NEW v \in Silicon, NEW f \in Functions, NEW n \in 1..Len(TablesOf[f])
  PROVE  LET table == Tables[v][TablesOf[f][n]]
         IN  /\ Len(table) \in Nat \ {0} /\ DOMAIN table = 1..Len(table)
             /\ \A k \in DOMAIN table : table[k].op = "exit" <=> k = Len(table)
<1>1. TablesOf[f][n] \in DOMAIN Tables_3_0
  BY TableNames
<1>2. TablesEnd(v)
  BY TablesAssumption
<1> QED
  BY <1>1, <1>2 DEF TablesEnd

\* The steps are pairs, and all of them.  (Steps.)
LEMMA StepPairs ==
  ASSUME NEW v \in Silicon, NEW f \in Functions
  PROVE  /\ \A r \in Steps(v, f) :
              /\ r = <<r[1], r[2]>>
              /\ r[1] \in 1..Len(TablesOf[f])
              /\ r[2] \in 1..Len(Tables[v][TablesOf[f][r[1]]])
              /\ Len(Tables[v][TablesOf[f][r[1]]]) \in Nat
         /\ \A n \in 1..Len(TablesOf[f]) :
              \A k \in DOMAIN Tables[v][TablesOf[f][n]] : <<n, k>> \in Steps(v, f)
<1>1. TablesOf[f] \in Seq(DOMAIN Tables_3_0) /\ DOMAIN TablesOf[f] = 1..Len(TablesOf[f])
  BY TableNames
<1>2. ASSUME NEW r \in Steps(v, f)
      PROVE  \E n \in 1..Len(TablesOf[f]) :
               \E k \in 1..Len(Tables[v][TablesOf[f][n]]) : r = <<n, k>>
  <2>1. PICK n \in 1..Len(TablesOf[f]) :
          r \in {<<n, k>> : k \in DOMAIN Tables[v][TablesOf[f][n]]}
    BY <1>1 DEF Steps
  <2>2. DOMAIN Tables[v][TablesOf[f][n]] = 1..Len(Tables[v][TablesOf[f][n]])
    BY TableShape
  <2> QED
    BY <2>1, <2>2
<1>3. ASSUME NEW r \in Steps(v, f)
      PROVE  /\ r = <<r[1], r[2]>>
             /\ r[1] \in 1..Len(TablesOf[f])
             /\ r[2] \in 1..Len(Tables[v][TablesOf[f][r[1]]])
             /\ Len(Tables[v][TablesOf[f][r[1]]]) \in Nat
  <2>1. PICK n \in 1..Len(TablesOf[f]) :
          \E k \in 1..Len(Tables[v][TablesOf[f][n]]) : r = <<n, k>>
    BY <1>2
  <2>2. Len(Tables[v][TablesOf[f][n]]) \in Nat
    BY TableShape
  <2> QED
    BY <2>1, <2>2
<1>4. ASSUME NEW n \in 1..Len(TablesOf[f]), NEW k \in DOMAIN Tables[v][TablesOf[f][n]]
      PROVE  <<n, k>> \in Steps(v, f)
  BY <1>1 DEF Steps
<1> QED
  BY <1>3, <1>4

\* The next step: what precedes t is what precedes s, and s.
Follow(v, f, s, t) ==
  /\ s \in Steps(v, f)
  /\ \A r \in Steps(v, f) : Precedes(r, t) <=> Precedes(r, s) \/ r = s

\* What stands at the next step is what the step did, or what stood before it
\* and the step let be.
LEMMA StandsStep ==
  ASSUME NEW v, NEW f, NEW s, NEW t, Follow(v, f, s, t),
         NEW r \in Steps(v, f), NEW reg, NEW field, Stands(v, f, r, reg, field, t)
  PROVE  r = s \/ (Stands(v, f, r, reg, field, s) /\ ~Sets(At(v, f, s), reg, field))
<1>1. CASE r = s
  BY <1>1
<1>2. CASE r # s
  <2>1. Precedes(r, s) /\ Precedes(s, t)
    BY <1>2 DEF Follow, Stands
  <2>2. s \in Between(v, f, r, t)
    BY <2>1 DEF Between, Follow
  <2>3. Between(v, f, r, s) \subseteq Between(v, f, r, t)
    BY DEF Between, Follow
  <2> QED
    BY <2>1, <2>2, <2>3 DEF Stands
<1> QED
  BY <1>1, <1>2

\* The same of the last value of a field, and of all that was put.  (Was, Effect.)
LEMMA WasStep ==
  ASSUME NEW v, NEW f, NEW s, NEW t, Follow(v, f, s, t),
         NEW reg, NEW field, NEW value, Was(v, f, t, reg, field, value)
  PROVE  \/ Puts(At(v, f, s), reg, field, value)
         \/ Was(v, f, s, reg, field, value) /\ ~Sets(At(v, f, s), reg, field)
<1>1. PICK r \in Steps(v, f) :
        Puts(At(v, f, r), reg, field, value) /\ Stands(v, f, r, reg, field, t)
  BY DEF Was
<1>2. r = s \/ (Stands(v, f, r, reg, field, s) /\ ~Sets(At(v, f, s), reg, field))
  BY <1>1, StandsStep
<1> QED
  BY <1>1, <1>2 DEF Was

\* The same of a bit that was seen.  (Seen.)
LEMMA SeenStep ==
  ASSUME NEW v, NEW f, NEW s, NEW t, Follow(v, f, s, t),
         NEW bit, NEW reg, NEW field, Seen(v, f, t, bit, reg, field)
  PROVE  \/ Polls(At(v, f, s), bit)
         \/ Seen(v, f, s, bit, reg, field) /\ ~Sets(At(v, f, s), reg, field)
<1>1. PICK r \in Steps(v, f) : Polls(At(v, f, r), bit) /\ Stands(v, f, r, reg, field, t)
  BY DEF Seen
<1>2. r = s \/ (Stands(v, f, r, reg, field, s) /\ ~Sets(At(v, f, s), reg, field))
  BY <1>1, StandsStep
<1> QED
  BY <1>1, <1>2 DEF Seen

\* The triples of an effect are the values that were put last.
LEMMA EffectWas ==
  ASSUME NEW v, NEW f, NEW s
  PROVE  /\ \A w \in Effect(v, f, s) :
              w = <<w[1], w[2], w[3]>> /\ Was(v, f, s, w[1], w[2], w[3])
         /\ \A reg, field, value :
              Was(v, f, s, reg, field, value) => <<reg, field, value>> \in Effect(v, f, s)
<1>1. ASSUME NEW w \in Effect(v, f, s)
      PROVE  w = <<w[1], w[2], w[3]>> /\ Was(v, f, s, w[1], w[2], w[3])
  <2>1. PICK r \in Steps(v, f) :
          /\ IsWrite(At(v, f, r))
          /\ \E field \in DOMAIN At(v, f, r).fields :
               /\ Stands(v, f, r, At(v, f, r).reg, field, s)
               /\ w = <<At(v, f, r).reg, field, At(v, f, r).fields[field]>>
    BY DEF Effect
  <2>2. PICK field \in DOMAIN At(v, f, r).fields :
               /\ Stands(v, f, r, At(v, f, r).reg, field, s)
               /\ w = <<At(v, f, r).reg, field, At(v, f, r).fields[field]>>
    BY <2>1
  <2>3. Puts(At(v, f, r), At(v, f, r).reg, field, At(v, f, r).fields[field])
    BY <2>1, <2>2 DEF Puts, Sets
  <2> QED
    BY <2>2, <2>3 DEF Was
<1>2. ASSUME NEW reg, NEW field, NEW value, Was(v, f, s, reg, field, value)
      PROVE  <<reg, field, value>> \in Effect(v, f, s)
  <2>1. PICK r \in Steps(v, f) :
          Puts(At(v, f, r), reg, field, value) /\ Stands(v, f, r, reg, field, s)
    BY <1>2 DEF Was
  <2> QED
    BY <2>1 DEF Effect, Puts, Sets
<1> QED
  BY <1>1, <1>2

-----------------------------------------------------------------------------
(* Facts of the state *)

\* The tail of a sequence.
LEMMA TailOf ==
  ASSUME NEW S, NEW s \in Seq(S), Len(s) > 1
  PROVE  /\ Tail(s) \in Seq(S) /\ Tail(s) # <<>>
         /\ Len(Tail(s)) = Len(s) - 1
         /\ \A j \in 1..(Len(s) - 1) : Tail(s)[j] = s[j + 1]
<1>1. s # <<>> /\ Len(s) \in Nat
  OBVIOUS
<1>2. Tail(s) \in Seq(S) /\ Len(Tail(s)) = Len(s) - 1
  BY <1>1, HeadTailProperties
<1>3. \A j \in 1..Len(Tail(s)) : Tail(s)[j] = s[j + 1]
  BY <1>1, HeadTailProperties
<1>4. Tail(s) # <<>>
  <2>1. \A t : t = <<>> => Len(t) = 0
    OBVIOUS
  <2>2. Len(Tail(s)) # 0
    BY <1>1, <1>2
  <2> QED
    BY <2>1, <2>2, Zenon
<1> QED
  BY <1>2, <1>3, <1>4

\* The position of a table, counted from the end.
LEMMA NextTable ==
  /\ \A a, b, c \in Nat : c = b - 1 =>
       /\ a - c + 1 = (a - b + 1) + 1
       /\ \A j \in 1..(b - 1) : a - b + (j + 1) = a - c + j
  /\ \A b \in Nat : b # 0 /\ ~(b > 1) => b = 1
  /\ \A b \in Nat \ {0} : 1 \in 1..b
OBVIOUS

\* Inside a function the cursor is at a step, and that is the operation at ptr
\* unless the entry is damaged.  (Op.)
LEMMA AtCursor ==
  ASSUME Shape, pending # <<>>
  PROVE  /\ Cursor = <<Len(TablesOf[call]) - Len(pending) + 1, ptr>>
         /\ Cursor[1] \in 1..Len(TablesOf[call])
         /\ TablesOf[call][Cursor[1]] = pending[1]
         /\ Cursor \in Steps(silicon, call)
         /\ Op.op # "undefined" => Op = At(silicon, call, Cursor)
         /\ ptr \in Nat
<1>1. TablesOf[call] \in Seq(DOMAIN Tables_3_0) /\ call \in Functions /\ silicon \in Silicon
  BY TableNames DEF Shape
<1>2. Len(pending) \in Nat /\ Len(pending) >= 1
  BY DEF Shape
<1>3. Cursor = <<Len(TablesOf[call]) - Len(pending) + 1, ptr>>
  BY DEF Cursor
<1>4. Len(TablesOf[call]) - Len(pending) + 1 \in 1..Len(TablesOf[call])
  BY <1>1, <1>2 DEF Shape
<1>5. TablesOf[call][Cursor[1]] = pending[1]
  BY <1>1, <1>2, <1>3 DEF Shape
<1>6. ptr \in DOMAIN Tables[silicon][TablesOf[call][Cursor[1]]]
  BY <1>5 DEF Shape
<1>7. Cursor \in Steps(silicon, call)
  BY <1>1, <1>3, <1>4, <1>6, StepPairs
<1>8. ptr \in Nat
  <2>1. /\ Cursor[2] \in 1..Len(Tables[silicon][TablesOf[call][Cursor[1]]])
        /\ Len(Tables[silicon][TablesOf[call][Cursor[1]]]) \in Nat
    BY <1>1, <1>7, StepPairs
  <2> QED
    BY <1>3, <2>1
<1>9. Op.op # "undefined" => Op = At(silicon, call, Cursor)
  BY <1>3, <1>5 DEF Op, At
<1> QED
  BY <1>3, <1>4, <1>5, <1>7, <1>8, <1>9

\* The pointer moves to the next step.  (NextOp.)
LEMMA NextOpFollows ==
  ASSUME Shape, pending # <<>>, Op.op \notin {"undefined", "exit"}, NextOp
  PROVE  /\ Shape'
         /\ Follow(silicon, call, Cursor, Cursor')
         /\ Unfailed' /\ silicon' = silicon /\ call' = call
<1> DEFINE n == Len(TablesOf[call]) - Len(pending) + 1
           table == Tables[silicon][TablesOf[call][n]]
<1>1. /\ silicon' = silicon /\ call' = call /\ pending' = pending
      /\ ret' = ret /\ ptr' = ptr + 1
  BY DEF NextOp
<1>2. call \in Functions /\ silicon \in Silicon
  BY DEF Shape
<1>3. /\ Cursor = <<n, ptr>> /\ n \in 1..Len(TablesOf[call])
      /\ TablesOf[call][n] = pending[1] /\ Cursor \in Steps(silicon, call)
      /\ Op = At(silicon, call, Cursor) /\ ptr \in Nat
  BY AtCursor
<1>4. /\ Len(table) \in Nat \ {0} /\ DOMAIN table = 1..Len(table)
      /\ \A k \in DOMAIN table : table[k].op = "exit" <=> k = Len(table)
  <2>1. silicon \in Silicon /\ call \in Functions /\ n \in 1..Len(TablesOf[call])
    BY <1>2, <1>3
  <2> HIDE DEF n
  <2> QED
    BY <2>1, TableShape, Zenon
<1>5. ptr \in DOMAIN table /\ table[ptr].op # "exit"
  BY <1>3 DEF Shape, At
<1>6. ptr + 1 \in DOMAIN table
  <2> HIDE DEF table
  <2> QED
    BY <1>3, <1>4, <1>5
<1>7. Shape'
  BY <1>1, <1>3, <1>6 DEF Shape
<1>8. Cursor' = <<n, ptr + 1>>
  BY <1>1 DEF Cursor
<1>9. ASSUME NEW r \in Steps(silicon, call)
      PROVE  Precedes(r, Cursor') <=> Precedes(r, Cursor) \/ r = Cursor
  <2>1. r = <<r[1], r[2]>> /\ r[1] \in Nat /\ r[2] \in Nat
    BY <1>2, StepPairs
  <2>2. n \in Nat
    BY <1>3
  <2>3. Precedes(r, Cursor') <=> r[1] < n \/ (r[1] = n /\ r[2] < ptr + 1)
    BY <1>8 DEF Precedes
  <2>4. Precedes(r, Cursor) <=> r[1] < n \/ (r[1] = n /\ r[2] < ptr)
    BY <1>3 DEF Precedes
  <2>5. r = Cursor <=> r[1] = n /\ r[2] = ptr
    BY <1>3, <2>1
  <2> HIDE DEF n
  <2> QED
    BY <1>3, <2>1, <2>2, <2>3, <2>4, <2>5
<1> QED
  BY <1>1, <1>3, <1>7, <1>9 DEF Follow, Unfailed

\* After its exit a table is followed by the next, or by the end.  (DoExit.)
LEMMA ExitFollows ==
  ASSUME Shape, DoExit
  PROVE  /\ Shape'
         /\ Follow(silicon, call, Cursor, Cursor')
         /\ silicon' = silicon /\ call' = call
<1> DEFINE n == Len(TablesOf[call]) - Len(pending) + 1
           table == Tables[silicon][TablesOf[call][n]]
<1>1. pending # <<>> /\ Op.op = "exit" /\ Finish(PS7_INIT_SUCCESS)
  BY DEF DoExit, Fetches
<1>2. /\ call \in Functions /\ silicon \in Silicon /\ pending \in Seq(DOMAIN Tables_3_0)
      /\ TablesOf[call] \in Seq(DOMAIN Tables_3_0) /\ DOMAIN ret = Functions
  BY TableNames DEF Shape
<1>3. /\ Cursor = <<n, ptr>> /\ n \in 1..Len(TablesOf[call])
      /\ TablesOf[call][n] = pending[1] /\ Cursor \in Steps(silicon, call)
      /\ Op = At(silicon, call, Cursor) /\ ptr \in Nat
  BY <1>1, AtCursor
<1>4. /\ Len(table) \in Nat \ {0} /\ DOMAIN table = 1..Len(table)
      /\ \A k \in DOMAIN table : table[k].op = "exit" <=> k = Len(table)
  <2>1. silicon \in Silicon /\ call \in Functions /\ n \in 1..Len(TablesOf[call])
    BY <1>2, <1>3
  <2> HIDE DEF n
  <2> QED
    BY <2>1, TableShape, Zenon
<1>5. ptr \in DOMAIN table /\ table[ptr].op = "exit"
  BY <1>1, <1>3 DEF Shape, At
<1>6. ptr = Len(table)
  <2> HIDE DEF table
  <2> QED
    BY <1>4, <1>5
<1>7. silicon' = silicon /\ call' = call
  BY <1>1 DEF Finish
<1>8. Cursor' = <<n + 1, 1>> /\ Shape'
  <2>1. CASE Len(pending) > 1
    <3>1. pending' = Tail(pending) /\ ptr' = 1 /\ ret' = ret
      BY <1>1, <2>1 DEF Finish
    <3>2. /\ Tail(pending) \in Seq(DOMAIN Tables_3_0) /\ Tail(pending) # <<>>
          /\ Len(Tail(pending)) = Len(pending) - 1
          /\ \A j \in 1..(Len(pending) - 1) : Tail(pending)[j] = pending[j + 1]
      BY <1>2, <2>1, TailOf
    <3>3. Len(pending) \in Nat /\ Len(TablesOf[call]) \in Nat
      BY <1>2
    <3>4. Cursor' = <<n + 1, 1>>
      BY <1>7, <3>1, <3>2, <3>3 DEF Cursor
    <3>5. ASSUME NEW j \in 1..Len(Tail(pending))
          PROVE  Tail(pending)[j] =
                   TablesOf[call][Len(TablesOf[call]) - Len(Tail(pending)) + j]
      <4>1. Len(Tail(pending)) = Len(pending) - 1 /\ Len(Tail(pending)) \in Nat
        BY <3>2
      <4>2. j + 1 \in 1..Len(pending) /\ j \in 1..(Len(pending) - 1)
        BY <3>3, <4>1
      <4>3. Len(TablesOf[call]) - Len(pending) + (j + 1)
              = Len(TablesOf[call]) - Len(Tail(pending)) + j
        BY <3>2, <3>3, <4>1, <4>2, NextTable, Zenon
      <4>4. pending[j + 1] = TablesOf[call][Len(TablesOf[call]) - Len(pending) + (j + 1)]
        BY <4>2 DEF Shape
      <4> QED
        BY <3>2, <4>2, <4>3, <4>4
    <3>6. 1 \in DOMAIN Tables[silicon][Tail(pending)[1]]
      <4>1. n + 1 \in 1..Len(TablesOf[call])
        BY <2>1, <3>3 DEF Shape
      <4>2. Tail(pending)[1] = TablesOf[call][n + 1]
        <5>1. 1 \in 1..Len(Tail(pending)) /\ Len(Tail(pending)) \in Nat
          BY <3>2, <3>3, <2>1
        <5>2. Len(TablesOf[call]) - Len(Tail(pending)) + 1 = n + 1
          BY <3>2, <3>3, <5>1, NextTable
        <5> QED
          BY <3>5, <5>1, <5>2
      <4> HIDE DEF n
      <4>3. /\ Len(Tables[silicon][TablesOf[call][n + 1]]) \in Nat \ {0}
            /\ DOMAIN Tables[silicon][TablesOf[call][n + 1]]
                 = 1..Len(Tables[silicon][TablesOf[call][n + 1]])
        <5>1. silicon \in Silicon /\ call \in Functions
          BY <1>2
        <5> QED
          BY <4>1, <5>1, TableShape, Zenon
      <4>4. 1 \in 1..Len(Tables[silicon][TablesOf[call][n + 1]])
        BY <4>3, NextTable, Zenon
      <4> QED
        BY <4>2, <4>3, <4>4, Zenon
    <3>7. Len(Tail(pending)) <= Len(TablesOf[call])
      BY <3>2, <3>3 DEF Shape
    <3> QED
      BY <1>2, <1>7, <3>1, <3>2, <3>4, <3>5, <3>6, <3>7 DEF Shape
  <2>2. CASE ~(Len(pending) > 1)
    <3>1. pending' = <<>> /\ ret' = [ret EXCEPT ![call] = PS7_INIT_SUCCESS]
      BY <1>1, <2>2 DEF Finish
    <3>2. Len(pending) = 1 /\ Len(TablesOf[call]) \in Nat
      <4>1. Len(pending) \in Nat /\ Len(pending) # 0 /\ Len(TablesOf[call]) \in Nat
        BY <1>1, <1>2
      <4> QED
        BY <4>1, <2>2, NextTable, Zenon
    <3>3. Cursor' = <<n + 1, 1>>
      BY <1>7, <3>1, <3>2 DEF Cursor, End
    <3> QED
      BY <1>2, <1>7, <3>1, <3>2, <3>3 DEF Shape
  <2> QED
    BY <2>1, <2>2
<1>9. ASSUME NEW r \in Steps(silicon, call)
      PROVE  Precedes(r, Cursor') <=> Precedes(r, Cursor) \/ r = Cursor
  <2>1. r = <<r[1], r[2]>> /\ r[1] \in Nat /\ r[2] \in Nat
    BY <1>2, StepPairs
  <2>2. n \in Nat
    BY <1>3
  <2>3. Precedes(r, Cursor') <=> r[1] < n + 1 \/ (r[1] = n + 1 /\ r[2] < 1)
    BY <1>8 DEF Precedes
  <2>4. Precedes(r, Cursor) <=> r[1] < n \/ (r[1] = n /\ r[2] < ptr)
    BY <1>3 DEF Precedes
  <2>5. r = Cursor <=> r[1] = n /\ r[2] = ptr
    BY <1>3, <2>1
  <2>6. r[1] = n => r[2] \in 1..ptr
    BY <1>2, <1>6, StepPairs
  <2>7. r[2] >= 1
    BY <1>2, StepPairs
  <2> HIDE DEF n
  <2> QED
    BY <1>3, <2>1, <2>2, <2>3, <2>4, <2>5, <2>6, <2>7
<1> QED
  BY <1>3, <1>7, <1>8, <1>9 DEF Follow

-----------------------------------------------------------------------------
(* Facts of a write *)

\* A step writes to a register of the tables.  (Registers, WrittenBy.)
LEMMA StepRegister ==
  ASSUME NEW v \in Silicon, NEW f \in Functions, NEW r \in Steps(v, f), IsWrite(At(v, f, r))
  PROVE  At(v, f, r).reg \in Registers
<1> DEFINE t == TablesOf[f][r[1]]
<1>1. r[1] \in 1..Len(TablesOf[f]) /\ r[2] \in 1..Len(Tables[v][t])
  BY StepPairs
<1>2. t \in DOMAIN Tables_3_0 /\ r[2] \in DOMAIN Tables[v][t]
  BY <1>1, TableNames, TableShape
<1>3. At(v, f, r) = Tables[v][t][r[2]]
  BY DEF At
<1>4. At(v, f, r).reg \in WrittenBy(Tables[v][t])
  <2> HIDE DEF t
  <2> QED
    BY <1>2, <1>3 DEF WrittenBy
<1> QED
  BY <1>2, <1>4 DEF Registers

\* The registers become what the write sets, and are else what they were.
WrittenAs(op) ==
  /\ DOMAIN regs' = Registers
  /\ \A reg \in Registers : op.reg # reg => regs'[reg] = regs[reg]
  /\ \A reg \in Registers : \A field :
       /\ field \in DOMAIN regs'[reg] <=> Sets(op, reg, field) \/ field \in DOMAIN regs[reg]
       /\ Sets(op, reg, field) => regs'[reg][field] = op.fields[field]
       /\ ~Sets(op, reg, field) /\ field \in DOMAIN regs[reg]
            => regs'[reg][field] = regs[reg][field]

\* No write is lost, and none takes a field away.  (Stored, and WritesArrive.)
LEMMA WriteArrives ==
  ASSUME Shape, RegsInv, LockFollows(Cursor), DoWrite
  PROVE  /\ pending # <<>> /\ IsWrite(At(silicon, call, Cursor))
         /\ Op = At(silicon, call, Cursor)
         /\ Cursor \in Steps(silicon, call)
         /\ WrittenAs(At(silicon, call, Cursor))
<1> DEFINE op == At(silicon, call, Cursor)
<1>1. pending # <<>> /\ IsWrite(Op) /\ regs' = Stored(Op)
  BY DEF DoWrite
<1>2. Op = op /\ Cursor \in Steps(silicon, call) /\ IsWrite(op)
  BY <1>1, AtCursor DEF IsWrite
<1>3. silicon \in Silicon /\ call \in Functions
  BY DEF Shape
<1>4. WritesArrive(silicon)
  BY <1>3, TablesAssumption
<1>5. op.reg \in Registers
  BY <1>2, <1>3, StepRegister
<1>6. Protected(op.reg) => unlocked
  BY <1>2, <1>3, <1>4 DEF WritesArrive, LockFollows
<1> HIDE DEF op
<1>7. regs' = [regs EXCEPT ![op.reg] =
                  IF op.op = "write" THEN op.fields ELSE Over(op.fields, regs[op.reg])]
  BY <1>1, <1>2, <1>6 DEF Stored
<1>8. DOMAIN regs = Registers
  BY DEF RegsInv
<1>9. /\ DOMAIN regs' = Registers
      /\ \A reg \in Registers : op.reg # reg => regs'[reg] = regs[reg]
  BY <1>7, <1>8
<1>10. ASSUME NEW reg \in Registers, NEW field
       PROVE  /\ field \in DOMAIN regs'[reg] <=> Sets(op, reg, field) \/ field \in DOMAIN regs[reg]
              /\ Sets(op, reg, field) => regs'[reg][field] = op.fields[field]
              /\ ~Sets(op, reg, field) /\ field \in DOMAIN regs[reg]
                   => regs'[reg][field] = regs[reg][field]
  <2>1. CASE reg # op.reg
    BY <1>9, <2>1 DEF Sets
  <2>2. CASE reg = op.reg /\ op.op = "write"
    <3>1. regs'[reg] = op.fields
      BY <1>5, <1>7, <1>8, <2>2
    <3>2. Sets(op, reg, field) <=> field \in DOMAIN op.fields
      BY <1>2, <2>2 DEF Sets
    <3>3. field \in DOMAIN regs[reg] => field \in DOMAIN op.fields
      <4>1. ~IsPll(reg)
        BY <1>2, <1>3, <1>4, <2>2 DEF WritesArrive, IsPll, op
      <4>2. \A g \in Functions : \A r \in Steps(silicon, g) :
              IsWrite(At(silicon, g, r)) /\ At(silicon, g, r).reg = op.reg
                => DOMAIN At(silicon, g, r).fields \subseteq DOMAIN op.fields
        BY <1>2, <1>3, <1>4, <2>2 DEF WritesArrive, op
      <4>3. field \in DOMAIN regs[reg] => Known(silicon, reg, field)
        BY <4>1 DEF RegsInv
      <4> QED
        BY <4>2, <4>3, <2>2 DEF Known, Sets
    <3> QED
      BY <3>1, <3>2, <3>3
  <2>3. CASE reg = op.reg /\ op.op # "write"
    <3>1. regs'[reg] = Over(op.fields, regs[reg])
      BY <1>5, <1>7, <1>8, <2>3
    <3>2. Sets(op, reg, field) <=> field \in DOMAIN op.fields
      BY <1>2, <2>3 DEF Sets
    <3> QED
      BY <3>1, <3>2 DEF Over
  <2> QED
    BY <2>1, <2>2, <2>3
<1>11. WrittenAs(op)
  BY <1>9, <1>10 DEF WrittenAs
<1> QED
  BY <1>1, <1>2, <1>11 DEF op

\* What a field then holds.
LEMMA WriteHolds ==
  ASSUME NEW op, WrittenAs(op), NEW reg \in Registers, NEW field, NEW value
  PROVE  Holds(regs', reg, field, value) <=>
            \/ Puts(op, reg, field, value)
            \/ Holds(regs, reg, field, value) /\ ~Sets(op, reg, field)
BY DEF WrittenAs, Holds, Puts

\* The registers the hardware looks at are among those of the tables.
LEMMA HardwareRegisters ==
  ASSUME Shape
  PROVE  /\ \A c \in DOMAIN ClockReg : ClockReg[c] \in Registers
         /\ \A p \in Plls : Ctrl[p] \in Registers
         /\ {DciCtrl, DdrcCtrl, FabricReset, LevelShifters} \subseteq Registers
         /\ \A w \in DrivenLow : w[1] \in Registers
<1>1. silicon \in Silicon /\ WritesAll(silicon)
  BY TablesAssumption DEF Shape
<1>2. UNION {WrittenBy(Tables[silicon][t]) : t \in DOMAIN Tables_3_0} \subseteq Registers
  BY <1>1 DEF Registers
<1> QED
  BY <1>1, <1>2 DEF WritesAll

\* What was put was put to a register of the tables.
LEMMA WasRegister ==
  ASSUME NEW v \in Silicon, NEW f \in Functions, NEW s, NEW reg, NEW field, NEW value,
         Was(v, f, s, reg, field, value)
  PROVE  reg \in Registers
<1>1. PICK r \in Steps(v, f) : Puts(At(v, f, r), reg, field, value)
  BY DEF Was
<1>2. IsWrite(At(v, f, r)) /\ At(v, f, r).reg = reg
  BY <1>1 DEF Puts, Sets
<1> QED
  BY <1>1, <1>2, StepRegister

\* While a function has not failed, what was put is what the register holds.
LEMMA WasHolds ==
  ASSUME Follows, NEW reg, NEW field, NEW value,
         Was(silicon, call, Cursor, reg, field, value)
  PROVE  Holds(regs, reg, field, value)
<1>1. <<reg, field, value>> \in Effect(silicon, call, Cursor)
  BY EffectWas
<1> QED
  BY <1>1 DEF Follows, HoldsEffect

-----------------------------------------------------------------------------
(* A write keeps the invariant *)

\* A PLL that runs is reset only by a write that says so, and then it has been
\* bypassed; the bypass is lifted where the lock was seen.  (PllsFirst, React.)
LEMMA WritePlls ==
  ASSUME Shape, RegsInv, HardwareInv, Follows, DoWrite, NEW p \in Plls
  PROVE  LET op == At(silicon, call, Cursor)
         IN  /\ Holds(regs', Ctrl[p], "PLL_RESET", 1) => pll'[p] = 0
             /\ pll'[p] = 0 => ~Holds(regs', Ctrl[p], "PLL_BYPASS_FORCE", 0)
             /\ pll'[p] \in {0, pll[p]}
             /\ pll[p] # 0 /\ ~Sets(op, Ctrl[p], "PLL_RESET") => pll'[p] = pll[p]
<1> DEFINE op == At(silicon, call, Cursor)
<1>1. LockFollows(Cursor) /\ PllsFollow(Cursor)
  BY DEF Follows
<1>2. IsWrite(op) /\ Cursor \in Steps(silicon, call) /\ WrittenAs(op)
  BY <1>1, WriteArrives
<1>3. Ctrl[p] \in Registers /\ silicon \in Silicon /\ call \in Functions
  BY HardwareRegisters DEF Shape
<1>4. pll' = [q \in Plls |-> IF Holds(regs', Ctrl[q], "PLL_RESET", 1) THEN 0 ELSE pll[q]]
  BY DEF DoWrite, React
<1>5. /\ Holds(regs, Ctrl[p], "PLL_RESET", 1) => pll[p] = 0
      /\ pll[p] = 0 => ~Holds(regs, Ctrl[p], "PLL_BYPASS_FORCE", 0)
  BY DEF HardwareInv
<1>6. /\ Puts(op, Ctrl[p], "PLL_RESET", 1) =>
           Was(silicon, call, Cursor, Ctrl[p], "PLL_BYPASS_FORCE", 1)
      /\ Puts(op, Ctrl[p], "PLL_BYPASS_FORCE", 0) =>
           Locked(silicon, call, Cursor, p) /\ ~Sets(op, Ctrl[p], "PLL_RESET")
  BY <1>2, <1>3, TablesAssumption DEF PllsFirst
<1>7. Puts(op, Ctrl[p], "PLL_RESET", 1) => ~Holds(regs, Ctrl[p], "PLL_BYPASS_FORCE", 0)
  <2>1. ASSUME Puts(op, Ctrl[p], "PLL_RESET", 1)
        PROVE  Holds(regs, Ctrl[p], "PLL_BYPASS_FORCE", 1)
    <3> HIDE DEF op
    <3> QED
      BY <1>6, <2>1, WasHolds
  <2> QED
    BY <2>1 DEF Holds
<1>8. Puts(op, Ctrl[p], "PLL_BYPASS_FORCE", 0) => pll[p] # 0
  BY <1>1, <1>6 DEF PllsFollow
<1> HIDE DEF op
<1>9. \A field, value :
        Holds(regs', Ctrl[p], field, value) <=>
           \/ Puts(op, Ctrl[p], field, value)
           \/ Holds(regs, Ctrl[p], field, value) /\ ~Sets(op, Ctrl[p], field)
  BY <1>2, <1>3, WriteHolds
<1>10. Puts(op, Ctrl[p], "PLL_RESET", 1) => Sets(op, Ctrl[p], "PLL_RESET")
  BY DEF Puts
<1>11. pll'[p] = IF Holds(regs', Ctrl[p], "PLL_RESET", 1) THEN 0 ELSE pll[p]
  BY <1>4
<1>12. Holds(regs', Ctrl[p], "PLL_RESET", 1) <=>
          \/ Puts(op, Ctrl[p], "PLL_RESET", 1)
          \/ Holds(regs, Ctrl[p], "PLL_RESET", 1) /\ ~Sets(op, Ctrl[p], "PLL_RESET")
  BY <1>9
<1>13. Holds(regs', Ctrl[p], "PLL_BYPASS_FORCE", 0) <=>
          \/ Puts(op, Ctrl[p], "PLL_BYPASS_FORCE", 0)
          \/ Holds(regs, Ctrl[p], "PLL_BYPASS_FORCE", 0)
               /\ ~Sets(op, Ctrl[p], "PLL_BYPASS_FORCE")
  BY <1>9
<1>14. pll[p] # 0 /\ ~Sets(op, Ctrl[p], "PLL_RESET") => pll'[p] = pll[p]
  BY <1>5, <1>10, <1>11, <1>12
<1>15. pll'[p] = 0 => ~Holds(regs', Ctrl[p], "PLL_BYPASS_FORCE", 0)
  BY <1>5, <1>6, <1>7, <1>8, <1>10, <1>11, <1>12, <1>13
<1> QED
  BY <1>11, <1>14, <1>15 DEF op

\* The other parts of the hardware.  (React.)
LEMMA WriteHardware ==
  ASSUME Shape, RegsInv, HardwareInv, Follows, DoWrite
  PROVE  RegsInv' /\ HardwareInv'
<1> DEFINE op == At(silicon, call, Cursor)
<1>1. LockFollows(Cursor)
  BY DEF Follows
<1>2. IsWrite(op) /\ Cursor \in Steps(silicon, call) /\ WrittenAs(op) /\ silicon' = silicon
  BY <1>1, WriteArrives DEF DoWrite, NextOp
<1>3. silicon \in Silicon /\ call \in Functions
  BY DEF Shape
<1>4. DOMAIN regs' = Registers
  BY <1>2 DEF WrittenAs
<1>5. ASSUME NEW reg \in Registers, NEW field \in DOMAIN regs'[reg]
      PROVE  IsPll(reg) \/ Known(silicon, reg, field)
  <2>1. Sets(op, reg, field) \/ field \in DOMAIN regs[reg]
    BY <1>2 DEF WrittenAs
  <2>2. CASE Sets(op, reg, field)
    BY <1>2, <1>3, <2>2 DEF Known
  <2>3. CASE field \in DOMAIN regs[reg]
    BY <2>3 DEF RegsInv
  <2> QED
    BY <2>1, <2>2, <2>3
<1>6. ASSUME NEW p \in Plls
      PROVE  "PLL_FDIV" \in DOMAIN regs'[Ctrl[p]]
  <2>1. Ctrl[p] \in Registers /\ "PLL_FDIV" \in DOMAIN regs[Ctrl[p]]
    BY HardwareRegisters DEF RegsInv
  <2> QED
    BY <1>2, <2>1 DEF WrittenAs
<1>7. RegsInv'
  BY <1>2, <1>4, <1>5, <1>6 DEF RegsInv
<1>8. DOMAIN pll' = Plls
  BY DEF DoWrite, React
<1>9. unlocked' \in BOOLEAN
  BY DEF DoWrite, HardwareInv
<1>10. /\ Holds(regs', DciCtrl, "RESET", 0) => dci' = "reset"
       /\ ddr_up' = (ddr_up /\ Holds(regs', DdrcCtrl, "reg_ddrc_soft_rstb", 1))
  <2>1. React
    BY DEF DoWrite
  <2>2. Holds(regs', DciCtrl, "RESET", 0) => ~Holds(regs', DciCtrl, "RESET", 1)
    BY DEF Holds
  <2> QED
    BY <2>1, <2>2 DEF React
<1>11. ddr_up' \in BOOLEAN /\ (ddr_up' => Released(regs'))
  BY <1>10 DEF Released
<1>12. \A p \in Plls :
        /\ Holds(regs', Ctrl[p], "PLL_RESET", 1) => pll'[p] = 0
        /\ pll'[p] = 0 => ~Holds(regs', Ctrl[p], "PLL_BYPASS_FORCE", 0)
  BY WritePlls
<1>13. HardwareInv'
  BY <1>8, <1>9, <1>10, <1>11, <1>12 DEF HardwareInv
<1> QED
  BY <1>7, <1>13

\* What the PLLs were seen to do they still do after a write.
LEMMA WritePllsFollow ==
  ASSUME Shape, RegsInv, HardwareInv, Follows, DoWrite,
         NEW t, Follow(silicon, call, Cursor, t), NEW p \in Plls
  PROVE  /\ Locked(silicon, call, t, p) => pll'[p] # 0
         /\ Restarted(silicon, call, t, p) => pll'[p] \in {0, regs'[Ctrl[p]].PLL_FDIV}
<1> DEFINE op == At(silicon, call, Cursor)
<1>1. LockFollows(Cursor) /\ PllsFollow(Cursor)
  BY DEF Follows
<1>2. IsWrite(op) /\ WrittenAs(op)
  BY <1>1, WriteArrives
<1>3. /\ Holds(regs', Ctrl[p], "PLL_RESET", 1) => pll'[p] = 0
      /\ pll'[p] \in {0, pll[p]}
      /\ pll[p] # 0 /\ ~Sets(op, Ctrl[p], "PLL_RESET") => pll'[p] = pll[p]
  BY WritePlls
<1>4. ASSUME Locked(silicon, call, t, p)
      PROVE  pll'[p] # 0
  <2>1. ~Polls(op, LockBit[p])
    BY <1>2 DEF Polls, IsWrite
  <2>2. Seen(silicon, call, t, LockBit[p], Ctrl[p], "PLL_RESET")
    BY <1>4 DEF Locked
  <2>3. Seen(silicon, call, Cursor, LockBit[p], Ctrl[p], "PLL_RESET")
          /\ ~Sets(op, Ctrl[p], "PLL_RESET")
    BY <2>1, <2>2, SeenStep
  <2>4. pll[p] # 0
    BY <1>1, <2>3 DEF PllsFollow, Locked
  <2> QED
    BY <1>3, <2>3, <2>4
<1>5. ASSUME Restarted(silicon, call, t, p)
      PROVE  pll'[p] \in {0, regs'[Ctrl[p]].PLL_FDIV}
  <2>1. PICK r \in Steps(silicon, call) :
          /\ Puts(At(silicon, call, r), Ctrl[p], "PLL_RESET", 1)
          /\ Stands(silicon, call, r, Ctrl[p], "PLL_FDIV", t)
    BY <1>5 DEF Restarted
  <2>2. \/ r = Cursor
        \/ Stands(silicon, call, r, Ctrl[p], "PLL_FDIV", Cursor)
             /\ ~Sets(op, Ctrl[p], "PLL_FDIV")
    BY <2>1, StandsStep
  <2>3. Ctrl[p] \in Registers /\ "PLL_FDIV" \in DOMAIN regs[Ctrl[p]]
    BY HardwareRegisters DEF RegsInv
  <2>4. CASE r = Cursor
    <3>1. Puts(op, Ctrl[p], "PLL_RESET", 1)
      BY <2>1, <2>4
    <3>2. Holds(regs', Ctrl[p], "PLL_RESET", 1)
      <4> HIDE DEF op
      <4> QED
        BY <1>2, <2>3, <3>1, WriteHolds
    <3> QED
      BY <1>3, <3>2
  <2>5. CASE Stands(silicon, call, r, Ctrl[p], "PLL_FDIV", Cursor)
               /\ ~Sets(op, Ctrl[p], "PLL_FDIV")
    <3>1. Restarted(silicon, call, Cursor, p)
      BY <2>1, <2>5 DEF Restarted
    <3>2. pll[p] \in {0, regs[Ctrl[p]].PLL_FDIV}
      BY <1>1, <3>1 DEF PllsFollow
    <3>3. regs'[Ctrl[p]].PLL_FDIV = regs[Ctrl[p]].PLL_FDIV
      BY <1>2, <2>3, <2>5 DEF WrittenAs
    <3> QED
      BY <1>3, <3>2, <3>3
  <2> QED
    BY <2>2, <2>4, <2>5
<1> QED
  BY <1>4, <1>5

\* So does the DDR controller, and the calibration of its pins.
LEMMA WriteDdrFollows ==
  ASSUME Shape, RegsInv, HardwareInv, Follows, DoWrite,
         NEW t, Follow(silicon, call, Cursor, t)
  PROVE  /\ Seen(silicon, call, t, "DONE", DciCtrl, "RESET") => dci' = "done"
         /\ Seen(silicon, call, t, "ddrc_reg_operating_mode", DdrcCtrl, "reg_ddrc_soft_rstb")
              => ddr_up'
<1> DEFINE op == At(silicon, call, Cursor)
<1>1. LockFollows(Cursor) /\ DdrFollows(Cursor)
  BY DEF Follows
<1>2. IsWrite(op) /\ WrittenAs(op)
  BY <1>1, WriteArrives
<1>3. {DciCtrl, DdrcCtrl} \subseteq Registers
  BY HardwareRegisters
<1>4. React
  BY DEF DoWrite
<1>5. \A bit : ~Polls(op, bit)
  BY <1>2 DEF Polls, IsWrite
<1>6. ASSUME Seen(silicon, call, t, "DONE", DciCtrl, "RESET")
      PROVE  dci' = "done"
  <2>1. Seen(silicon, call, Cursor, "DONE", DciCtrl, "RESET") /\ ~Sets(op, DciCtrl, "RESET")
    BY <1>5, <1>6, SeenStep
  <2>2. dci = "done"
    BY <1>1, <2>1 DEF DdrFollows
  <2>3. ~Holds(regs, DciCtrl, "RESET", 0)
    BY <2>2 DEF HardwareInv
  <2> HIDE DEF op
  <2>4. ~Holds(regs', DciCtrl, "RESET", 0)
    BY <1>2, <1>3, <2>1, <2>3, WriteHolds DEF Puts
  <2> QED
    BY <1>4, <2>2, <2>4 DEF React
<1>7. ASSUME Seen(silicon, call, t, "ddrc_reg_operating_mode", DdrcCtrl, "reg_ddrc_soft_rstb")
      PROVE  ddr_up'
  <2>1. Seen(silicon, call, Cursor, "ddrc_reg_operating_mode", DdrcCtrl, "reg_ddrc_soft_rstb")
          /\ ~Sets(op, DdrcCtrl, "reg_ddrc_soft_rstb")
    BY <1>5, <1>7, SeenStep
  <2>2. ddr_up
    BY <1>1, <2>1 DEF DdrFollows
  <2>3. Holds(regs, DdrcCtrl, "reg_ddrc_soft_rstb", 1)
    BY <2>2 DEF HardwareInv, Released
  <2> HIDE DEF op
  <2>4. Holds(regs', DdrcCtrl, "reg_ddrc_soft_rstb", 1)
    BY <1>2, <1>3, <2>1, <2>3, WriteHolds
  <2> QED
    BY <1>4, <2>2, <2>4 DEF React
<1> QED
  BY <1>6, <1>7

\* So does the lock of the SLCR.
LEMMA WriteLockFollows ==
  ASSUME Shape, RegsInv, Follows, DoWrite,
         NEW t, Follow(silicon, call, Cursor, t)
  PROVE  /\ Opened(silicon, call, t) => unlocked'
         /\ Closed(silicon, call, t) => ~unlocked'
<1> DEFINE op == At(silicon, call, Cursor)
<1>1. LockFollows(Cursor)
  BY DEF Follows
<1>2. /\ IsWrite(op) /\ Op = op /\ Cursor \in Steps(silicon, call)
      /\ silicon \in Silicon /\ call \in Functions
  BY <1>1, WriteArrives DEF Shape
<1>3. /\ op.reg = SlcrUnlock => Sets(op, SlcrUnlock, "UNLOCK_KEY")
      /\ op.reg = SlcrLock => Sets(op, SlcrLock, "LOCK_KEY")
  BY <1>2, TablesAssumption DEF WritesArrive, Sets
<1>4. SlcrUnlock # SlcrLock
  BY DEF SlcrUnlock, SlcrLock
<1>5. unlocked' = CASE op.reg = SlcrUnlock -> TRUE
                    [] op.reg = SlcrLock -> FALSE
                    [] OTHER -> unlocked
  BY <1>2 DEF DoWrite, SlcrUnlock, SlcrLock
<1>6. ASSUME Opened(silicon, call, t)
      PROVE  unlocked'
  <2>1. PICK r \in Steps(silicon, call) :
          /\ Sets(At(silicon, call, r), SlcrUnlock, "UNLOCK_KEY")
          /\ Stands(silicon, call, r, SlcrLock, "LOCK_KEY", t)
    BY <1>6 DEF Opened
  <2>2. \/ r = Cursor
        \/ Stands(silicon, call, r, SlcrLock, "LOCK_KEY", Cursor)
             /\ ~Sets(op, SlcrLock, "LOCK_KEY")
    BY <2>1, StandsStep
  <2>3. CASE r = Cursor
    <3>1. op.reg = SlcrUnlock
      BY <2>1, <2>3 DEF Sets
    <3> HIDE DEF op
    <3> QED
      BY <1>4, <1>5, <3>1
  <2>4. CASE Stands(silicon, call, r, SlcrLock, "LOCK_KEY", Cursor)
               /\ ~Sets(op, SlcrLock, "LOCK_KEY")
    <3>1. unlocked
      BY <1>1, <2>1, <2>4 DEF LockFollows, Opened
    <3>2. op.reg # SlcrLock
      BY <1>3, <2>4
    <3> HIDE DEF op
    <3> QED
      BY <1>5, <3>1, <3>2
  <2> QED
    BY <2>2, <2>3, <2>4
<1>7. ASSUME Closed(silicon, call, t)
      PROVE  ~unlocked'
  <2>1. PICK r \in Steps(silicon, call) :
          /\ Sets(At(silicon, call, r), SlcrLock, "LOCK_KEY")
          /\ Stands(silicon, call, r, SlcrUnlock, "UNLOCK_KEY", t)
    BY <1>7 DEF Closed
  <2>2. \/ r = Cursor
        \/ Stands(silicon, call, r, SlcrUnlock, "UNLOCK_KEY", Cursor)
             /\ ~Sets(op, SlcrUnlock, "UNLOCK_KEY")
    BY <2>1, StandsStep
  <2>3. CASE r = Cursor
    <3>1. op.reg = SlcrLock
      BY <2>1, <2>3 DEF Sets
    <3> HIDE DEF op
    <3> QED
      BY <1>4, <1>5, <3>1
  <2>4. CASE Stands(silicon, call, r, SlcrUnlock, "UNLOCK_KEY", Cursor)
               /\ ~Sets(op, SlcrUnlock, "UNLOCK_KEY")
    <3>1. ~unlocked
      BY <1>1, <2>1, <2>4 DEF LockFollows, Closed
    <3>2. op.reg # SlcrUnlock
      BY <1>3, <2>4
    <3> HIDE DEF op
    <3> QED
      BY <1>5, <3>1, <3>2
  <2> QED
    BY <2>2, <2>3, <2>4
<1> QED
  BY <1>6, <1>7

\* A write keeps the invariant.  (DoWrite.)
LEMMA WriteKeeps ==
  ASSUME Shape, RegsInv, HardwareInv, Follows, DoWrite
  PROVE  Shape' /\ RegsInv' /\ HardwareInv' /\ Follows'
<1> DEFINE op == At(silicon, call, Cursor)
<1>1. LockFollows(Cursor)
  BY DEF Follows
<1>2. /\ IsWrite(op) /\ WrittenAs(op) /\ Op = op /\ pending # <<>>
      /\ silicon \in Silicon /\ call \in Functions
  BY <1>1, WriteArrives DEF Shape
<1>3. Op.op \notin {"undefined", "exit"} /\ NextOp
  BY <1>2 DEF IsWrite, DoWrite
<1>4. Shape' /\ Follow(silicon, call, Cursor, Cursor') /\ silicon' = silicon /\ call' = call
  BY <1>2, <1>3, NextOpFollows
<1>5. ASSUME NEW w \in Effect(silicon, call, Cursor')
      PROVE  Holds(regs', w[1], w[2], w[3])
  <2>1. Was(silicon, call, Cursor', w[1], w[2], w[3])
    BY EffectWas
  <2>2. w[1] \in Registers
    BY <1>2, <2>1, WasRegister
  <2>3. \/ Puts(op, w[1], w[2], w[3])
        \/ Was(silicon, call, Cursor, w[1], w[2], w[3]) /\ ~Sets(op, w[1], w[2])
    BY <1>4, <2>1, WasStep
  <2> HIDE DEF op
  <2>4. Was(silicon, call, Cursor, w[1], w[2], w[3]) => Holds(regs, w[1], w[2], w[3])
    BY WasHolds
  <2> QED
    BY <1>2, <2>2, <2>3, <2>4, WriteHolds
<1>6. HoldsEffect(Effect(silicon, call, Cursor))'
  BY <1>4, <1>5 DEF HoldsEffect
<1>7. PllsFollow(Cursor)'
  BY <1>4, WritePllsFollow DEF PllsFollow
<1>8. DdrFollows(Cursor)'
  BY <1>4, WriteDdrFollows DEF DdrFollows
<1>9. LockFollows(Cursor)'
  BY <1>4, WriteLockFollows DEF LockFollows
<1> QED
  BY <1>4, <1>6, <1>7, <1>8, <1>9, WriteHardware DEF Follows

-----------------------------------------------------------------------------
(* The other steps keep the invariant *)

\* The bits of the PLLs, answered.  (Answered.)
LEMMA PollSees ==
  ASSUME NEW op, Answered(op), NEW p \in Plls, Polls(op, LockBit[p])
  PROVE  pll[p] # 0
<1>1. CASE p = "ARM"
  BY <1>1 DEF Polls, Answered, LockBit
<1>2. CASE p = "DDR"
  BY <1>2 DEF Polls, Answered, LockBit
<1>3. CASE p = "IO"
  BY <1>3 DEF Polls, Answered, LockBit
<1> QED
  BY <1>1, <1>2, <1>3 DEF Plls

\* A step that writes nothing, and if it polls has its answer, adds to what the
\* steps say only the bit it has seen.  (PollOk, DelayDone, DoExit.)
LEMMA PassKeeps ==
  ASSUME Shape, RegsInv, HardwareInv, Follows,
         Follow(silicon, call, Cursor, Cursor'), silicon' = silicon, call' = call,
         regs' = regs, unlocked' = unlocked, pll' = pll, dci' = dci, ddr_up' = ddr_up,
         ~IsWrite(At(silicon, call, Cursor)),
         At(silicon, call, Cursor).op = "maskpoll" => Answered(At(silicon, call, Cursor))
  PROVE  RegsInv' /\ HardwareInv' /\ Follows'
<1> DEFINE op == At(silicon, call, Cursor)
<1>1. RegsInv'
  BY DEF RegsInv
<1>2. HardwareInv'
  BY DEF HardwareInv, Released
<1>3. \A reg, field : ~Sets(op, reg, field)
  BY DEF Sets
<1>4. \A reg, field, value : ~Puts(op, reg, field, value)
  BY <1>3 DEF Puts
<1>5. silicon \in Silicon /\ call \in Functions
  BY DEF Shape
<1>6. /\ HoldsEffect(Effect(silicon, call, Cursor)) /\ PllsFollow(Cursor)
      /\ DdrFollows(Cursor) /\ LockFollows(Cursor)
  BY DEF Follows
<1>7. ASSUME NEW w \in Effect(silicon, call, Cursor')
      PROVE  Holds(regs, w[1], w[2], w[3])
  <2>1. Was(silicon, call, Cursor', w[1], w[2], w[3])
    BY EffectWas
  <2>2. Was(silicon, call, Cursor, w[1], w[2], w[3])
    BY <1>4, <2>1, WasStep
  <2> QED
    BY <2>2, WasHolds
<1>8. HoldsEffect(Effect(silicon, call, Cursor))'
  BY <1>7 DEF HoldsEffect
<1>9. ASSUME NEW p \in Plls
      PROVE  /\ Locked(silicon, call, Cursor', p) => pll[p] # 0
             /\ Restarted(silicon, call, Cursor', p) => pll[p] \in {0, regs[Ctrl[p]].PLL_FDIV}
  <2>1. Polls(op, LockBit[p]) => pll[p] # 0
    <3>1. Polls(op, LockBit[p]) => Answered(op)
      BY DEF Polls
    <3> HIDE DEF op
    <3> QED
      BY <3>1, PollSees
  <2>2. Locked(silicon, call, Cursor', p) =>
           Polls(op, LockBit[p]) \/ Locked(silicon, call, Cursor, p)
    BY SeenStep DEF Locked
  <2>3. ASSUME Restarted(silicon, call, Cursor', p)
        PROVE  Restarted(silicon, call, Cursor, p)
    <3>1. PICK r \in Steps(silicon, call) :
            /\ Puts(At(silicon, call, r), Ctrl[p], "PLL_RESET", 1)
            /\ Stands(silicon, call, r, Ctrl[p], "PLL_FDIV", Cursor')
      BY <2>3 DEF Restarted
    <3>2. r = Cursor \/ Stands(silicon, call, r, Ctrl[p], "PLL_FDIV", Cursor)
      BY <3>1, StandsStep
    <3>3. r # Cursor
      BY <1>4, <3>1
    <3> QED
      BY <3>1, <3>2, <3>3 DEF Restarted
  <2> QED
    BY <1>6, <2>1, <2>2, <2>3 DEF PllsFollow
<1>10. PllsFollow(Cursor)'
  BY <1>9 DEF PllsFollow
<1>11. DdrFollows(Cursor)'
  <2>1. Polls(op, "DONE") => dci = "done"
    BY DEF Polls, Answered
  <2>2. Polls(op, "ddrc_reg_operating_mode") => ddr_up
    BY DEF Polls, Answered
  <2>3. Seen(silicon, call, Cursor', "DONE", DciCtrl, "RESET") => dci = "done"
    BY <1>6, <2>1, SeenStep DEF DdrFollows
  <2>4. Seen(silicon, call, Cursor', "ddrc_reg_operating_mode", DdrcCtrl, "reg_ddrc_soft_rstb")
           => ddr_up
    BY <1>6, <2>2, SeenStep DEF DdrFollows
  <2> QED
    BY <2>3, <2>4 DEF DdrFollows
<1>12. LockFollows(Cursor)'
  <2>1. ASSUME Opened(silicon, call, Cursor')
        PROVE  unlocked
    <3>1. PICK r \in Steps(silicon, call) :
            /\ Sets(At(silicon, call, r), SlcrUnlock, "UNLOCK_KEY")
            /\ Stands(silicon, call, r, SlcrLock, "LOCK_KEY", Cursor')
      BY <2>1 DEF Opened
    <3>2. Stands(silicon, call, r, SlcrLock, "LOCK_KEY", Cursor)
      BY <1>3, <3>1, StandsStep
    <3> QED
      BY <1>6, <3>1, <3>2 DEF LockFollows, Opened
  <2>2. ASSUME Closed(silicon, call, Cursor')
        PROVE  ~unlocked
    <3>1. PICK r \in Steps(silicon, call) :
            /\ Sets(At(silicon, call, r), SlcrLock, "LOCK_KEY")
            /\ Stands(silicon, call, r, SlcrUnlock, "UNLOCK_KEY", Cursor')
      BY <2>2 DEF Closed
    <3>2. Stands(silicon, call, r, SlcrUnlock, "UNLOCK_KEY", Cursor)
      BY <1>3, <3>1, StandsStep
    <3> QED
      BY <1>6, <3>1, <3>2 DEF LockFollows, Closed
  <2> QED
    BY <2>1, <2>2 DEF LockFollows
<1> QED
  BY <1>1, <1>2, <1>8, <1>10, <1>11, <1>12 DEF Follows

\* A step that leaves the function where it is.  (PollStart, PollAgain,
\* DelayStart, Tick.)
LEMMA StayKeeps ==
  ASSUME IInv, UNCHANGED <<silicon, call, pending, ptr, ret>>,
         UNCHANGED <<regs, unlocked, pll, dci, ddr_up>>
  PROVE  IInv'
<1>1. Shape' /\ RegsInv'
  BY DEF IInv, Shape, RegsInv
<1>2. HardwareInv'
  BY DEF IInv, HardwareInv, Released
<1>3. Cursor' = Cursor /\ (Unfailed' <=> Unfailed)
  BY DEF Cursor, Unfailed
<1>4. Follows => Follows'
  <2>1. PllsFollow(Cursor) => PllsFollow(Cursor)'
    BY <1>3 DEF PllsFollow
  <2>2. DdrFollows(Cursor) => DdrFollows(Cursor)'
    BY <1>3 DEF DdrFollows
  <2>3. LockFollows(Cursor) => LockFollows(Cursor)'
    BY <1>3 DEF LockFollows
  <2>4. HoldsEffect(Effect(silicon, call, Cursor)) => HoldsEffect(Effect(silicon, call, Cursor))'
    BY <1>3 DEF HoldsEffect
  <2> QED
    BY <2>1, <2>2, <2>3, <2>4 DEF Follows
<1> QED
  BY <1>1, <1>2, <1>3, <1>4 DEF IInv

\* The hardware's own steps only add what a poll may see.
LEMMA HardwareKeeps ==
  ASSUME IInv, Hardware
  PROVE  IInv'
<1>1. UNCHANGED <<silicon, call, pending, ptr, ret, regs, unlocked>>
  BY DEF Hardware, PllLocks, DciDone, DdrUp, driver
<1>2. Shape' /\ RegsInv'
  BY <1>1 DEF IInv, Shape, RegsInv
<1>3. Cursor' = Cursor /\ (Unfailed' <=> Unfailed)
  BY <1>1 DEF Cursor, Unfailed
<1>4. /\ DOMAIN pll' = DOMAIN pll
      /\ \A p \in Plls : \/ pll'[p] = pll[p]
                        \/ /\ pll[p] = 0 /\ pll'[p] = regs[Ctrl[p]].PLL_FDIV
                           /\ Holds(regs, Ctrl[p], "PLL_RESET", 0)
  <2>1. CASE \E q \in Plls : PllLocks(q)
    BY <2>1 DEF PllLocks, IInv, HardwareInv
  <2>2. CASE DciDone \/ DdrUp
    BY <2>2 DEF DciDone, DdrUp
  <2> QED
    BY <2>1, <2>2 DEF Hardware
<1>5. dci' = dci \/ (dci = "started" /\ dci' = "done")
  BY DEF Hardware, PllLocks, DciDone, DdrUp
<1>6. ddr_up' = ddr_up \/ (ddr_up' = TRUE /\ Released(regs))
  BY DEF Hardware, PllLocks, DciDone, DdrUp, Released
<1>7. HardwareInv'
  <2>1. ASSUME NEW p \in Plls
        PROVE  /\ Holds(regs, Ctrl[p], "PLL_RESET", 1) => pll'[p] = 0
               /\ pll'[p] = 0 => ~Holds(regs, Ctrl[p], "PLL_BYPASS_FORCE", 0)
    BY <1>4 DEF IInv, HardwareInv, Holds
  <2>2. Holds(regs, DciCtrl, "RESET", 0) => dci' = "reset"
    BY <1>5 DEF IInv, HardwareInv
  <2>3. ddr_up' \in BOOLEAN /\ (ddr_up' => Released(regs))
    <3>1. ddr_up \in BOOLEAN /\ (ddr_up => Released(regs))
      BY DEF IInv, HardwareInv
    <3>2. CASE ddr_up' = ddr_up
      BY <3>1, <3>2
    <3>3. CASE ddr_up' = TRUE /\ Released(regs)
      BY <3>3
    <3> QED
      BY <1>6, <3>2, <3>3
  <2> QED
    BY <1>1, <1>4, <2>1, <2>2, <2>3 DEF IInv, HardwareInv
<1>8. Follows => Follows'
  <2>1. PllsFollow(Cursor) => PllsFollow(Cursor)'
    BY <1>1, <1>3, <1>4 DEF PllsFollow
  <2>2. DdrFollows(Cursor) => DdrFollows(Cursor)'
    BY <1>1, <1>3, <1>5, <1>6 DEF DdrFollows
  <2>3. LockFollows(Cursor) => LockFollows(Cursor)'
    BY <1>1, <1>3 DEF LockFollows
  <2>4. HoldsEffect(Effect(silicon, call, Cursor)) => HoldsEffect(Effect(silicon, call, Cursor))'
    BY <1>1, <1>3 DEF HoldsEffect
  <2> QED
    BY <2>1, <2>2, <2>3, <2>4 DEF Follows
<1> QED
  BY <1>2, <1>3, <1>7, <1>8 DEF IInv

\* A failure ends the function, and nothing more is claimed of it.
LEMMA FailKeeps ==
  ASSUME IInv, NEW result, result # PS7_INIT_SUCCESS, Finish(result)
  PROVE  IInv'
<1>1. /\ pending' = <<>> /\ ret' = [ret EXCEPT ![call] = result]
      /\ silicon' = silicon /\ call' = call
      /\ UNCHANGED <<regs, unlocked, pll, dci, ddr_up>>
  BY DEF Finish, hardware
<1>2. call \in Functions /\ TablesOf[call] \in Seq(DOMAIN Tables_3_0) /\ DOMAIN ret = Functions
  BY TableNames DEF IInv, Shape
<1>3. Shape'
  BY <1>1, <1>2 DEF IInv, Shape
<1>4. RegsInv' /\ HardwareInv'
  BY <1>1 DEF IInv, RegsInv, HardwareInv, Released
<1>5. ~Unfailed'
  BY <1>1, <1>2 DEF Unfailed
<1> QED
  BY <1>3, <1>4, <1>5 DEF IInv

\* At its first step nothing precedes a function.  (Call.)
LEMMA CallKeeps ==
  ASSUME IInv, NEW f \in Functions, Call(f)
  PROVE  IInv'
<1>1. /\ silicon' = silicon /\ call' = f /\ pending' = TablesOf[f] /\ ptr' = 1
      /\ UNCHANGED <<ret, regs, unlocked, pll, dci, ddr_up>>
  BY DEF Call, hardware
<1>2. silicon \in Silicon /\ TablesOf[f] \in Seq(DOMAIN Tables_3_0)
  BY TableNames DEF IInv, Shape
<1>3. TablesOf[f] # <<>> /\ Len(TablesOf[f]) \in Nat \ {0}
  BY DEF Functions, TablesOf
<1>4. ptr' \in DOMAIN Tables[silicon][TablesOf[f][1]]
  <2>1. 1 \in 1..Len(TablesOf[f])
    BY <1>3, NextTable, Zenon
  <2>2. /\ Len(Tables[silicon][TablesOf[f][1]]) \in Nat \ {0}
        /\ DOMAIN Tables[silicon][TablesOf[f][1]] = 1..Len(Tables[silicon][TablesOf[f][1]])
    BY <1>2, <2>1, TableShape
  <2>3. 1 \in 1..Len(Tables[silicon][TablesOf[f][1]])
    BY <2>2, NextTable, Zenon
  <2> QED
    BY <1>1, <2>2, <2>3, Zenon
<1>5. Shape'
  <2>1. \A j \in 1..Len(TablesOf[f]) : Len(TablesOf[f]) - Len(TablesOf[f]) + j = j
    BY <1>3
  <2> QED
    BY <1>1, <1>2, <1>3, <1>4, <2>1 DEF IInv, Shape
<1>6. Cursor' = <<1, 1>>
  BY <1>1, <1>3 DEF Cursor
<1>7. \A r \in Steps(silicon, f) : ~Precedes(r, Cursor')
  BY <1>2, <1>6, StepPairs DEF Precedes
<1>8. \A r \in Steps(silicon, f) : \A reg, field : ~Stands(silicon, f, r, reg, field, Cursor')
  BY <1>7 DEF Stands
<1>9. RegsInv' /\ HardwareInv'
  BY <1>1 DEF IInv, RegsInv, HardwareInv, Released
<1>10. HoldsEffect(Effect(silicon, call, Cursor))'
  BY <1>1, <1>8 DEF HoldsEffect, Effect
<1>11. PllsFollow(Cursor)'
  BY <1>1, <1>8 DEF PllsFollow, Locked, Seen, Restarted
<1>12. DdrFollows(Cursor)'
  BY <1>1, <1>8 DEF DdrFollows, Seen
<1>13. LockFollows(Cursor)'
  BY <1>1, <1>8 DEF LockFollows, Opened, Closed
<1> QED
  BY <1>5, <1>9, <1>10, <1>11, <1>12, <1>13 DEF IInv, Follows

\* Every step of the processor.  (Cpu.)
LEMMA CpuKeeps ==
  ASSUME IInv, Cpu
  PROVE  IInv'
<1> DEFINE op == At(silicon, call, Cursor)
<1>1. Shape /\ RegsInv /\ HardwareInv /\ (pending # <<>> => Follows)
  BY DEF IInv, Unfailed
<1>2. CASE DoWrite
  <2>1. pending # <<>>
    BY <1>2 DEF DoWrite
  <2> QED
    BY <1>1, <1>2, <2>1, WriteKeeps DEF IInv
<1>3. CASE PollStart \/ PollAgain \/ DelayStart
  <2>1. /\ UNCHANGED <<silicon, call, pending, ptr, ret>>
        /\ UNCHANGED <<regs, unlocked, pll, dci, ddr_up>>
    BY <1>3 DEF PollStart, PollAgain, DelayStart, hardware
  <2> QED
    BY <2>1, StayKeeps
<1>4. CASE PollOk \/ DelayDone
  <2>1. /\ pending # <<>> /\ Op.op \in {"maskpoll", "maskdelay"} /\ NextOp
        /\ UNCHANGED <<regs, unlocked, pll, dci, ddr_up>>
        /\ Op.op = "maskpoll" => Answered(Op)
    BY <1>4 DEF PollOk, DelayDone, Waits, hardware
  <2>2. Op = op
    BY <1>1, <2>1, AtCursor
  <2>3. /\ Shape' /\ Follow(silicon, call, Cursor, Cursor')
        /\ silicon' = silicon /\ call' = call
    BY <1>1, <2>1, NextOpFollows
  <2>4. ~IsWrite(op)
    BY <2>1, <2>2 DEF IsWrite
  <2>5. op.op = "maskpoll" => Answered(op)
    BY <2>1, <2>2
  <2>6. RegsInv' /\ HardwareInv' /\ Follows'
    BY <1>1, <2>1, <2>3, <2>4, <2>5, PassKeeps
  <2> QED
    BY <2>3, <2>6 DEF IInv
<1>5. CASE PollTimeout
  BY <1>5, FailKeeps DEF PollTimeout, PS7_INIT_TIMEOUT, PS7_INIT_SUCCESS
<1>6. CASE DoUndefined
  BY <1>6, FailKeeps DEF DoUndefined, PS7_INIT_CORRUPT, PS7_INIT_SUCCESS
<1>7. CASE DoExit
  <2>1. /\ pending # <<>> /\ Op.op = "exit"
        /\ UNCHANGED <<regs, unlocked, pll, dci, ddr_up>>
    BY <1>7 DEF DoExit, Fetches, Finish, hardware
  <2>2. Op = op
    BY <1>1, <2>1, AtCursor
  <2>3. /\ Shape' /\ Follow(silicon, call, Cursor, Cursor')
        /\ silicon' = silicon /\ call' = call
    BY <1>1, <1>7, ExitFollows
  <2>4. ~IsWrite(op) /\ op.op # "maskpoll"
    BY <2>1, <2>2 DEF IsWrite
  <2>5. RegsInv' /\ HardwareInv' /\ Follows'
    BY <1>1, <2>1, <2>3, <2>4, PassKeeps
  <2> QED
    BY <2>3, <2>5 DEF IInv
<1> QED
  BY <1>2, <1>3, <1>4, <1>5, <1>6, <1>7 DEF Cpu

\* What the boot ROM leaves.  (Init.)
LEMMA InitKeeps ==
  ASSUME Init
  PROVE  IInv
<1>1. /\ silicon \in Silicon /\ call = "ps7_init" /\ pending = <<>>
      /\ ret = [f \in Functions |-> -1] /\ unlocked = FALSE /\ ddr_up = FALSE
  BY DEF Init
<1>2. PICK bypass \in {0, 1} :
        /\ regs = BootRom(bypass)
        /\ pll = [p \in Plls |-> IF bypass = 1 THEN 0 ELSE 26]
  BY DEF Init
<1>3. Shape
  <2>1. "ps7_init" \in Functions /\ DOMAIN ret = Functions
    BY <1>1 DEF Functions
  <2>2. Len(TablesOf["ps7_init"]) \in Nat /\ TablesOf["ps7_init"] \in Seq(DOMAIN Tables_3_0)
    BY <2>1, TableNames
  <2> QED
    BY <1>1, <2>1, <2>2 DEF Shape
<1>4. /\ DOMAIN regs = Registers
      /\ \A p \in Plls : regs[Ctrl[p]] =
            [PLL_FDIV |-> 26, PLL_BYPASS_FORCE |-> bypass, PLL_RESET |-> bypass]
      /\ \A reg \in Registers : ~IsPll(reg) => regs[reg] = <<>>
  <2>1. \A p \in Plls : Ctrl[p] \in Registers
    BY <1>3, HardwareRegisters
  <2> QED
    BY <1>2, <2>1 DEF BootRom, IsPll
<1>5. RegsInv
  <2>1. DOMAIN <<>> = {}
    OBVIOUS
  <2> QED
    BY <1>4, <2>1 DEF RegsInv
<1>6. HardwareInv
  <2>1. ASSUME NEW p \in Plls
        PROVE  /\ Holds(regs, Ctrl[p], "PLL_RESET", 1) => pll[p] = 0
               /\ pll[p] = 0 => ~Holds(regs, Ctrl[p], "PLL_BYPASS_FORCE", 0)
    BY <1>2, <1>4 DEF Holds
  <2>2. ~Holds(regs, DciCtrl, "RESET", 0)
    <3>1. DciCtrl \in Registers
      BY <1>3, HardwareRegisters
    <3>2. ~IsPll(DciCtrl)
      BY DEF IsPll, DciCtrl, Ctrl, Plls
    <3>3. regs[DciCtrl] = <<>>
      BY <1>4, <3>1, <3>2
    <3> QED
      BY <3>3 DEF Holds
  <2> QED
    BY <1>1, <1>2, <2>1, <2>2 DEF HardwareInv
<1>7. ~Unfailed
  BY <1>1 DEF Unfailed, Functions, PS7_INIT_SUCCESS
<1> QED
  BY <1>3, <1>5, <1>6, <1>7 DEF IInv

\* Every step.
LEMMA StepKeeps ==
  ASSUME IInv, [Next]_vars
  PROVE  IInv'
<1>1. CASE \E f \in Functions : Call(f)
  BY <1>1, CallKeeps
<1>2. CASE Cpu
  BY <1>2, CpuKeeps
<1>3. CASE Hardware
  BY <1>3, HardwareKeeps
<1>4. CASE Tick \/ UNCHANGED vars
  <2>1. /\ UNCHANGED <<silicon, call, pending, ptr, ret>>
        /\ UNCHANGED <<regs, unlocked, pll, dci, ddr_up>>
    BY <1>4 DEF Tick, vars, driver, hardware
  <2> QED
    BY <2>1, StayKeeps
<1> QED
  BY <1>1, <1>2, <1>3, <1>4 DEF Next

\* At every step of a function that has not failed the registers, the PLLs, the
\* DDR controller and the lock are as the steps before it say.
THEOREM Invariant == Spec => []IInv
<1>1. Init => IInv
  BY InitKeeps
<1>2. IInv /\ [Next]_vars => IInv'
  BY StepKeeps
<1> QED
  BY <1>1, <1>2, PTL DEF Spec

-----------------------------------------------------------------------------
(* The properties *)

\* A success of ps7_init, however many calls came before it and whatever they
\* left, means that every register holds what the tables put there last, that
\* the PLLs have taken their multipliers, the memory is up and the SLCR locked:
\* for any limit of the polls, any damage of a table and any time the hardware
\* takes.  (ps7_init, ps7_config.)
THEOREM SuccessIsConfigured == Spec => []ConfiguredOnSuccess
<1>1. IInv => ConfiguredOnSuccess
  <2> SUFFICES ASSUME IInv, Initialised
               PROVE  /\ HoldsEffect(InitEffect[silicon])
                      /\ \A p \in Plls : pll[p] = regs[Ctrl[p]].PLL_FDIV
                      /\ dci = "done" /\ ddr_up /\ ~unlocked
    BY DEF ConfiguredOnSuccess
  <2>1. Follows /\ Cursor = End("ps7_init") /\ call = "ps7_init"
    BY DEF IInv, Initialised, Unfailed, Cursor
  <2>2. silicon \in Silicon /\ AllSeen(silicon)
    BY TablesAssumption DEF IInv, Shape
  <2>3. HoldsEffect(InitEffect[silicon])
    BY <2>1, <2>2 DEF Follows, InitEffect
  <2>4. PllsFollow(End("ps7_init")) /\ DdrFollows(End("ps7_init")) /\ LockFollows(End("ps7_init"))
    BY <2>1 DEF Follows
  <2>5. \A p \in Plls : pll[p] = regs[Ctrl[p]].PLL_FDIV
    BY <2>1, <2>2, <2>4 DEF AllSeen, PllsFollow
  <2>6. dci = "done" /\ ddr_up
    BY <2>1, <2>2, <2>4 DEF AllSeen, DdrFollows
  <2>7. ~unlocked
    BY <2>1, <2>2, <2>4 DEF AllSeen, LockFollows
  <2> QED
    BY <2>3, <2>5, <2>6, <2>7
<1> QED
  BY <1>1, Invariant, PTL

\* Only a write changes the registers.
LEMMA OnlyWrites ==
  ASSUME IInv, [Next]_vars, regs' # regs
  PROVE  /\ DoWrite /\ Shape /\ RegsInv /\ HardwareInv /\ Follows
         /\ IsWrite(At(silicon, call, Cursor)) /\ Cursor \in Steps(silicon, call)
         /\ WrittenAs(At(silicon, call, Cursor))
         /\ silicon \in Silicon /\ call \in Functions
<1>1. DoWrite
  BY DEF Next, Cpu, Call, PollStart, PollOk, PollAgain, PollTimeout, DelayStart, DelayDone,
         DoExit, DoUndefined, Finish, Hardware, PllLocks, DciDone, DdrUp, Tick, vars, hardware
<1>2. Shape /\ RegsInv /\ HardwareInv /\ Follows
  BY <1>1 DEF IInv, Unfailed, DoWrite
<1> QED
  BY <1>1, <1>2, WriteArrives DEF Follows, Shape

\* A PLL in use runs, and its control register is not that of a clock.
LEMMA InUseRuns ==
  ASSUME HardwareInv, Follows, NEW p \in Plls, InUse(silicon, call, Cursor, p)
  PROVE  Running(p)
<1>1. Locked(silicon, call, Cursor, p)
        /\ Was(silicon, call, Cursor, Ctrl[p], "PLL_BYPASS_FORCE", 0)
  BY DEF InUse
<1>2. pll[p] # 0
  BY <1>1 DEF Follows, PllsFollow
<1> QED
  BY <1>1, <1>2, WasHolds DEF Running

\* The registers of the clocks are not those of the PLLs.
LEMMA ClocksAndPlls ==
  \A c \in DOMAIN FREQ : c \in DOMAIN ClockReg /\ \A p \in Plls : ClockReg[c] # Ctrl[p]
BY DEF FREQ, ClockReg, Ctrl, Plls, DciClk

\* Whatever poll timed out and whichever table is damaged, a clock is set up
\* only while its PLL runs unbypassed, and no PLL is in use before it locked.
THEOREM ClocksRun == Spec => ClocksFromRunningPll
<1>1. ASSUME IInv, [Next]_vars, NEW c \in DOMAIN FREQ,
             regs'[ClockReg[c]] # regs[ClockReg[c]]
      PROVE  Running(Source(c))'
  <2> DEFINE op == At(silicon, call, Cursor)
             p == Selects(c, op.fields)
  <2>1. /\ DoWrite /\ Shape /\ RegsInv /\ HardwareInv /\ Follows
        /\ IsWrite(op) /\ Cursor \in Steps(silicon, call) /\ WrittenAs(op)
        /\ silicon \in Silicon /\ call \in Functions
    BY <1>1, OnlyWrites
  <2>2. ClockReg[c] \in Registers /\ \A q \in Plls : ClockReg[c] # Ctrl[q]
    BY <2>1, HardwareRegisters, ClocksAndPlls
  <2>3. op.reg = ClockReg[c]
    BY <1>1, <2>1, <2>2 DEF WrittenAs
  <2>4. /\ c \in {"DDR", "DCI"} \/ Sets(op, ClockReg[c], "SRCSEL")
        /\ p \in Plls /\ InUse(silicon, call, Cursor, p)
    BY <2>1, <2>3, TablesAssumption DEF PllsFirst
  <2>5. Source(c)' = p
    <3>1. Source(c)' = Selects(c, regs'[ClockReg[c]])
      BY DEF Source
    <3>2. CASE c \in {"DDR", "DCI"}
      BY <3>1, <3>2 DEF Selects
    <3>3. CASE c \notin {"DDR", "DCI"}
      <4>1. regs'[ClockReg[c]].SRCSEL = op.fields.SRCSEL
        BY <2>1, <2>2, <2>4, <3>3 DEF WrittenAs
      <4> QED
        BY <3>1, <3>3, <4>1 DEF Selects
    <3> QED
      BY <3>2, <3>3
  <2>6. Running(p)
    <3> HIDE DEF p
    <3> QED
      BY <2>1, <2>4, InUseRuns
  <2>7. op.reg # Ctrl[p] /\ Ctrl[p] \in Registers
    BY <2>1, <2>2, <2>3, <2>4, HardwareRegisters
  <2>8. regs'[Ctrl[p]] = regs[Ctrl[p]] /\ ~Sets(op, Ctrl[p], "PLL_RESET")
    BY <2>1, <2>7 DEF WrittenAs, Sets
  <2> HIDE DEF p
  <2>9. pll'[p] = pll[p]
    BY <2>1, <2>4, <2>6, <2>8, WritePlls DEF Running
  <2>10. pll'[p] # 0 /\ Holds(regs', Ctrl[p], "PLL_BYPASS_FORCE", 0)
    BY <2>6, <2>8, <2>9 DEF Running, Holds
  <2> QED
    BY <2>5, <2>10 DEF Running
<1>2. IInv' => \A p \in Plls : Holds(regs', Ctrl[p], "PLL_BYPASS_FORCE", 0) => pll'[p] # 0
  BY DEF IInv, HardwareInv
<1>3. IInv /\ IInv' /\ [Next]_vars =>
        [/\ \A c \in DOMAIN FREQ :
               regs'[ClockReg[c]] # regs[ClockReg[c]] => Running(Source(c))'
         /\ \A p \in Plls :
               Holds(regs', Ctrl[p], "PLL_BYPASS_FORCE", 0) => pll'[p] # 0]_vars
  BY <1>1, <1>2
<1> QED
  BY <1>3, Invariant, PTL DEF Spec, ClocksFromRunningPll

\* The DDR controller and the fabric leave their resets only when what they
\* need is there: the calibration, the PLL and all other registers of the
\* controller; the level shifters of the fabric.
THEOREM ReleasesAreReady == Spec => ReleasedWhenReady
<1>1. ASSUME IInv, [Next]_vars, ~Released(regs), Released(regs')
      PROVE  dci = "done" /\ Running("DDR")
              /\ HoldsEffect({w \in DdrEffect[silicon] : w[1] # DdrcCtrl})
  <2> DEFINE op == At(silicon, call, Cursor)
  <2>1. regs' # regs
    BY <1>1
  <2>2. /\ DoWrite /\ Shape /\ RegsInv /\ HardwareInv /\ Follows
        /\ Cursor \in Steps(silicon, call) /\ WrittenAs(op) /\ silicon \in Silicon
        /\ call \in Functions
    BY <1>1, <2>1, OnlyWrites
  <2>3. Puts(op, DdrcCtrl, "reg_ddrc_soft_rstb", 1)
    <3>1. DdrcCtrl \in Registers
      BY <2>2, HardwareRegisters
    <3> HIDE DEF op
    <3> QED
      BY <1>1, <2>2, <3>1, WriteHolds DEF Released
  <2>4. /\ Seen(silicon, call, Cursor, "DONE", DciCtrl, "RESET")
        /\ InUse(silicon, call, Cursor, "DDR")
        /\ \A w \in DdrEffect[silicon] :
              w[1] # DdrcCtrl => Was(silicon, call, Cursor, w[1], w[2], w[3])
    BY <2>2, <2>3, TablesAssumption DEF ReleasesLast
  <2>5. dci = "done"
    BY <2>2, <2>4 DEF Follows, DdrFollows
  <2>6. Running("DDR")
    BY <2>2, <2>4, InUseRuns DEF Plls
  <2>7. HoldsEffect({w \in DdrEffect[silicon] : w[1] # DdrcCtrl})
    BY <2>2, <2>4, WasHolds DEF HoldsEffect
  <2> QED
    BY <2>5, <2>6, <2>7
<1>2. ASSUME IInv, [Next]_vars, ~FabricReleased(regs), FabricReleased(regs'), NEW e \in Shifters
      PROVE  Holds(regs, LevelShifters, e, 1)
  <2> DEFINE op == At(silicon, call, Cursor)
  <2>1. regs' # regs
    BY <1>2
  <2>2. /\ Shape /\ Follows /\ Cursor \in Steps(silicon, call) /\ WrittenAs(op)
        /\ silicon \in Silicon /\ call \in Functions
    BY <1>2, <2>1, OnlyWrites
  <2>3. \E k \in FabricResets : Puts(op, FabricReset, k, 0)
    <3>1. FabricReset \in Registers
      BY <2>2, HardwareRegisters
    <3> HIDE DEF op
    <3> QED
      BY <1>2, <2>2, <3>1, WriteHolds DEF FabricReleased
  <2>4. Was(silicon, call, Cursor, LevelShifters, e, 1)
    BY <2>2, <2>3, TablesAssumption DEF ReleasesLast
  <2> QED
    BY <2>2, <2>4, WasHolds
<1>3. IInv /\ [Next]_vars =>
        [/\ ~Released(regs) /\ Released(regs') =>
               dci = "done" /\ Running("DDR")
                 /\ HoldsEffect({w \in DdrEffect[silicon] : w[1] # DdrcCtrl})
         /\ ~FabricReleased(regs) /\ FabricReleased(regs') =>
               \A e \in Shifters : Holds(regs, LevelShifters, e, 1)]_vars
  BY <1>1, <1>2
<1> QED
  BY <1>3, Invariant, PTL DEF Spec, ReleasedWhenReady

-----------------------------------------------------------------------------
(* The reset pulse *)

\* No operation of the table with the pulse is damaged: a failure in the pulse
\* would leave the pin low for the next call to raise.
UsbTableIntact == \A k \in Nat : <<"peripherals", k>> \notin Damages

Pulse == get_number_of_cycles_for_delay(1)
SetLow(r) == Holds(r, UsbData, "DATA_1_LSW", 0)

\* The pin is set low only inside the pulse; a delay that is over with the pin
\* low has kept it low for the pulse, and one under way for what it counted.
PulseInv ==
  /\ damaged \in Damages
  /\ low \in Nat /\ timer \in [on : BOOLEAN, count : Nat]
  /\ pending = <<>> => pc = "fetch"
  /\ SetLow(regs) =>
        pending # <<>> /\ Was(silicon, call, Cursor, UsbData, "DATA_1_LSW", 0)
  /\ pending # <<>> /\ Pulsed(silicon, call, Cursor) => PinLow(regs) /\ low >= Pulse
  /\ Waits("maskdelay") /\ PinLow(regs) => low >= timer.count

\* What a step does stands at the next step.
LEMMA StandsNow ==
  ASSUME NEW v \in Silicon, NEW f \in Functions, NEW s, NEW t, Follow(v, f, s, t),
         NEW reg, NEW field
  PROVE  Stands(v, f, s, reg, field, t)
<1>1. s \in Steps(v, f) /\ Precedes(s, t)
  BY DEF Follow
<1>2. ASSUME NEW q \in Between(v, f, s, t)
      PROVE  FALSE
  <2>1. q \in Steps(v, f) /\ Precedes(s, q) /\ (Precedes(q, s) \/ q = s)
    BY <1>2 DEF Between, Follow
  <2>2. q[1] \in Nat /\ q[2] \in Nat /\ s[1] \in Nat /\ s[2] \in Nat
    BY <1>1, <2>1, StepPairs
  <2> QED
    BY <2>1, <2>2 DEF Precedes
<1> QED
  BY <1>1, <1>2 DEF Stands

\* What stood at a step that let it be stands at the next.
LEMMA StandsOn ==
  ASSUME NEW v, NEW f, NEW s, NEW t, Follow(v, f, s, t), NEW r \in Steps(v, f),
         NEW reg, NEW field, Stands(v, f, r, reg, field, s), ~Sets(At(v, f, s), reg, field)
  PROVE  Stands(v, f, r, reg, field, t)
<1>1. Precedes(r, t)
  BY DEF Follow, Stands
<1>2. \A q \in Between(v, f, r, t) : q \in Between(v, f, r, s) \/ q = s
  BY DEF Between, Follow
<1> QED
  BY <1>1, <1>2 DEF Stands

\* The same of the last value of a field.
LEMMA WasOn ==
  ASSUME NEW v \in Silicon, NEW f \in Functions, NEW s, NEW t, Follow(v, f, s, t),
         NEW reg, NEW field, NEW value,
         \/ Puts(At(v, f, s), reg, field, value)
         \/ Was(v, f, s, reg, field, value) /\ ~Sets(At(v, f, s), reg, field)
  PROVE  Was(v, f, t, reg, field, value)
<1>1. CASE Puts(At(v, f, s), reg, field, value)
  <2>1. Stands(v, f, s, reg, field, t) /\ s \in Steps(v, f)
    BY StandsNow DEF Follow
  <2> QED
    BY <1>1, <2>1 DEF Was
<1>2. CASE Was(v, f, s, reg, field, value) /\ ~Sets(At(v, f, s), reg, field)
  <2>1. PICK r \in Steps(v, f) :
          Puts(At(v, f, r), reg, field, value) /\ Stands(v, f, r, reg, field, s)
    BY <1>2 DEF Was
  <2>2. Stands(v, f, r, reg, field, t)
    BY <1>2, <2>1, StandsOn
  <2> QED
    BY <2>1, <2>2 DEF Was
<1> QED
  BY <1>1, <1>2

\* The pulse was over before a step, or the step is its delay.
LEMMA PulsedStep ==
  ASSUME NEW v, NEW f, NEW s, NEW t, Follow(v, f, s, t), Pulsed(v, f, t)
  PROVE  \/ /\ At(v, f, s).op = "maskdelay" /\ At(v, f, s).ms = 1
            /\ \A w \in DrivenLow : Was(v, f, s, w[1], w[2], w[3])
         \/ Pulsed(v, f, s) /\ \A w \in DrivenLow : ~Sets(At(v, f, s), w[1], w[2])
<1>1. PICK r \in Steps(v, f) :
        /\ At(v, f, r).op = "maskdelay" /\ At(v, f, r).ms = 1
        /\ \A w \in DrivenLow :
             Was(v, f, r, w[1], w[2], w[3]) /\ Stands(v, f, r, w[1], w[2], t)
  BY DEF Pulsed
<1>2. CASE r = s
  BY <1>1, <1>2
<1>3. CASE r # s
  <2>1. \A w \in DrivenLow :
          Stands(v, f, r, w[1], w[2], s) /\ ~Sets(At(v, f, s), w[1], w[2])
    BY <1>1, <1>3, StandsStep
  <2> QED
    BY <1>1, <2>1 DEF Pulsed
<1> QED
  BY <1>2, <1>3

\* The pin is low only when its level is set low.
LEMMA LowIsSet == ASSUME NEW r, PinLow(r) PROVE SetLow(r)
<1>1. <<UsbData, "DATA_1_LSW", 0>> \in DrivenLow
  BY DEF DrivenLow
<1> QED
  BY <1>1 DEF PinLow, SetLow

\* Where the pin is set low the step is in the last table and cannot fail.
LEMMA InPulse ==
  ASSUME Shape, PulseInv, SetLow(regs)
  PROVE  LET op == At(silicon, call, Cursor)
         IN  /\ pending # <<>> /\ pending[1] = "peripherals"
             /\ op.op \in {"write", "maskwrite", "maskdelay"}
             /\ (\E w \in DrivenLow : Sets(op, w[1], w[2])) =>
                  Pulsed(silicon, call, Cursor) /\ AtSpeed(silicon, call, Cursor)
<1>1. pending # <<>> /\ Was(silicon, call, Cursor, UsbData, "DATA_1_LSW", 0)
  BY DEF PulseInv
<1>2. /\ Cursor \in Steps(silicon, call) /\ TablesOf[call][Cursor[1]] = pending[1]
      /\ silicon \in Silicon /\ call \in Functions
  BY <1>1, AtCursor DEF Shape
<1>3. PulseIsWhole(silicon)
  BY <1>2, TablesAssumption
<1> QED
  BY <1>1, <1>2, <1>3 DEF PulseIsWhole

\* A step of the pulse does not fail.
LEMMA PulseSteps ==
  ASSUME UsbTableIntact, Shape, PulseInv, pending # <<>>,
         Op.op \in {"undefined", "maskpoll", "exit"}
  PROVE  ~SetLow(regs)
<1> SUFFICES ASSUME SetLow(regs) PROVE FALSE
  OBVIOUS
<1>1. /\ pending[1] = "peripherals"
      /\ At(silicon, call, Cursor).op \in {"write", "maskwrite", "maskdelay"}
  BY InPulse
<1>2. Cursor = <<Cursor[1], ptr>> /\ TablesOf[call][Cursor[1]] = pending[1] /\ ptr \in Nat
  BY AtCursor
<1>3. <<pending[1], ptr>> # damaged
  BY <1>1, <1>2 DEF UsbTableIntact, PulseInv
<1>4. Op = At(silicon, call, Cursor)
  BY <1>2, <1>3 DEF Op, At
<1> QED
  BY <1>1, <1>4

\* The pulse in cycles.
LEMMA PulseValue == Pulse = 333333
BY SMT DEF Pulse, get_number_of_cycles_for_delay, APU_FREQ

\* A write keeps PulseInv.
LEMMA PulseWrite ==
  ASSUME IInv, PulseInv, DoWrite
  PROVE  PulseInv'
<1> DEFINE op == At(silicon, call, Cursor)
<1>1. /\ Shape /\ RegsInv /\ HardwareInv /\ Follows /\ LockFollows(Cursor)
      /\ silicon \in Silicon /\ call \in Functions
  BY DEF IInv, Unfailed, DoWrite, Follows, Shape
<1>2. /\ IsWrite(op) /\ WrittenAs(op) /\ Op = op /\ pending # <<>>
  BY <1>1, WriteArrives
<1>3. Op.op \notin {"undefined", "exit"} /\ NextOp
  BY <1>2 DEF IsWrite, DoWrite
<1>4. Follow(silicon, call, Cursor, Cursor') /\ silicon' = silicon /\ call' = call
  BY <1>1, <1>2, <1>3, NextOpFollows
<1>5. /\ pending' = pending /\ pc' = "fetch" /\ damaged' = damaged /\ timer' = timer
      /\ low' = IF PinLow(regs) /\ PinLow(regs') THEN low ELSE 0
  BY DEF DoWrite, NextOp, React
<1>6. \A w \in DrivenLow : w[1] \in Registers
  BY <1>1, HardwareRegisters
<1>7. UsbData \in Registers
  <2>1. <<UsbData, "DATA_1_LSW", 0>> \in DrivenLow
    BY DEF DrivenLow
  <2> QED
    BY <1>6, <2>1
<1>8. SetLow(regs') => Was(silicon, call, Cursor', UsbData, "DATA_1_LSW", 0)
  <2>1. SetLow(regs') <=> (\/ Puts(op, UsbData, "DATA_1_LSW", 0)
                           \/ SetLow(regs) /\ ~Sets(op, UsbData, "DATA_1_LSW"))
    <3> HIDE DEF op
    <3> QED
      BY <1>2, <1>7, WriteHolds DEF SetLow
  <2>2. SetLow(regs) => Was(silicon, call, Cursor, UsbData, "DATA_1_LSW", 0)
    BY DEF PulseInv
  <2> QED
    BY <1>1, <1>4, <2>1, <2>2, WasOn
<1>9. ASSUME Pulsed(silicon, call, Cursor')
      PROVE  PinLow(regs') /\ low' >= Pulse
  <2>1. op.op # "maskdelay"
    BY <1>2 DEF IsWrite
  <2>2. Pulsed(silicon, call, Cursor) /\ \A w \in DrivenLow : ~Sets(op, w[1], w[2])
    BY <1>4, <1>9, <2>1, PulsedStep
  <2>3. PinLow(regs) /\ low >= Pulse
    BY <1>2, <2>2 DEF PulseInv
  <2>4. PinLow(regs')
    <3> HIDE DEF op
    <3> QED
      BY <1>2, <1>6, <2>2, <2>3, WriteHolds DEF PinLow
  <2> QED
    BY <1>5, <2>3, <2>4
<1>10. low' \in Nat
  BY <1>5 DEF PulseInv
<1>11. ~Waits("maskdelay")'
  BY <1>5 DEF Waits
<1> QED
  BY <1>2, <1>4, <1>5, <1>8, <1>9, <1>10, <1>11 DEF PulseInv

\* A step that goes on without a write keeps it.
LEMMA PulsePass ==
  ASSUME Shape, Follows, PulseInv, pending # <<>>, pc' = "fetch",
         Follow(silicon, call, Cursor, Cursor'),
         UNCHANGED <<silicon, damaged, call, regs, timer, low>>,
         ~IsWrite(At(silicon, call, Cursor)),
         SetLow(regs) => pending' # <<>>,
         At(silicon, call, Cursor).op = "maskdelay" /\ At(silicon, call, Cursor).ms = 1
           /\ PinLow(regs) => low >= Pulse
  PROVE  PulseInv'
<1> DEFINE op == At(silicon, call, Cursor)
<1>1. silicon \in Silicon /\ call \in Functions
  BY DEF Shape
<1>2. SetLow(regs) => Was(silicon, call, Cursor', UsbData, "DATA_1_LSW", 0)
  <2>1. SetLow(regs) => Was(silicon, call, Cursor, UsbData, "DATA_1_LSW", 0)
    BY DEF PulseInv
  <2>2. ~Sets(op, UsbData, "DATA_1_LSW")
    BY DEF Sets
  <2> QED
    BY <1>1, <2>1, <2>2, WasOn
<1>3. ASSUME Pulsed(silicon, call, Cursor')
      PROVE  PinLow(regs) /\ low >= Pulse
  <2>1. CASE /\ op.op = "maskdelay" /\ op.ms = 1
             /\ \A w \in DrivenLow : Was(silicon, call, Cursor, w[1], w[2], w[3])
    <3>1. PinLow(regs)
      BY <2>1, WasHolds DEF PinLow
    <3> QED
      BY <2>1, <3>1
  <2>2. CASE Pulsed(silicon, call, Cursor)
    BY <2>2 DEF PulseInv
  <2> QED
    BY <1>3, <2>1, <2>2, PulsedStep
<1>4. ~Waits("maskdelay")'
  BY DEF Waits
<1>5. SetLow(regs)' <=> SetLow(regs)
  BY DEF SetLow
<1>6. PinLow(regs)' <=> PinLow(regs)
  BY DEF PinLow
<1> QED
  BY <1>2, <1>3, <1>4, <1>5, <1>6 DEF PulseInv

\* The delay counts while the pin is low.
LEMMA PulseTick ==
  ASSUME PulseInv, Tick
  PROVE  PulseInv'
<1>1. /\ UNCHANGED <<silicon, damaged, call, pending, ptr, pc, regs>>
      /\ timer' = [timer EXCEPT !.count = timer.count + TICK]
      /\ low' = IF PinLow(regs) THEN low + TICK ELSE 0
      /\ Waits("maskdelay")
  BY DEF Tick, driver
<1>2. low \in Nat /\ timer \in [on : BOOLEAN, count : Nat] /\ TICK \in Nat
  BY Ps7Assumption DEF PulseInv
<1>3. /\ low' \in Nat /\ timer' \in [on : BOOLEAN, count : Nat]
      /\ timer'.count = timer.count + TICK /\ timer.count \in Nat
  BY <1>1, <1>2
<1>4. Cursor' = Cursor
  BY <1>1 DEF Cursor
<1>5. SetLow(regs)' <=> SetLow(regs)
  BY <1>1 DEF SetLow
<1>6. PinLow(regs)' <=> PinLow(regs)
  BY <1>1 DEF PinLow
<1>7. PinLow(regs) => low >= timer.count
  BY <1>1 DEF PulseInv
<1>8. PinLow(regs) => low' >= timer'.count
  <2> SUFFICES ASSUME PinLow(regs) PROVE low' >= timer'.count
    OBVIOUS
  <2>1. low' = low + TICK /\ low >= timer.count
    BY <1>1, <1>7
  <2> QED
    BY <1>2, <1>3, <2>1
<1>9. ASSUME pending # <<>>, Pulsed(silicon, call, Cursor)
      PROVE  PinLow(regs) /\ low' >= Pulse
  <2>1. PinLow(regs) /\ low >= Pulse
    BY <1>9 DEF PulseInv
  <2>2. low' = low + TICK
    BY <1>1, <2>1
  <2> QED
    BY <1>2, <2>1, <2>2, PulseValue
<1> QED
  BY <1>1, <1>3, <1>4, <1>5, <1>6, <1>8, <1>9 DEF PulseInv

\* Steps that leave the place, the registers and the time keep it.
LEMMA PulseStay ==
  ASSUME PulseInv,
         UNCHANGED <<silicon, damaged, call, pending, ptr, regs, timer, low>>,
         pc' = pc \/ Fetches("maskpoll")
  PROVE  PulseInv'
<1>1. Cursor' = Cursor /\ Op' = Op
  BY DEF Cursor, Op
<1>2. SetLow(regs)' <=> SetLow(regs)
  BY DEF SetLow
<1>3. PinLow(regs)' <=> PinLow(regs)
  BY DEF PinLow
<1>4. Waits("maskdelay")' => Waits("maskdelay")
  BY <1>1 DEF Waits, Fetches
<1>5. pending' = <<>> => pc' = "fetch"
  BY DEF PulseInv, Fetches
<1>6. /\ damaged' \in Damages
      /\ low' \in Nat /\ timer' \in [on : BOOLEAN, count : Nat]
  BY DEF PulseInv
<1>7. SetLow(regs)' =>
        pending' # <<>> /\ Was(silicon', call', Cursor', UsbData, "DATA_1_LSW", 0)
  BY <1>1, <1>2 DEF PulseInv
<1>8. pending' # <<>> /\ Pulsed(silicon', call', Cursor') => PinLow(regs)' /\ low' >= Pulse
  BY <1>1, <1>3 DEF PulseInv
<1>9. Waits("maskdelay")' /\ PinLow(regs)' => low' >= timer'.count
  BY <1>3, <1>4 DEF PulseInv
<1> QED
  BY <1>5, <1>6, <1>7, <1>8, <1>9 DEF PulseInv

\* A failure is not in the pulse.
LEMMA PulseFails ==
  ASSUME PulseInv, ~SetLow(regs), NEW result, result # PS7_INIT_SUCCESS, Finish(result)
  PROVE  PulseInv'
<1>1. pending' = <<>> /\ pc' = "fetch" /\ UNCHANGED <<damaged, regs, timer, low>>
  BY DEF Finish, hardware
<1>2. ~SetLow(regs)'
  BY <1>1 DEF SetLow
<1> QED
  BY <1>1, <1>2 DEF PulseInv, Waits

\* A call begins outside the pulse.
LEMMA PulseCalled ==
  ASSUME Shape, PulseInv, NEW f \in Functions, Call(f)
  PROVE  PulseInv'
<1>1. /\ UNCHANGED <<silicon, damaged, pc, regs, timer, low>>
      /\ call' = f /\ pending' = TablesOf[f] /\ ptr' = 1 /\ pending = <<>>
  BY DEF Call, hardware
<1>2. pc' = "fetch" /\ ~SetLow(regs)'
  BY <1>1 DEF PulseInv, SetLow
<1>3. TablesOf[f] # <<>> /\ Len(TablesOf[f]) \in Nat \ {0}
  BY DEF Functions, TablesOf
<1>4. Cursor' = <<1, 1>>
  BY <1>1, <1>3 DEF Cursor
<1>5. \A r \in Steps(silicon, f) : ~Precedes(r, Cursor')
  BY <1>4, StepPairs DEF Precedes, Shape
<1>6. <<UsbData, "DATA_1_LSW", 0>> \in DrivenLow
  BY DEF DrivenLow
<1>7. ~Pulsed(silicon, f, Cursor')
  BY <1>5, <1>6 DEF Pulsed, Stands
<1> QED
  BY <1>1, <1>2, <1>7 DEF PulseInv, Waits

\* The delay starts at the beginning of its count.
LEMMA PulseStarts ==
  ASSUME PulseInv, DelayStart
  PROVE  PulseInv'
<1>1. /\ UNCHANGED <<silicon, damaged, call, pending, ptr, regs, low>>
      /\ timer' = [on |-> TRUE, count |-> 0] /\ pending # <<>>
  BY DEF DelayStart, Fetches, perf_reset_and_start_timer
<1>2. Cursor' = Cursor
  BY <1>1 DEF Cursor
<1>3. SetLow(regs)' <=> SetLow(regs)
  BY <1>1 DEF SetLow
<1>4. PinLow(regs)' <=> PinLow(regs)
  BY <1>1 DEF PinLow
<1>5. /\ low' \in Nat /\ timer' \in [on : BOOLEAN, count : Nat]
      /\ low' >= timer'.count
  BY <1>1 DEF PulseInv
<1> QED
  BY <1>1, <1>2, <1>3, <1>4, <1>5 DEF PulseInv

\* A delay that ends has counted what its operation says.
LEMMA PulseDelayed ==
  ASSUME Shape, PulseInv, DelayDone, PinLow(regs), Op.ms = 1
  PROVE  low >= Pulse
<1>1. timer.count >= Pulse /\ low >= timer.count
  BY DEF DelayDone, Pulse, PulseInv
<1>2. timer.count \in Nat /\ low \in Nat
  BY DEF PulseInv
<1> QED
  BY <1>1, <1>2, PulseValue

\* Every step keeps it.
LEMMA PulseStep ==
  ASSUME UsbTableIntact, IInv, PulseInv, [Next]_vars
  PROVE  PulseInv'
<1> DEFINE op == At(silicon, call, Cursor)
<1>1. Shape /\ (pending # <<>> => Follows)
  BY DEF IInv, Unfailed
<1>2. CASE \E f \in Functions : Call(f)
  BY <1>1, <1>2, PulseCalled
<1>3. CASE DoWrite
  BY <1>3, PulseWrite
<1>4. CASE PollStart \/ PollAgain
  <2>1. /\ UNCHANGED <<silicon, damaged, call, pending, ptr, regs, timer, low>>
        /\ pc' = pc \/ Fetches("maskpoll")
    BY <1>4 DEF PollStart, PollAgain, hardware
  <2> QED
    BY <2>1, PulseStay
<1>5. CASE Hardware \/ UNCHANGED vars
  <2>1. /\ UNCHANGED <<silicon, damaged, call, pending, ptr, regs, timer, low>>
        /\ pc' = pc
    BY <1>5 DEF Hardware, PllLocks, DciDone, DdrUp, vars, driver, hardware
  <2> QED
    BY <2>1, PulseStay
<1>6. CASE PollOk \/ DelayDone
  <2>1. /\ pending # <<>> /\ Op.op \in {"maskpoll", "maskdelay"} /\ NextOp
        /\ UNCHANGED <<regs, timer, low>>
        /\ Op.op = "maskdelay" => DelayDone
    BY <1>6 DEF PollOk, DelayDone, Waits, hardware
  <2>2. Op = op
    BY <1>1, <2>1, AtCursor
  <2>3. Follow(silicon, call, Cursor, Cursor') /\ silicon' = silicon /\ call' = call
    BY <1>1, <2>1, NextOpFollows
  <2>4. pending' = pending /\ pc' = "fetch" /\ damaged' = damaged
    BY <2>1 DEF NextOp
  <2>5. ~IsWrite(op)
    BY <2>1, <2>2 DEF IsWrite
  <2>6. op.op = "maskdelay" /\ op.ms = 1 /\ PinLow(regs) => low >= Pulse
    BY <1>1, <2>1, <2>2, PulseDelayed
  <2> QED
    BY <1>1, <2>1, <2>3, <2>4, <2>5, <2>6, PulsePass
<1>7. CASE DelayStart
  BY <1>7, PulseStarts
<1>8. CASE Tick
  BY <1>8, PulseTick
<1>9. CASE PollTimeout
  <2>1. pending # <<>> /\ Op.op = "maskpoll" /\ Finish(PS7_INIT_TIMEOUT)
    BY <1>9 DEF PollTimeout, Waits
  <2>2. ~SetLow(regs)
    BY <1>1, <2>1, PulseSteps
  <2> QED
    BY <2>1, <2>2, PulseFails DEF PS7_INIT_TIMEOUT, PS7_INIT_SUCCESS
<1>10. CASE DoUndefined
  <2>1. pending # <<>> /\ Op.op = "undefined" /\ Finish(PS7_INIT_CORRUPT)
    BY <1>10 DEF DoUndefined, Fetches
  <2>2. ~SetLow(regs)
    BY <1>1, <2>1, PulseSteps
  <2> QED
    BY <2>1, <2>2, PulseFails DEF PS7_INIT_CORRUPT, PS7_INIT_SUCCESS
<1>11. CASE DoExit
  <2>1. /\ pending # <<>> /\ Op.op = "exit" /\ pc' = "fetch"
        /\ UNCHANGED <<silicon, damaged, call, regs, timer, low>>
    BY <1>11 DEF DoExit, Fetches, Finish, hardware
  <2>2. Op = op
    BY <1>1, <2>1, AtCursor
  <2>3. ~SetLow(regs)
    BY <1>1, <2>1, PulseSteps
  <2>4. Follow(silicon, call, Cursor, Cursor')
    BY <1>1, <1>11, ExitFollows
  <2>5. ~IsWrite(op) /\ op.op # "maskdelay"
    BY <2>1, <2>2 DEF IsWrite
  <2> QED
    BY <1>1, <2>1, <2>3, <2>4, <2>5, PulsePass
<1> QED
  BY <1>2, <1>3, <1>4, <1>5, <1>6, <1>7, <1>8, <1>9, <1>10, <1>11 DEF Next, Cpu

\* The boot ROM has not driven the pin.
LEMMA PulseFirst ==
  ASSUME Init
  PROVE  PulseInv
<1>1. /\ damaged \in Damages /\ pending = <<>> /\ pc = "fetch" /\ low = 0
      /\ timer = [on |-> TRUE, count |-> MAX_COUNT]
  BY DEF Init
<1>2. timer \in [on : BOOLEAN, count : Nat] /\ low \in Nat
  BY <1>1, Ps7Assumption
<1>3. ~SetLow(regs)
  <2>1. <<UsbData, "DATA_1_LSW", 0>> \in DrivenLow
    BY DEF DrivenLow
  <2>2. UsbData \in Registers
    BY <2>1, InitKeeps, HardwareRegisters DEF IInv, Shape
  <2>3. UsbData \notin {Ctrl[p] : p \in Plls}
    BY DEF UsbData, Ctrl, Plls
  <2>4. regs[UsbData] = <<>>
    BY <2>2, <2>3 DEF Init, BootRom
  <2>5. DOMAIN <<>> = {}
    OBVIOUS
  <2> QED
    BY <2>4, <2>5 DEF SetLow, Holds
<1> QED
  BY <1>1, <1>2, <1>3 DEF PulseInv, Waits

\* A PLL that is not locked is no faster, and dividing by one does nothing.
LEMMA SpeedBound ==
  ASSUME NEW fdiv \in 0..127, NEW divisor \in 1..63, NEW m \in {0, fdiv}
  PROVE  /\ Millisecond((((PS_CLK * m) \div divisor) \div 1) \div 1)
              \in {0, Millisecond((PS_CLK * fdiv) \div divisor)}
         /\ Millisecond((PS_CLK * fdiv) \div divisor) \in Int
<1> DEFINE a == PS_CLK * m
           b == a \div divisor
<1>1. \A k \in Int : k \div 1 = k
  BY SMT
<1>2. PS_CLK \in Int /\ a \in Int /\ b \in Int
  BY SMT DEF PS_CLK
<1>3. (b \div 1) \div 1 = b
  BY <1>1, <1>2, SMT
<1>4. Millisecond((PS_CLK * fdiv) \div divisor) \in Int
  BY <1>2, SMT DEF Millisecond
<1>5. CASE m = 0
  <2>1. a = 0
    BY <1>2, <1>5, SMT
  <2>2. \A k \in 1..63 : 0 \div k = 0
    BY SMT
  <2>3. b = 0
    BY <2>1, <2>2, SMT
  <2>4. Millisecond(0) = 0
    BY SMT DEF Millisecond
  <2> QED
    BY <1>3, <1>4, <2>3, <2>4, SMT
<1>6. CASE m = fdiv
  BY <1>3, <1>4, <1>6, SMT
<1> QED
  BY <1>5, <1>6, SMT

\* The dividers of the processor's clock, which has one.  (Divider.)
LEMMA ApuDivider ==
  \A d : d \in DOMAIN regs[ClockReg.APU] => Divider("APU", d) = regs[ClockReg.APU][d]
BY DEF Divider

\* ... and the others divide by one.
LEMMA ApuNoDivider ==
  \A d : d \notin DOMAIN regs[ClockReg.APU] => Divider("APU", d) = 1
BY DEF Divider

\* The PLL of the processor's clock.  (Source.)
LEMMA ApuSource == Source("APU") = CpuPll[regs[ClockReg.APU].SRCSEL + 1]
<1>1. \A r : Selects("APU", r) = CpuPll[r.SRCSEL + 1]
  BY DEF Selects
<1> QED
  BY <1>1 DEF Source

\* While the processor's clock is as the tables say at a step, half of it counts
\* no more than the pulse in a millisecond.  (Frequency, AtSpeed.)
LEMMA SpeedHolds ==
  ASSUME Shape, RegsInv, Follows, silicon \in Silicon, call \in Functions,
         AtSpeed(silicon, call, Cursor)
  PROVE  Millisecond(Frequency("APU")) \in Int /\ Millisecond(Frequency("APU")) <= Pulse
<1> DEFINE Set(sel, fdiv, divisor) ==
             /\ Was(silicon, call, Cursor, ClockReg.APU, "SRCSEL", sel)
             /\ Restarted(silicon, call, Cursor, CpuPll[sel + 1])
             /\ Was(silicon, call, Cursor, Ctrl[CpuPll[sel + 1]], "PLL_FDIV", fdiv)
             /\ Was(silicon, call, Cursor, ClockReg.APU, "DIVISOR", divisor)
             /\ Millisecond((PS_CLK * fdiv) \div divisor) <= Pulse
<1>0. \E sel \in 0..3 : \E fdiv \in 0..127 : \E divisor \in 1..63 : Set(sel, fdiv, divisor)
  BY Zenon DEF AtSpeed, Pulse
<1>1. PICK sel \in 0..3, fdiv \in 0..127, divisor \in 1..63 : Set(sel, fdiv, divisor)
  <2> HIDE DEF Set
  <2> QED
    BY <1>0, Zenon
<1>2. PICK p : p = CpuPll[sel + 1]
  OBVIOUS
<1>3. p \in Plls
  BY <1>2 DEF CpuPll, Plls
<1>4. /\ Restarted(silicon, call, Cursor, p)
      /\ Holds(regs, ClockReg.APU, "SRCSEL", sel) /\ Holds(regs, Ctrl[p], "PLL_FDIV", fdiv)
      /\ Holds(regs, ClockReg.APU, "DIVISOR", divisor)
  BY <1>1, <1>2, WasHolds
<1>5. Source("APU") = p
  BY <1>2, <1>4, ApuSource DEF Holds
<1>6. pll[p] \in {0, fdiv}
  BY <1>3, <1>4 DEF Follows, PllsFollow, Holds
<1>7. ClockReg.APU \in Registers /\ ~IsPll(ClockReg.APU)
  <2>1. "APU" \in DOMAIN ClockReg /\ "APU" \in DOMAIN FREQ
    BY SMT DEF ClockReg, FREQ
  <2> QED
    BY <2>1, HardwareRegisters, ClocksAndPlls DEF IsPll
<1>8. "DIVISOR0" \notin DOMAIN regs[ClockReg.APU] /\ "DIVISOR1" \notin DOMAIN regs[ClockReg.APU]
  <2>1. \A field \in DOMAIN regs[ClockReg.APU] : Known(silicon, ClockReg.APU, field)
    BY <1>7 DEF RegsInv
  <2>2. \A f \in Functions : \A s \in Steps(silicon, f) :
          /\ ~Sets(At(silicon, f, s), ClockReg.APU, "DIVISOR0")
          /\ ~Sets(At(silicon, f, s), ClockReg.APU, "DIVISOR1")
    BY TablesAssumption DEF PulseIsWhole
  <2> QED
    BY <2>1, <2>2 DEF Known
<1>9. /\ Divider("APU", "DIVISOR") = divisor
      /\ Divider("APU", "DIVISOR0") = 1 /\ Divider("APU", "DIVISOR1") = 1
  BY <1>4, <1>8, ApuDivider, ApuNoDivider DEF Holds
<1>10. Frequency("APU") = (((PS_CLK * pll[p]) \div divisor) \div 1) \div 1
  BY <1>5, <1>9 DEF Frequency
<1>11. PICK m \in {0, fdiv} : m = pll[p]
  BY <1>6
<1>12. /\ Millisecond(Frequency("APU")) \in {0, Millisecond((PS_CLK * fdiv) \div divisor)}
       /\ Millisecond((PS_CLK * fdiv) \div divisor) \in Int
  <2>1. Frequency("APU") = (((PS_CLK * m) \div divisor) \div 1) \div 1
    BY <1>10, <1>11, Zenon
  <2> QED
    BY <2>1, SpeedBound, Zenon
<1> QED
  BY <1>1, <1>12, PulseValue, SMT

\* With the pin of the pulse not damaged in the table, the reset of the USB
\* transceiver lasts a millisecond of the timer's true rate.
THEOREM PulseIsLong == ASSUME UsbTableIntact PROVE Spec => PhyResetPulse
<1>1. ASSUME IInv, PulseInv, [Next]_vars, PinLow(regs), ~PinLow(regs')
      PROVE  low >= Millisecond(Frequency("APU"))
  <2> DEFINE op == At(silicon, call, Cursor)
  <2>1. regs' # regs
    BY <1>1
  <2>2. /\ Shape /\ RegsInv /\ Follows /\ WrittenAs(op) /\ silicon \in Silicon
        /\ call \in Functions /\ DoWrite
    BY <1>1, <2>1, OnlyWrites
  <2>3. \E w \in DrivenLow : Sets(op, w[1], w[2])
    <3>1. \A w \in DrivenLow : w[1] \in Registers
      BY <2>2, HardwareRegisters
    <3> HIDE DEF op
    <3> QED
      BY <1>1, <2>2, <3>1, WriteHolds DEF PinLow
  <2>4. Pulsed(silicon, call, Cursor) /\ AtSpeed(silicon, call, Cursor)
    BY <1>1, <2>2, <2>3, LowIsSet, InPulse
  <2>5. low >= Pulse /\ low \in Nat
    BY <1>1, <2>2, <2>4 DEF PulseInv, DoWrite
  <2>6. Millisecond(Frequency("APU")) \in Int /\ Millisecond(Frequency("APU")) <= Pulse
    BY <2>2, <2>4, SpeedHolds
  <2> QED
    BY <2>5, <2>6, PulseValue, SMT
<1>2. Init => PulseInv
  BY PulseFirst
<1>3. IInv /\ PulseInv /\ [Next]_vars => PulseInv'
  BY PulseStep
<1>4. IInv /\ PulseInv /\ [Next]_vars =>
        [PinLow(regs) /\ ~PinLow(regs') => low >= Millisecond(Frequency("APU"))]_vars
  BY <1>1
<1> QED
  BY <1>2, <1>3, <1>4, Invariant, PTL DEF Spec, PhyResetPulse
=============================================================================
