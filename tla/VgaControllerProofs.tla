------------------------ MODULE VgaControllerProofs ------------------------
(***************************************************************************)
(* For every burst size, FIFO synchroniser, memory and driver schedule:    *)
(* the VGA controller is type correct, and a word that the memory returns  *)
(* always finds room in the FIFO, also with gaps in bursts and with words  *)
(* left over from an older picture.                                        *)
(*                                                                         *)
(* For every frame of whole bursts, every memory, clock ratio and restart  *)
(* of init_vga, while no last word of a burst comes late, in three parts:  *)
(*   - every burst that the VGA master asks for lies in the frame buffer;  *)
(*   - the controller implements the abstract frame stream (FrameStream),  *)
(*     whose words are in order;                                           *)
(*   - the raster keeps step with it, so that every pixel is shown with    *)
(*     its word of the frame buffer.                                       *)
(***************************************************************************)
EXTENDS VgaController, TLAPS


(***************************************************************************)
(* What the master's position in its cycle says about the FIFO.  During    *)
(* the initial fill the burst counter bounds the words in the FIFO, since  *)
(* it was cleared with the FIFO in ST_INIT; a running burst is asked for   *)
(* when the write side counts less than a burst.                           *)
(***************************************************************************)
Room ==
  /\ state = "INIT" => fifo = <<>> /\ wrUsed = 0 /\ rdUsed = 0
  /\ state \in {"INITREAD1", "INITREAD2"} => wrUsed <= counter
  /\ state = "RUNREAD1" => wrUsed < BurstSize
  /\ state = "RUNREAD2" => wrUsed < BurstSize + counter /\ counter < BurstSize

IInv == TypeOK /\ Room

Assumptions == ControllerAssumption /\ SlaveAssumption /\ MasterAssumption
                 /\ SyncAssumption /\ FifoAssumption

LEMMA AssumptionsHold == Assumptions
BY ControllerAssumption, SlaveAssumption, MasterAssumption, SyncAssumption,
   FifoAssumption DEF Assumptions

LEMMA ModRange == ASSUME NEW a \in Nat, NEW b \in Nat \ {0}
                  PROVE  a % b \in 0 .. b - 1
OBVIOUS

\* A register write keeps every register within its width.
LEMMA SlaveWriteType ==
  ASSUME SlaveTypeOK, NEW r \in Registers, NEW d \in Nat, SlaveWrite(r, d)
  PROVE  SlaveTypeOK'
<1>1. Space(r) \in Nat \ {0}
  BY SlaveAssumption DEF Space
<1>2. d % Space(r) \in 0 .. Space(r) - 1
  BY <1>1, ModRange
<1>3. CASE regs' = regs
  BY <1>3 DEF SlaveTypeOK, Space
<1>4. CASE regs' = [regs EXCEPT ![r] = d % Space(r)]
  <2>1. regs' \in [Registers -> Nat]
    BY <1>1, <1>2, <1>4 DEF SlaveTypeOK
  <2>2. ASSUME NEW q \in Registers
        PROVE  regs'[q] \in 0 .. Space(q) - 1
    BY <1>2, <1>4 DEF SlaveTypeOK
  <2>3. QED
    BY <2>1, <2>2 DEF SlaveTypeOK, Space
<1>5. QED
  BY <1>3, <1>4 DEF SlaveWrite

LEMMA DriverType ==
  ASSUME TypeOK, InitVgaWrite \/ NoWrite
  PROVE  SlaveTypeOK' /\ (pc \in 1 .. Len(Program) + 1)'
<1> USE DEF TypeOK
<1>0. Len(Program) = 12 /\ \A i \in 1 .. 12 : Program[i] \in Registers
  BY DEF Program, Registers, ConfigRegs, TimingRegs
<1>1. CASE NoWrite
  BY <1>1 DEF NoWrite, SlaveTypeOK, Space
<1>2. CASE InitVgaWrite
  <2>1. CASE Restarts /\ pc > 1 /\ SlaveWrite("DisplayCom", COMM_STOP) /\ pc' = 2
    <3>1. "DisplayCom" \in Registers /\ COMM_STOP \in Nat
      BY DEF Registers, COMM_STOP
    <3>2. QED
      BY <1>0, <2>1, <3>1, SlaveWriteType
  <2>2. CASE ~DriverDone /\ (\E d \in ProgramData(pc) : SlaveWrite(Program[pc], d))
               /\ pc' = pc + 1
    <3>1. PICK d \in ProgramData(pc) : SlaveWrite(Program[pc], d)
      BY <2>2
    <3>2. pc \in 1 .. 12
      BY <1>0, <2>2 DEF DriverDone
    <3>3. d \in Nat
      <4>1. \A q \in ConfigRegs \ {"FBAdd"} : Config[q] \in Nat
        BY ControllerAssumption
      <4>2. \A i \in 2 .. 11 : Program[i] \in ConfigRegs
        BY DEF Program, ConfigRegs, TimingRegs
      <4>3. QED
        BY <1>0, <3>1, <3>2, <4>1, <4>2, ControllerAssumption
           DEF ProgramData, COMM_STOP, COMM_START
    <3>4. QED
      BY <1>0, <2>2, <3>1, <3>2, <3>3, SlaveWriteType
  <2>3. QED
    BY <1>2, <2>1, <2>2 DEF InitVgaWrite
<1>3. QED
  BY <1>1, <1>2

LEMMA ConcatType ==
  ASSUME NEW s \in Seq(Nat), NEW t \in Seq(Nat)
  PROVE  s \o t \in Seq(Nat) /\ Len(s \o t) = Len(s) + Len(t)
OBVIOUS

LEMMA BusType ==
  ASSUME TypeOK, NEW waitreq \in BOOLEAN, NEW valid \in BOOLEAN,
         BusAnswers(waitreq, valid), BusClock(waitreq, valid)
  PROVE  (pend \in Seq(Nat) /\ Len(pend) <= MaxPending * BurstSize)'
<1> USE DEF TypeOK
<1> DEFINE rest == IF valid THEN Tail(pend) ELSE pend
<1>1. rest \in Seq(Nat) /\ Len(rest) <= Len(pend)
  BY DEF BusAnswers
<1>2. CASE ~(Reading /\ ~waitreq)
  <2>1. pend' = rest
    BY <1>2 DEF BusClock
  <2>2. MaxPending * BurstSize \in Nat
    BY MasterAssumption, ControllerAssumption
  <2>3. QED
    BY <1>1, <2>1, <2>2
<1>3. CASE Reading /\ ~waitreq
  <2>1. Burst(addr) \in Seq(Nat) /\ Len(Burst(addr)) = BurstSize
    <3>1. BurstSize \in Nat /\ AddrInc \in Nat /\ AddrSpace \in Nat \ {0}
          /\ addr \in Nat
      BY MasterAssumption DEF MasterTypeOK
    <3>2. ASSUME NEW i \in 1 .. BurstSize
          PROVE  (addr + (i - 1) * AddrInc) % AddrSpace \in Nat
      <4>1. addr + (i - 1) * AddrInc \in Nat
        BY <3>1
      <4>2. QED
        BY <3>1, <4>1, ModRange
    <3>3. QED
      BY <3>1, <3>2 DEF Burst
  <2>2. pend' = rest \o Burst(addr)
    BY <1>3 DEF BusClock
  <2>3. pend' \in Seq(Nat) /\ Len(pend') = Len(rest) + BurstSize
    <3> HIDE DEF rest
    <3>1. QED
      BY <1>1, <2>1, <2>2, ConcatType
  <2>4. Len(pend) <= (MaxPending - 1) * BurstSize
    BY <1>3, MasterAssumption, ControllerAssumption DEF BusAnswers
  <2>5. (MaxPending - 1) * BurstSize + BurstSize = MaxPending * BurstSize
    BY MasterAssumption, ControllerAssumption
  <2>6. QED
    BY <1>1, <2>3, <2>4, <2>5, MasterAssumption, ControllerAssumption
<1>4. QED
  BY <1>2, <1>3

\* The FIFO under an edge of its write clock.
LEMMA FifoWriteType ==
  ASSUME fifo \in Seq(Nat), CountsSafe, NEW req \in BOOLEAN, NEW w \in Nat,
         FifoWrite(req, w)
  PROVE  /\ fifo' \in Seq(Nat) /\ CountsSafe'
         /\ wrUsed' <= wrUsed + 1
         /\ ~req => wrUsed' <= wrUsed
<1> USE FifoAssumption DEF CountsSafe, WrFull
<1>1. CASE req /\ ~WrFull
  <2>1. fifo' = Append(fifo, w) /\ Len(fifo') = Len(fifo) + 1
        /\ fifo' \in Seq(Nat)
    BY <1>1 DEF FifoWrite
  <2>2. wrUsed' \in Len(fifo') .. wrUsed + 1 /\ rdUsed' = rdUsed
    BY <1>1 DEF FifoWrite
  <2>3. wrUsed + 1 <= FifoDepth
    BY <1>1
  <2>4. wrUsed' \in Nat /\ rdUsed' <= Len(fifo') /\ Len(fifo') <= wrUsed'
    BY <2>1, <2>2
  <2>5. wrUsed' <= wrUsed + 1
    BY <2>1, <2>2
  <2>6. QED
    BY <1>1, <2>1, <2>2, <2>3, <2>4, <2>5
<1>2. CASE ~(req /\ ~WrFull)
  BY <1>2 DEF FifoWrite
<1>3. QED
  BY <1>1, <1>2

\* The FIFO under an edge of its read clock: the write side's count stays.
LEMMA FifoReadType ==
  ASSUME fifo \in Seq(Nat), CountsSafe, NEW req \in BOOLEAN, FifoRead(req)
  PROVE  /\ fifo' \in Seq(Nat) /\ CountsSafe'
         /\ wrUsed' = wrUsed
         /\ fifo = <<>> => fifo' = <<>> /\ rdUsed' = 0
<1> USE FifoAssumption DEF CountsSafe, RdEmpty
<1>1. CASE req /\ ~RdEmpty
  <2>1. fifo # <<>>
    BY <1>1
  <2>2. fifo' = Tail(fifo) /\ Len(fifo') = Len(fifo) - 1 /\ fifo' \in Seq(Nat)
    BY <1>1, <2>1 DEF FifoRead
  <2>3. rdUsed' \in rdUsed - 1 .. Len(fifo') /\ wrUsed' = wrUsed
    BY <1>1 DEF FifoRead
  <2>4. QED
    BY <1>1, <2>1, <2>2, <2>3
<1>2. CASE ~(req /\ ~RdEmpty)
  BY <1>2 DEF FifoRead
<1>3. QED
  BY <1>1, <1>2

LEMMA FifoClearType ==
  ASSUME FifoClear
  PROVE  fifo' \in Seq(Nat) /\ CountsSafe'
BY FifoAssumption DEF FifoClear, CountsSafe

\* The raster counters stay within their 16 bits.
LEMMA SyncType ==
  ASSUME SlaveTypeOK, SyncTypeOK, NEW full \in BOOLEAN, NEW empty \in BOOLEAN,
         SyncClock(Timing, full, empty)
  PROVE  SyncTypeOK'
<1>1. CASE SyncIdle(Timing, full)
  <2>1. Timing.Hdata + Timing.HFP \in Nat /\ Timing.Vdata + Timing.VFP \in Nat
    BY DEF Timing, SlaveTypeOK, TimingRegs, Registers, ConfigRegs
  <2>2. hcount' \in 0 .. CountSpace - 1 /\ vcount' \in 0 .. CountSpace - 1
    BY <1>1, <2>1, ModRange, SyncAssumption DEF SyncIdle
  <2>3. QED
    BY <1>1, <2>2 DEF SyncIdle, SyncTypeOK
<1>2. CASE SyncCount(Timing, empty)
  <2>1. (hcount + 1) % CountSpace \in 0 .. CountSpace - 1
        /\ (vcount + 1) % CountSpace \in 0 .. CountSpace - 1
    BY ModRange, SyncAssumption DEF SyncTypeOK
  <2>2. 0 \in 0 .. CountSpace - 1
    BY SyncAssumption
  <2>3. QED
    BY <1>2, <2>1, <2>2 DEF SyncCount, SyncTypeOK
<1>3. QED
  BY <1>1, <1>2 DEF SyncClock

\* The master's registers keep their types and, of the counter, their range.
LEMMA MasterType ==
  ASSUME MasterTypeOK, NEW com \in Nat, NEW fbAdd \in Nat, NEW fbLen \in Nat,
         NEW half \in BOOLEAN, NEW empty \in BOOLEAN,
         NEW waitreq \in BOOLEAN, NEW valid \in BOOLEAN,
         MasterClock(com, fbAdd, fbLen, half, empty, waitreq, valid)
  PROVE  MasterTypeOK'
<1>1. 0 \in 0 .. CounterSpace - 1
  BY MasterAssumption DEF CounterSpace
<1>2. ASSUME CountWord(valid)
      PROVE  addr' \in Nat /\ counter' \in 0 .. CounterSpace - 1
  <2>1. (counter + 1) % CounterSpace \in 0 .. CounterSpace - 1
        /\ (addr + AddrInc) % AddrSpace \in Nat
    <3>1. CounterSpace \in Nat \ {0} /\ AddrSpace \in Nat \ {0}
      BY MasterAssumption DEF CounterSpace
    <3>2. counter + 1 \in Nat /\ addr + AddrInc \in Nat
      BY <3>1, MasterAssumption DEF MasterTypeOK
    <3>3. (counter + 1) % CounterSpace \in 0 .. CounterSpace - 1
      BY <3>1, <3>2, ModRange
    <3>4. (addr + AddrInc) % AddrSpace \in 0 .. AddrSpace - 1
      BY <3>1, <3>2, ModRange
    <3>5. QED
      BY <3>1, <3>3, <3>4
  <2>2. QED
    BY <1>2, <2>1 DEF CountWord, MasterTypeOK
<1>3. CASE StInit(com, fbAdd)
  BY <1>1, <1>3 DEF StInit, MasterTypeOK, MasterStates
<1>4. CASE StInitRead1(com, waitreq)
  BY <1>4 DEF StInitRead1, MasterTypeOK, MasterStates
<1>5. CASE StInitRead2(com, valid)
  BY <1>2, <1>5 DEF StInitRead2, MasterTypeOK, MasterStates
<1>6. CASE StRun(com, fbAdd, fbLen, half, empty)
  BY <1>1, <1>6 DEF StRun, MasterTypeOK, MasterStates
<1>7. CASE StRunRead1(com, empty, waitreq)
  BY <1>1, <1>7 DEF StRunRead1, MasterTypeOK, MasterStates
<1>8. CASE StRunRead2(com, empty, valid)
  BY <1>2, <1>8 DEF StRunRead2, MasterTypeOK, MasterStates
<1>9. QED
  BY <1>3, <1>4, <1>5, <1>6, <1>7, <1>8 DEF MasterClock

LEMMA RegsType ==
  ASSUME SlaveTypeOK
  PROVE  regs.DisplayCom \in Nat /\ regs.FBAdd \in Nat /\ regs.FBLen \in Nat
BY DEF SlaveTypeOK, Registers, ConfigRegs

\* The write side of the FIFO under an edge of clk_50.
LEMMA WriteSide ==
  ASSUME IInv, NEW valid \in BOOLEAN, valid => pend # <<>>, FifoWriteSide(valid)
  PROVE  /\ fifo' \in Seq(Nat) /\ CountsSafe'
         /\ state' = "INIT" \/ state = "INIT" =>
              fifo' = <<>> /\ wrUsed' = 0 /\ rdUsed' = 0
         /\ state' # "INIT" => wrUsed' <= wrUsed + 1
         /\ state' # "INIT" /\ ~(Receiving /\ valid) => wrUsed' <= wrUsed
<1> USE DEF IInv, TypeOK
<1>1. CASE state' = "INIT" \/ state = "INIT"
  <2>1. FifoClear
    BY <1>1 DEF FifoWriteSide
  <2>2. wrUsed \in Nat
    BY DEF CountsSafe
  <2>3. QED
    BY <1>1, <2>1, <2>2, FifoClearType DEF FifoClear
<1>2. CASE ~(state' = "INIT" \/ state = "INIT")
  <2> DEFINE w == IF valid THEN Head(pend) ELSE 0
  <2> DEFINE req == Receiving /\ valid
  <2>1. FifoWrite(req, w)
    BY <1>2 DEF FifoWriteSide
  <2>2. w \in Nat /\ req \in BOOLEAN
    BY DEF Receiving
  <2>3. /\ fifo' \in Seq(Nat) /\ CountsSafe'
        /\ wrUsed' <= wrUsed + 1
        /\ ~req => wrUsed' <= wrUsed
    <3> HIDE DEF w, req
    <3>1. QED
      BY <2>1, <2>2, FifoWriteType
  <2>4. QED
    BY <1>2, <2>3
<1>3. QED
  BY <1>1, <1>2

\* A clk_50 edge keeps the FIFO within what the master's state promises.
LEMMA RoomClk50 ==
  ASSUME IInv, NEW waitreq \in BOOLEAN, NEW valid \in BOOLEAN,
         Clk50(waitreq, valid)
  PROVE  Room'
<1> USE MasterAssumption, ControllerAssumption DEF IInv
<1>1. /\ wrUsed \in Nat /\ wrUsed <= FifoDepth /\ wrUsed' \in Nat
      /\ counter \in 0 .. 2 * BurstSize - 1
      /\ state' = "INIT" \/ state = "INIT" =>
           fifo' = <<>> /\ wrUsed' = 0 /\ rdUsed' = 0
      /\ state' # "INIT" => wrUsed' <= wrUsed + 1
      /\ state' # "INIT" /\ ~(Receiving /\ valid) => wrUsed' <= wrUsed
  <2>1. valid => pend # <<>>
    BY DEF Clk50, BusAnswers
  <2>2. FifoWriteSide(valid)
    BY DEF Clk50
  <2>3. QED
    BY <2>1, <2>2, WriteSide DEF TypeOK, CountsSafe, MasterTypeOK, CounterSpace
<1>2. CASE state' = "INIT"
  BY <1>1, <1>2 DEF Room
<1>3. CASE StInit(regs.DisplayCom, regs.FBAdd) /\ state' # "INIT"
  BY <1>1, <1>3 DEF StInit, Room
<1>4. CASE StInitRead1(regs.DisplayCom, waitreq) /\ state' # "INIT"
  BY <1>1, <1>4 DEF StInitRead1, Room, Receiving
<1>5. CASE StInitRead2(regs.DisplayCom, valid) /\ state' # "INIT"
  <2>1. CASE valid /\ counter # 2 * BurstSize - 1
    <3>1. counter + 1 \in 0 .. CounterSpace - 1
      BY <1>1, <2>1 DEF CounterSpace
    <3>2. counter' = counter + 1
      BY <1>5, <2>1, <3>1 DEF StInitRead2, CountWord, CounterSpace
    <3>3. QED
      BY <1>1, <1>5, <2>1, <3>2 DEF StInitRead2, Room
  <2>2. CASE ~valid /\ counter # 2 * BurstSize - 1
    BY <1>1, <1>5, <2>2 DEF StInitRead2, CountWord, Room
  <2>3. CASE counter = 2 * BurstSize - 1
    <3>1. state' = "RUN"
      BY <1>5, <2>3 DEF StInitRead2
    <3>2. QED
      BY <3>1 DEF Room
  <2>4. QED
    BY <2>1, <2>2, <2>3
<1>6. CASE StRun(regs.DisplayCom, regs.FBAdd, regs.FBLen, Half, RdEmpty)
           /\ state' # "INIT"
  <2>1. CASE Half
    <3>1. wrUsed \in 0 .. FifoDepth - 1
      BY <1>1, <2>1 DEF Half, WrFull
    <3>2. wrUsed % FifoDepth = wrUsed
      BY <3>1
    <3>3. QED
      BY <1>1, <1>6, <2>1, <3>2 DEF StRun, Room, Half, WrUsedW, Receiving
  <2>2. CASE ~Half
    BY <1>6, <2>2 DEF StRun, Room
  <2>3. QED
    BY <2>1, <2>2
<1>7. CASE StRunRead1(regs.DisplayCom, RdEmpty, waitreq) /\ state' # "INIT"
  BY <1>1, <1>7 DEF StRunRead1, Room, Receiving
<1>8. CASE StRunRead2(regs.DisplayCom, RdEmpty, valid) /\ state' # "INIT"
  <2>1. CASE valid /\ counter # BurstSize - 1
    <3>1. counter < BurstSize - 1
      BY <1>1, <1>8, <2>1 DEF Room, StRunRead2
    <3>2. counter' = counter + 1
      BY <1>1, <1>8, <2>1, <3>1 DEF StRunRead2, CountWord, CounterSpace
    <3>3. QED
      BY <1>1, <1>8, <2>1, <3>1, <3>2 DEF StRunRead2, Room
  <2>2. CASE ~valid /\ counter # BurstSize - 1
    BY <1>1, <1>8, <2>2 DEF StRunRead2, CountWord, Room
  <2>3. CASE counter = BurstSize - 1
    BY <1>8, <2>3 DEF StRunRead2, Room
  <2>4. QED
    BY <2>1, <2>2, <2>3
<1>9. QED
  BY <1>2, <1>3, <1>4, <1>5, <1>6, <1>7, <1>8 DEF Clk50, MasterClock

LEMMA TypeClk50 ==
  ASSUME IInv, NEW waitreq \in BOOLEAN, NEW valid \in BOOLEAN,
         Clk50(waitreq, valid)
  PROVE  TypeOK'
<1> USE DEF IInv
<1>1. SlaveTypeOK' /\ (pc \in 1 .. Len(Program) + 1)'
  BY DriverType DEF Clk50
<1>2. MasterTypeOK'
  <2>1. Half \in BOOLEAN /\ RdEmpty \in BOOLEAN
    BY DEF Half, RdEmpty, WrFull, WrUsedW
  <2>2. regs.DisplayCom \in Nat /\ regs.FBAdd \in Nat /\ regs.FBLen \in Nat
    BY RegsType DEF TypeOK
  <2>3. MasterTypeOK
    BY DEF TypeOK
  <2>4. MasterClock(regs.DisplayCom, regs.FBAdd, regs.FBLen,
                    Half, RdEmpty, waitreq, valid)
    BY DEF Clk50
  <2>5. QED
    BY <2>1, <2>2, <2>3, <2>4, MasterType
<1>3. SyncTypeOK'
  BY DEF Clk50, TypeOK, SyncTypeOK, syncVars
<1>4. fifo' \in Seq(Nat) /\ CountsSafe'
  <2>1. valid => pend # <<>>
    BY DEF Clk50, BusAnswers
  <2>2. QED
    BY <2>1, WriteSide DEF Clk50
<1>5. (pend \in Seq(Nat) /\ Len(pend) <= MaxPending * BurstSize)'
  BY BusType DEF Clk50
<1>6. ticks' \in 0 .. MaxRatio /\ late' \in BOOLEAN
  <2>1. ticks' \in 0 .. MaxRatio
    BY ControllerAssumption DEF Clk50, TypeOK
  <2>2. /\ late \in BOOLEAN
        /\ late' = IF state = "INIT" THEN pend # <<>> ELSE late \/ LastWordLate(valid)
    BY DEF Clk50, TypeOK
  <2>3. late' \in BOOLEAN
    BY <2>2, Zenon
  <2>4. QED
    BY <2>1, <2>3
<1>7. QED
  BY <1>1, <1>2, <1>3, <1>4, <1>5, <1>6 DEF TypeOK

LEMMA StepVgaClk ==
  ASSUME IInv, VgaClk
  PROVE  IInv'
<1> USE DEF IInv
<1>1. /\ fifo' \in Seq(Nat) /\ CountsSafe' /\ wrUsed' = wrUsed
      /\ fifo = <<>> => fifo' = <<>> /\ rdUsed' = 0
  <2>1. DispEna(Timing) \in BOOLEAN /\ FifoRead(DispEna(Timing))
    BY DEF DispEna, VgaClk
  <2>2. QED
    BY <2>1, FifoReadType DEF TypeOK
<1>2. SyncTypeOK'
  <2>1. RdFull \in BOOLEAN /\ RdEmpty \in BOOLEAN
    BY DEF RdFull, RdEmpty
  <2>2. QED
    BY <2>1, SyncType DEF VgaClk, TypeOK
<1>3. UNCHANGED <<regs, state, addr, counter, pend, pc, late>> /\ ticks' = 0
  BY DEF VgaClk, masterVars
<1>4. TypeOK'
  BY <1>1, <1>2, <1>3, ControllerAssumption
     DEF TypeOK, SlaveTypeOK, MasterTypeOK, Space
<1>5. Room'
  BY <1>1, <1>3 DEF Room
<1>6. QED
  BY <1>4, <1>5

LEMMA InitIInv == Init => IInv
<1>1. ASSUME Init PROVE TypeOK
  <2>1. SlaveTypeOK
    BY <1>1, SlaveAssumption DEF Init, SlaveInit, SlaveTypeOK, Space
  <2>2. MasterTypeOK
    BY <1>1, MasterAssumption
       DEF Init, MasterInit, MasterTypeOK, MasterStates, CounterSpace
  <2>3. SyncTypeOK
    BY <1>1, SyncAssumption DEF Init, SyncInit, SyncTypeOK
  <2>4. fifo \in Seq(Nat) /\ CountsSafe
    BY <1>1, FifoAssumption DEF Init, FifoInit, CountsSafe
  <2>5. MaxPending * BurstSize \in Nat
    BY MasterAssumption, ControllerAssumption
  <2>6. /\ ticks \in 0 .. MaxRatio
        /\ pend \in Seq(Nat) /\ Len(pend) <= MaxPending * BurstSize
        /\ pc \in 1 .. Len(Program) + 1
    BY <1>1, <2>5, ControllerAssumption DEF Init, Program
  <2>7. late \in BOOLEAN
    BY <1>1, Zenon DEF Init
  <2>8. QED
    BY <2>1, <2>2, <2>3, <2>4, <2>6, <2>7 DEF TypeOK
<1>2. ASSUME Init PROVE Room
  BY <1>2 DEF Init, FifoInit, MasterInit, Room
<1>3. QED
  BY <1>1, <1>2 DEF IInv

LEMMA NextIInv == IInv /\ [Next]_vars => IInv'
<1> SUFFICES ASSUME IInv, [Next]_vars PROVE IInv'
  OBVIOUS
<1>1. CASE VgaClk
  BY <1>1, StepVgaClk
<1>2. ASSUME NEW waitreq \in BOOLEAN, NEW valid \in BOOLEAN,
             Clk50(waitreq, valid)
      PROVE  IInv'
  BY <1>2, RoomClk50, TypeClk50 DEF IInv
<1>3. CASE UNCHANGED vars
  BY <1>3 DEF vars, IInv, TypeOK, Room, SlaveTypeOK, MasterTypeOK, SyncTypeOK,
              CountsSafe, Space
<1>4. QED
  BY <1>1, <1>2, <1>3 DEF Next

\* The controller's state keeps its types under every schedule of the two
\* clocks, the memory and the driver.
THEOREM TypeCorrect == Spec => []TypeOK
<1>1. Spec => []IInv
  BY InitIInv, NextIInv, PTL DEF Spec
<1>2. IInv => TypeOK
  BY DEF IInv
<1>3. QED
  BY <1>1, <1>2, PTL

LEMMA RoomForWord == IInv => NoOverflow
BY MasterAssumption, ControllerAssumption
   DEF IInv, TypeOK, Room, NoOverflow, Receiving, WrFull, CountsSafe,
       MasterTypeOK, CounterSpace

\* Whenever the master may receive a word there is room for it in the FIFO: no
\* pixel is dropped at the FIFO, whatever the memory and the driver do.
THEOREM EveryWordHasRoom == Spec => []NoOverflow
<1>1. Spec => []IInv
  BY InitIInv, NextIInv, PTL DEF Spec
<1>2. QED
  BY <1>1, RoomForWord, PTL
-----------------------------------------------------------------------------
(* The words of the frame buffer                                          *)

CONSTANTS
  Bursts        \* bursts of a frame (9600 for 640 x 480 words)

B == BurstSize
Frame == Config["FBLen"]

(***************************************************************************)
(* The settings of the theorem: the frame is a whole number of bursts, at  *)
(* least the two of the initial fill; every frame buffer ends below the    *)
(* end of the address space; both fit their registers.                     *)
(***************************************************************************)
Settings ==
  /\ Bursts \in Nat /\ Bursts >= 2
  /\ Frame = Bursts * B /\ Frame < Space21
  /\ \A b \in Bases : b < Space32 /\ b + Frame * AddrInc < AddrSpace

(***************************************************************************)
(* What init_vga has written: the frame is set before the display starts,  *)
(* and stays as it is while the master is not in ST_INIT.                  *)
(***************************************************************************)
Configured ==
  /\ pc <= 12 => regs.DisplayCom = 0
  /\ pc > 2 => regs.FBAdd \in Bases
  /\ pc > 3 => regs.FBLen = Frame
  /\ state # "INIT" => regs.FBAdd \in Bases /\ regs.FBLen = Frame

(***************************************************************************)
(* The master's address is that of a word of the frame: in the initial     *)
(* fill the word counter tells which, later the number of bursts since the *)
(* frame began and the words of the running one.                           *)
(***************************************************************************)
AtWord(p) == addr = regs.FBAdd + p * AddrInc
Placed ==
  ~late =>
    /\ state = "INITREAD1" => counter \in {0, B} /\ AtWord(counter)
    /\ state = "INITREAD2" => AtWord(counter)
    /\ state = "RUN" => \E k \in 0 .. Bursts : AtWord(k * B)
    /\ state = "RUNREAD1" => \E k \in 0 .. Bursts - 1 : AtWord(k * B)
    /\ state = "RUNREAD2" => \E k \in 0 .. Bursts - 1 : AtWord(k * B + counter)

FInv == IInv /\ Configured /\ Placed

-----------------------------------------------------------------------------
\* A later word has a later address.
LEMMA Monotone ==
  ASSUME NEW p \in Nat, NEW q \in Nat, p <= q, NEW inc \in Nat
  PROVE  p * inc \in Nat /\ q * inc \in Nat /\ p * inc <= q * inc
<1>1. PICK r \in Nat : q = p + r
  <2>1. q - p \in Nat /\ q = p + (q - p)
    OBVIOUS
  <2> QED
    BY <2>1
<1>2. (p + r) * inc = p * inc + r * inc /\ r * inc \in Nat /\ p * inc \in Nat
  OBVIOUS
<1> QED
  BY <1>1, <1>2

LEMMA NextWord ==
  ASSUME NEW p \in Nat, NEW inc \in Nat
  PROVE  (p + 1) * inc = p * inc + inc
OBVIOUS

LEMMA Spread ==
  ASSUME NEW p \in Nat, NEW n \in Nat, NEW inc \in Nat
  PROVE  (p + n) * inc = p * inc + n * inc
OBVIOUS

LEMMA Constants ==
  /\ B \in Nat /\ B >= 2 /\ B = BurstSize /\ CounterSpace = 2 * B
  /\ AddrInc \in Nat /\ AddrSpace \in Nat \ {0} /\ \A b \in Bases : b \in Nat
<1>1. BurstSize \in Nat /\ BurstSize >= 2 /\ AddrInc \in Nat /\ AddrSpace \in Nat \ {0}
  BY MasterAssumption
<1>2. \A b \in Bases : b \in Nat
  BY ControllerAssumption
<1> QED
  BY <1>1, <1>2 DEF B, CounterSpace

LEMMA FrameNat == Frame \in Nat
<1>1. "FBLen" \in ConfigRegs \ {"FBAdd"}
  BY DEF ConfigRegs
<1> QED
  BY <1>1, ControllerAssumption DEF Frame

\* A burst of the frame ends in the frame, where the next one begins.
LEMMA BurstFits ==
  ASSUME Settings, NEW k \in 0 .. Bursts - 1
  PROVE  k * B \in Nat /\ (k + 1) * B = k * B + B /\ k * B + B <= Frame /\ Frame \in Nat
<1>1. B \in Nat /\ k \in Nat /\ k + 1 \in Nat /\ Bursts \in Nat /\ k + 1 <= Bursts
  BY MasterAssumption DEF Settings, B
<1>2. (k + 1) * B <= Bursts * B /\ Bursts * B \in Nat
  BY <1>1, Monotone
<1>3. (k + 1) * B = k * B + B /\ k * B \in Nat
  BY <1>1
<1> QED
  BY <1>2, <1>3 DEF Settings

\* A word that is counted moves the address to the next word of the frame.
LEMMA StepsOn ==
  ASSUME Settings, TypeOK, NEW p \in 0 .. Frame - 1, regs.FBAdd \in Bases, AtWord(p),
         CountWord(TRUE)
  PROVE  addr' = regs.FBAdd + (p + 1) * AddrInc
<1>1. regs.FBAdd \in Nat /\ AddrInc \in Nat /\ AddrSpace \in Nat \ {0} /\ Frame \in Nat /\ p \in Nat
  BY Constants, FrameNat
<1>2. (p + 1) * AddrInc = p * AddrInc + AddrInc /\ p * AddrInc \in Nat
  BY <1>1, NextWord
<1>3. (p + 1) * AddrInc <= Frame * AddrInc /\ Frame * AddrInc \in Nat /\ (p + 1) * AddrInc \in Nat
  BY <1>1, Monotone
<1>4. regs.FBAdd + Frame * AddrInc < AddrSpace
  BY DEF Settings
<1> DEFINE next == regs.FBAdd + (p + 1) * AddrInc
<1>5. addr + AddrInc = next
  BY <1>1, <1>2 DEF AtWord
<1>6. next \in 0 .. AddrSpace - 1
  BY <1>1, <1>3, <1>4
<1>7. next % AddrSpace = next
  <2> HIDE DEF next
  <2> QED
    BY <1>1, <1>6
<1> QED
  BY <1>5, <1>7 DEF CountWord

LEMMA ModSmall == ASSUME NEW b \in Nat \ {0}, NEW a \in 0 .. b - 1
                  PROVE  a % b = a
OBVIOUS

\* The last word of each of the two bursts the counter tells apart.
LEMMA LastWords == (B - 1) % B = B - 1 /\ (2 * B - 1) % B = B - 1
BY MasterAssumption DEF B

-----------------------------------------------------------------------------
\* The writes of init_vga keep the frame of a running display.
LEMMA DriverKeeps ==
  ASSUME Settings, TypeOK, Configured, InitVgaWrite \/ NoWrite
  PROVE  /\ pc' <= 12 => regs'.DisplayCom = 0
         /\ pc' > 2 => regs'.FBAdd \in Bases
         /\ pc' > 3 => regs'.FBLen = Frame
         /\ regs.DisplayCom # 0 => pc > 12 /\ regs'.FBAdd = regs.FBAdd /\ regs'.FBLen = regs.FBLen
<1>0. /\ Len(Program) = 12 /\ pc \in 1 .. 13
      /\ regs \in [Registers -> Nat]
      /\ {"DisplayCom", "FBAdd", "FBLen"} \subseteq Registers
      /\ Space("DisplayCom") = Space16 /\ Space("FBAdd") = Space32 /\ Space("FBLen") = Space21
      /\ 0 % Space16 = 0
  <2>1. Len(Program) = 12
    BY DEF Program
  <2>2. pc \in 1 .. 13 /\ regs \in [Registers -> Nat]
    BY <2>1 DEF TypeOK, SlaveTypeOK
  <2>3. {"DisplayCom", "FBAdd", "FBLen"} \subseteq Registers
    BY DEF Registers, ConfigRegs
  <2>4. Space("DisplayCom") = Space16 /\ Space("FBAdd") = Space32 /\ Space("FBLen") = Space21
    BY DEF Space
  <2>5. 0 % Space16 = 0
    BY SlaveAssumption
  <2> QED
    BY <2>1, <2>2, <2>3, <2>4, <2>5
<1> USE DEF Configured
<1>1. CASE NoWrite
  BY <1>0, <1>1 DEF NoWrite
<1>2. CASE Restarts /\ pc > 1 /\ SlaveWrite("DisplayCom", COMM_STOP) /\ pc' = 2
  <2>1. regs' = [regs EXCEPT !["DisplayCom"] = 0]
    BY <1>0, <1>2 DEF SlaveWrite, COMM_STOP
  <2> QED
    BY <1>0, <1>2, <2>1
<1>3. CASE ~DriverDone /\ (\E d \in ProgramData(pc) : SlaveWrite(Program[pc], d)) /\ pc' = pc + 1
  <2>1. PICK d \in ProgramData(pc) : SlaveWrite(Program[pc], d)
    BY <1>3
  <2>2. pc \in 1 .. 12 /\ regs.DisplayCom = 0
    BY <1>0, <1>3 DEF DriverDone
  <2>3. CASE pc = 1
    <3>1. Program[pc] = "DisplayCom" /\ d = 0
      BY <2>1, <2>3 DEF Program, ProgramData, COMM_STOP
    <3>2. regs' = [regs EXCEPT !["DisplayCom"] = 0]
      BY <1>0, <2>1, <3>1 DEF SlaveWrite
    <3> QED
      BY <1>0, <1>3, <2>2, <2>3, <3>2
  <2>4. CASE pc = 2
    <3>1. Program[pc] = "FBAdd" /\ d \in Bases
      BY <1>0, <2>1, <2>4 DEF Program, ProgramData
    <3>2. d % Space32 = d
      BY <3>1, SlaveAssumption, ControllerAssumption DEF Settings
    <3>3. regs' = [regs EXCEPT !["FBAdd"] = d]
      BY <1>0, <2>1, <2>2, <3>1, <3>2 DEF SlaveWrite, ConfigRegs
    <3> QED
      BY <1>0, <1>3, <2>2, <2>4, <3>1, <3>3
  <2>5. CASE pc = 3
    <3>1. Program[pc] = "FBLen" /\ d = Frame
      BY <1>0, <2>1, <2>5 DEF Program, ProgramData, Frame
    <3>2. d % Space21 = d
      BY <3>1, SlaveAssumption, FrameNat DEF Settings
    <3>3. regs' = [regs EXCEPT !["FBLen"] = Frame]
      BY <1>0, <2>1, <2>2, <3>1, <3>2 DEF SlaveWrite, ConfigRegs
    <3> QED
      BY <1>0, <1>3, <2>2, <2>5, <3>3
  <2>6. CASE pc \in 4 .. 11
    <3>1. Program[pc] \in TimingRegs
      BY <2>6 DEF Program, TimingRegs
    <3>2. regs'.DisplayCom = 0 /\ regs'.FBAdd = regs.FBAdd /\ regs'.FBLen = regs.FBLen
      BY <1>0, <2>1, <2>2, <3>1 DEF SlaveWrite, TimingRegs
    <3> QED
      BY <1>0, <1>3, <2>2, <2>6, <3>2
  <2>7. CASE pc = 12
    <3>1. Program[pc] = "DisplayCom"
      BY <2>7 DEF Program
    <3>2. regs'.FBAdd = regs.FBAdd /\ regs'.FBLen = regs.FBLen
      BY <1>0, <2>1, <3>1 DEF SlaveWrite
    <3> QED
      BY <1>0, <1>3, <2>2, <2>7, <3>2
  <2> QED
    BY <2>2, <2>3, <2>4, <2>5, <2>6, <2>7
<1> QED
  BY <1>1, <1>2, <1>3 DEF InitVgaWrite

\* The master leaves ST_INIT, or stays out of it, only while the display is on:
\* the frame is then set and no write changes it.
LEMMA FrameKept ==
  ASSUME Settings, TypeOK, Configured, NEW waitreq \in BOOLEAN, NEW valid \in BOOLEAN,
         Clk50(waitreq, valid), state' # "INIT"
  PROVE  /\ regs.FBAdd \in Bases /\ regs.FBLen = Frame
         /\ regs'.FBAdd = regs.FBAdd /\ regs'.FBLen = regs.FBLen
<1>1. InitVgaWrite \/ NoWrite
  BY DEF Clk50
<1>2. regs.DisplayCom # 0
  <2>1. Started(regs.DisplayCom)
    BY DEF Clk50, MasterClock, StInit, StInitRead1, StInitRead2, StRun, StRunRead1, StRunRead2
  <2> QED
    BY <2>1 DEF Started
<1>3. pc > 12 /\ regs'.FBAdd = regs.FBAdd /\ regs'.FBLen = regs.FBLen
  BY <1>1, <1>2, DriverKeeps
<1>4. pc > 2 /\ pc > 3
  BY <1>3 DEF TypeOK
<1> QED
  BY <1>3, <1>4 DEF Configured

LEMMA ConfiguredClk50 ==
  ASSUME Settings, TypeOK, Configured, NEW waitreq \in BOOLEAN, NEW valid \in BOOLEAN,
         Clk50(waitreq, valid)
  PROVE  Configured'
<1>1. InitVgaWrite \/ NoWrite
  BY DEF Clk50
<1>2. state' # "INIT" => regs'.FBAdd \in Bases /\ regs'.FBLen = Frame
  BY FrameKept
<1> QED
  BY <1>1, <1>2, DriverKeeps DEF Configured

-----------------------------------------------------------------------------
\* Where the master is after an edge of clk_50, state by state.
LEMMA PlacedClk50 ==
  ASSUME Settings, FInv, NEW waitreq \in BOOLEAN, NEW valid \in BOOLEAN,
         Clk50(waitreq, valid)
  PROVE  Placed'
<1> SUFFICES ASSUME state' # "INIT", ~late' PROVE Placed'
  BY DEF Placed
<1>1. /\ regs.FBAdd \in Bases /\ regs.FBLen = Frame
      /\ regs'.FBAdd = regs.FBAdd /\ regs'.FBLen = regs.FBLen
  BY FrameKept DEF FInv, IInv
<1>2. /\ B \in Nat /\ B >= 2 /\ B = BurstSize /\ CounterSpace = 2 * B /\ Bursts \in Nat /\ Bursts >= 2
      /\ AddrInc \in Nat /\ Frame \in Nat /\ regs.FBAdd \in Nat
      /\ counter \in 0 .. 2 * B - 1 /\ addr \in Nat
  <2>1. regs.FBAdd \in Nat
    BY <1>1, Constants
  <2>2. counter \in 0 .. CounterSpace - 1 /\ addr \in Nat
    BY DEF FInv, IInv, TypeOK, MasterTypeOK
  <2> QED
    BY <2>1, <2>2, Constants, FrameNat DEF Settings
<1>3. 2 * B <= Frame
  <2>1. 1 \in 0 .. Bursts - 1
    BY <1>2
  <2>2. 1 * B + B <= Frame
    BY <2>1, BurstFits
  <2> QED
    BY <1>2, <2>2
<1>4. state # "INIT" => ~late /\ ~LastWordLate(valid)
  BY DEF Clk50
<1> DEFINE Pos(p) == addr = regs.FBAdd + p * AddrInc
           NewPos(p) == addr' = regs.FBAdd + p * AddrInc
<1>5. ASSUME NEW p \in 0 .. Frame - 1, Pos(p), CountWord(TRUE) PROVE NewPos(p + 1)
  BY <1>1, <1>5, StepsOn DEF FInv, IInv, AtWord
<1>6. CountWord(FALSE) => addr' = addr /\ counter' = counter
  BY DEF CountWord
<1>7. CountWord(TRUE) /\ counter < 2 * B - 1 => counter' = counter + 1
  BY <1>2, ModSmall DEF CountWord
<1>8. valid = FALSE => counter % B # B - 1 \/ ~Receiving
  BY <1>2, <1>4 DEF LastWordLate, Receiving
<1>9. CASE StInit(regs.DisplayCom, regs.FBAdd)
  <2>1. state' = "INITREAD1" /\ counter' = 0 /\ addr' = regs.FBAdd
    BY <1>9 DEF StInit
  <2>2. regs.FBAdd + 0 * AddrInc = regs.FBAdd
    BY <1>2
  <2> QED
    BY <1>1, <2>1, <2>2 DEF Placed, AtWord
<1>10. CASE StInitRead1(regs.DisplayCom, waitreq)
  BY <1>1, <1>4, <1>10 DEF StInitRead1, FInv, Placed, AtWord
<1>11. CASE StInitRead2(regs.DisplayCom, valid)
  <2>1. state = "INITREAD2" /\ Receiving /\ Pos(counter) /\ CountWord(valid)
    BY <1>4, <1>11 DEF StInitRead2, FInv, Placed, AtWord, Receiving
  <2>2. CASE valid = FALSE
    <3>1. counter # B - 1 /\ counter # 2 * B - 1
      BY <1>8, <2>1, <2>2, LastWords
    <3>2. state' = "INITREAD2" /\ addr' = addr /\ counter' = counter
      BY <1>2, <1>6, <1>11, <2>1, <2>2, <3>1 DEF StInitRead2
    <3> QED
      BY <1>1, <2>1, <3>2 DEF Placed, AtWord
  <2>3. CASE valid = TRUE
    <3>0. CountWord(TRUE)
      BY <2>1, <2>3
    <3>1. counter \in 0 .. Frame - 1
      BY <1>2, <1>3
    <3>2. NewPos(counter + 1)
      BY <1>5, <2>1, <3>0, <3>1
    <3>3. CASE counter = 2 * B - 1
      <4>1. state' = "RUN"
        BY <1>2, <1>11, <3>3 DEF StInitRead2
      <4>2. NewPos(2 * B) /\ 2 \in 0 .. Bursts
        BY <1>2, <3>2, <3>3
      <4> QED
        BY <1>1, <4>1, <4>2 DEF Placed, AtWord
    <3>4. CASE counter < 2 * B - 1
      <4>1. counter' = counter + 1
        BY <1>7, <3>0, <3>4
      <4>2. state' = (IF counter = B - 1 THEN "INITREAD1" ELSE "INITREAD2")
        BY <1>2, <1>11, <3>4 DEF StInitRead2
      <4>3. counter = B - 1 => counter' = B
        BY <1>2, <4>1
      <4> QED
        BY <1>1, <3>2, <4>1, <4>2, <4>3 DEF Placed, AtWord
    <3> QED
      BY <1>2, <3>3, <3>4
  <2> QED
    BY <2>2, <2>3
<1>12. CASE StRun(regs.DisplayCom, regs.FBAdd, regs.FBLen, Half, RdEmpty)
  <2>1. PICK k \in 0 .. Bursts : Pos(k * B)
    BY <1>4, <1>12 DEF StRun, FInv, Placed, AtWord
  <2>2. state' \in {"RUN", "RUNREAD1"}
    BY <1>12 DEF StRun
  <2>3. CASE addr = regs.FBAdd + Frame * AddrInc
    <3>1. addr' = regs.FBAdd
      BY <1>1, <1>12, <2>3 DEF StRun
    <3>2. 0 * B = 0 /\ regs.FBAdd + 0 * AddrInc = regs.FBAdd
      BY <1>2
    <3>3. NewPos(0 * B) /\ 0 \in 0 .. Bursts - 1 /\ 0 \in 0 .. Bursts
      BY <1>2, <3>1, <3>2
    <3> QED
      BY <1>1, <2>2, <3>3 DEF Placed, AtWord
  <2>4. CASE addr # regs.FBAdd + Frame * AddrInc
    <3>1. addr' = addr
      BY <1>1, <1>12, <2>4 DEF StRun
    <3>2. k # Bursts
      BY <2>1, <2>4 DEF Settings
    <3>3. k \in 0 .. Bursts - 1
      BY <1>2, <3>2
    <3> QED
      BY <1>1, <2>1, <2>2, <3>1, <3>3 DEF Placed, AtWord
  <2> QED
    BY <2>3, <2>4
<1>13. CASE StRunRead1(regs.DisplayCom, RdEmpty, waitreq)
  <2>1. PICK k \in 0 .. Bursts - 1 : Pos(k * B)
    BY <1>4, <1>13 DEF StRunRead1, FInv, Placed, AtWord
  <2>2. state' \in {"RUNREAD1", "RUNREAD2"} /\ addr' = addr /\ counter' = 0
    BY <1>13 DEF StRunRead1
  <2>3. k * B + 0 = k * B
    BY BurstFits
  <2>4. NewPos(k * B) /\ NewPos(k * B + 0)
    BY <2>1, <2>2, <2>3
  <2> QED
    BY <1>1, <2>2, <2>4 DEF Placed, AtWord
<1>14. CASE StRunRead2(regs.DisplayCom, RdEmpty, valid)
  <2>1. state = "RUNREAD2" /\ Receiving /\ CountWord(valid)
    BY <1>14 DEF StRunRead2, Receiving
  <2>2. PICK k \in 0 .. Bursts - 1 : Pos(k * B + counter)
    BY <1>4, <2>1 DEF FInv, Placed, AtWord
  <2>3. counter \in 0 .. B - 1
    BY <1>2, <2>1 DEF FInv, IInv, Room
  <2>4. k * B \in Nat /\ (k + 1) * B = k * B + B /\ k * B + B <= Frame
    BY BurstFits
  <2>5. CASE valid = FALSE
    <3>1. counter # B - 1
      BY <1>8, <2>1, <2>5, LastWords
    <3>2. state' = "RUNREAD2" /\ addr' = addr /\ counter' = counter
      BY <1>2, <1>6, <1>14, <2>1, <2>5, <3>1 DEF StRunRead2
    <3> QED
      BY <1>1, <2>2, <3>2 DEF Placed, AtWord
  <2>6. CASE valid = TRUE
    <3>0. CountWord(TRUE)
      BY <2>1, <2>6
    <3>1. k * B + counter \in 0 .. Frame - 1
      BY <1>2, <2>3, <2>4, FrameNat
    <3>2. NewPos(k * B + counter + 1)
      BY <1>5, <2>2, <3>0, <3>1
    <3>3. CASE counter = B - 1
      <4>1. state' = "RUN"
        BY <1>2, <1>14, <3>3 DEF StRunRead2
      <4>2. k * B + counter + 1 = (k + 1) * B
        BY <1>2, <2>4, <3>3
      <4>3. NewPos((k + 1) * B) /\ k + 1 \in 0 .. Bursts
        BY <1>2, <3>2, <4>2
      <4> QED
        BY <1>1, <4>1, <4>3 DEF Placed, AtWord
    <3>4. CASE counter < B - 1
      <4>0. counter < 2 * B - 1 /\ counter # BurstSize - 1
        BY <1>2, <3>4
      <4>1. counter' = counter + 1 /\ state' = "RUNREAD2"
        BY <1>7, <1>14, <3>0, <4>0 DEF StRunRead2
      <4>2. NewPos(k * B + counter')
        BY <1>2, <2>4, <3>2, <4>1
      <4> QED
        BY <1>1, <4>1, <4>2 DEF Placed, AtWord
    <3> QED
      BY <1>2, <2>3, <3>3, <3>4
  <2> QED
    BY <2>5, <2>6
<1> QED
  BY <1>9, <1>10, <1>11, <1>12, <1>13, <1>14 DEF Clk50, MasterClock

-----------------------------------------------------------------------------
LEMMA FetchInvariant == ASSUME Settings PROVE Spec => []FInv
<1>1. Init => FInv
  <2> SUFFICES ASSUME Init PROVE FInv
    OBVIOUS
  <2>1. pc = 1 /\ state = "INIT" /\ regs.DisplayCom = 0
    BY DEF Init, MasterInit, SlaveInit, Registers
  <2> QED
    BY <2>1, InitIInv DEF FInv, Configured, Placed
<1>2. FInv /\ [Next]_vars => FInv'
  <2> SUFFICES ASSUME FInv, [Next]_vars PROVE FInv'
    OBVIOUS
  <2>1. IInv'
    BY NextIInv DEF FInv
  <2>2. ASSUME NEW waitreq \in BOOLEAN, NEW valid \in BOOLEAN, Clk50(waitreq, valid)
        PROVE  Configured' /\ Placed'
    BY <2>2, ConfiguredClk50, PlacedClk50 DEF FInv, IInv
  <2>3. CASE VgaClk \/ UNCHANGED vars
    <3>1. UNCHANGED <<regs, masterVars, pc, late>>
      BY <2>3 DEF VgaClk, vars, masterVars
    <3> QED
      BY <2>1, <3>1 DEF masterVars, FInv, Configured, Placed, AtWord
  <2> QED
    BY <2>1, <2>2, <2>3 DEF Next, FInv
<1> QED
  BY <1>1, <1>2, PTL DEF Spec

\* Every burst the master asks for, of the initial fill or later, lies within
\* the frame buffer that was set (Master_component.vhd, ST_RUN), whatever the
\* software does meanwhile.
THEOREM FetchesInFrame == ASSUME Settings PROVE Spec => []FetchInFrame
<1>1. FInv => FetchInFrame
  <2> SUFFICES ASSUME FInv, Reading, ~late
               PROVE  /\ regs.FBAdd <= addr
                      /\ addr + BurstSize * AddrInc <= regs.FBAdd + FrameWords * AddrInc
    BY DEF FetchInFrame
  <2>1. regs.FBAdd \in Bases /\ regs.FBLen = Frame
    BY DEF FInv, Configured, Reading
  <2>2. PICK p \in Nat : AtWord(p) /\ p + B <= Frame
    <3>1. CASE state = "INITREAD1"
      <4>1. 1 \in 0 .. Bursts - 1 /\ 0 \in 0 .. Bursts - 1
        BY DEF Settings
      <4>2. B + B <= Frame /\ 0 + B <= Frame
        BY <4>1, BurstFits, Constants
      <4> QED
        BY <3>1, <4>2, Constants DEF FInv, Placed
    <3>2. CASE state = "RUNREAD1"
      BY <3>2, BurstFits DEF FInv, Placed
    <3> QED
      BY <3>1, <3>2 DEF Reading
  <2>3. (p + B) * AddrInc = p * AddrInc + B * AddrInc
    BY Constants, Spread
  <2>4. (p + B) * AddrInc <= Frame * AddrInc /\ p + B \in Nat
    BY <2>2, Constants, FrameNat, Monotone
  <2>5. p * AddrInc \in Nat /\ B * AddrInc \in Nat /\ Frame * AddrInc \in Nat
    BY Constants, FrameNat, Monotone
  <2>6. regs.FBAdd \in Nat
    BY <2>1, Constants
  <2> QED
    BY <2>1, <2>2, <2>3, <2>4, <2>5, <2>6, Constants DEF AtWord, FrameWords
<1> QED
  BY <1>1, FetchInvariant, PTL

-----------------------------------------------------------------------------
(***************************************************************************)
(* What is on the bus: while the master receives a burst, the words it     *)
(* still has to come to, in order; otherwise nothing.                      *)
(***************************************************************************)
Pending ==
  ~late /\ state # "INIT" =>
    IF Receiving
    THEN /\ Len(pend) = B - (counter % B)
         /\ \A i \in 1 .. Len(pend) : pend[i] = addr + (i - 1) * AddrInc
    ELSE pend = <<>>

SInv == FInv /\ Pending

\* The counter of two bursts, taken as the count of one.
LEMMA CountInBurst ==
  ASSUME NEW c \in 0 .. 2 * B - 1
  PROVE  /\ c % B \in 0 .. B - 1
         /\ c % B = B - 1 <=> c = B - 1 \/ c = 2 * B - 1
         /\ c % B # B - 1 => (c + 1) % B = (c % B) + 1
         /\ c = 0 \/ c = B => c % B = 0
<1> DEFINE b == B
<1>1. b \in Nat /\ b >= 2
  BY Constants
<1>2. ASSUME NEW x \in 0 .. b - 1 PROVE x % b = x /\ (b + x) % b = x
  BY <1>1
<1>3. CASE c < b
  BY <1>1, <1>2, <1>3
<1>4. CASE c >= b
  <2>1. PICK x \in 0 .. b - 1 : c = b + x
    <3>1. c - b \in 0 .. b - 1 /\ c = b + (c - b)
      BY <1>1, <1>4
    <3> QED
      BY <3>1
  <2>2. c % b = x
    BY <1>2, <2>1
  <2>3. x + 1 <= b - 1 => (c + 1) % b = x + 1
    <3> SUFFICES ASSUME x + 1 <= b - 1 PROVE (c + 1) % b = x + 1
      OBVIOUS
    <3>1. x + 1 \in 0 .. b - 1 /\ c + 1 = b + (x + 1)
      BY <1>1, <2>1
    <3> QED
      BY <1>2, <3>1
  <2> QED
    BY <1>1, <1>4, <2>1, <2>2, <2>3
<1> QED
  BY <1>1, <1>3, <1>4

\* A burst that is asked for, or the word that is due, lies in the frame.
LEMMA WordOfFrame ==
  ASSUME Settings, FInv, ~late, Reading \/ Receiving
  PROVE  \E p \in 0 .. Frame - 1 : AtWord(p) /\ (Reading => p + B <= Frame)
<1>1. /\ B \in Nat /\ B >= 2 /\ Frame \in Nat /\ counter \in 0 .. 2 * B - 1
      /\ 1 \in 0 .. Bursts - 1 /\ 0 \in 0 .. Bursts - 1
  BY Constants, FrameNat DEF Settings, FInv, IInv, TypeOK, MasterTypeOK
<1>2. 2 * B <= Frame
  BY <1>1, BurstFits
<1>3. CASE state = "INITREAD1"
  BY <1>1, <1>2, <1>3 DEF FInv, Placed
<1>4. CASE state = "INITREAD2"
  BY <1>1, <1>2, <1>4 DEF FInv, Placed, Reading
<1>5. CASE state = "RUNREAD1"
  <2>1. PICK k \in 0 .. Bursts - 1 : AtWord(k * B)
    BY <1>5 DEF FInv, Placed
  <2> QED
    BY <1>1, <2>1, BurstFits
<1>6. CASE state = "RUNREAD2"
  <2>1. PICK k \in 0 .. Bursts - 1 : AtWord(k * B + counter)
    BY <1>6 DEF FInv, Placed
  <2>2. counter < B
    BY <1>6 DEF FInv, IInv, Room, B
  <2>3. k * B \in Nat /\ k * B + B <= Frame
    BY BurstFits
  <2>4. k * B + counter \in 0 .. Frame - 1
    BY <1>1, <2>2, <2>3
  <2> QED
    BY <1>6, <2>1, <2>4 DEF Reading
<1> QED
  BY <1>3, <1>4, <1>5, <1>6 DEF Reading, Receiving

\* The words of a burst in the frame, without the wrap of the address.
LEMMA BurstInFrame ==
  ASSUME Settings, FInv, ~late, Reading
  PROVE  Burst(addr) = [i \in 1 .. B |-> addr + (i - 1) * AddrInc]
<1>1. PICK p \in 0 .. Frame - 1 : AtWord(p) /\ p + B <= Frame
  BY WordOfFrame
<1>2. regs.FBAdd \in Bases
  BY DEF FInv, Configured, Reading
<1>3. /\ regs.FBAdd \in Nat /\ AddrInc \in Nat /\ AddrSpace \in Nat \ {0}
      /\ p \in Nat /\ Frame \in Nat /\ B \in Nat
      /\ regs.FBAdd + Frame * AddrInc < AddrSpace
  BY <1>2, Constants, FrameNat DEF Settings
<1>4. ASSUME NEW i \in 1 .. B
      PROVE  (addr + (i - 1) * AddrInc) % AddrSpace = addr + (i - 1) * AddrInc
  <2> DEFINE x == addr + (i - 1) * AddrInc
  <2>1. i - 1 \in Nat /\ p + (i - 1) \in Nat /\ p + (i - 1) <= Frame
    BY <1>1, <1>3
  <2>2. (p + (i - 1)) * AddrInc = p * AddrInc + (i - 1) * AddrInc
    BY <1>3, <2>1, Spread
  <2>3. /\ (p + (i - 1)) * AddrInc <= Frame * AddrInc
        /\ (p + (i - 1)) * AddrInc \in Nat /\ Frame * AddrInc \in Nat
        /\ p * AddrInc \in Nat /\ (i - 1) * AddrInc \in Nat
    BY <1>3, <2>1, Monotone
  <2>4. x \in 0 .. AddrSpace - 1
    BY <1>1, <1>3, <2>2, <2>3 DEF AtWord
  <2> HIDE DEF x
  <2>5. x % AddrSpace = x
    BY <1>3, <2>4
  <2> QED
    BY <2>5 DEF x
<1> QED
  BY <1>4 DEF Burst, B

\* The words that are taken from the bus, and those a burst adds.
LEMMA PendingClk50 ==
  ASSUME Settings, SInv, NEW waitreq \in BOOLEAN, NEW valid \in BOOLEAN,
         Clk50(waitreq, valid)
  PROVE  Pending'
<1> SUFFICES ASSUME state' # "INIT", ~late' PROVE Pending'
  BY DEF Pending
<1>1. /\ B \in Nat /\ B >= 2 /\ B = BurstSize /\ CounterSpace = 2 * B
      /\ counter \in 0 .. 2 * B - 1 /\ addr \in Nat /\ AddrInc \in Nat /\ pend \in Seq(Nat)
  BY Constants DEF SInv, FInv, IInv, TypeOK, MasterTypeOK
<1>2. /\ state = "INIT" => pend = <<>>
      /\ state # "INIT" => ~late /\ ~LastWordLate(valid)
  BY DEF Clk50
<1>3. /\ pend = <<>> => valid = FALSE
      /\ pend' = IF Reading /\ ~waitreq THEN (IF valid THEN Tail(pend) ELSE pend) \o Burst(addr)
                 ELSE IF valid THEN Tail(pend) ELSE pend
  BY DEF Clk50, BusAnswers, BusClock
<1>4. CASE ~Receiving /\ ~(Reading /\ ~waitreq)
  <2>1. pend = <<>>
    BY <1>2, <1>4 DEF SInv, Pending
  <2>2. pend' = <<>>
    BY <1>3, <1>4, <2>1
  <2>3. ~Receiving'
    BY <1>4 DEF Clk50, MasterClock, StInit, StInitRead1, StInitRead2, StRun, StRunRead1,
                StRunRead2, Reading, Receiving
  <2> QED
    BY <2>2, <2>3 DEF Pending
<1>5. CASE Reading /\ ~waitreq
  <2>1. pend = <<>> /\ ~late
    BY <1>2, <1>5 DEF SInv, Pending, Reading, Receiving
  <2>2. Burst(addr) = [i \in 1 .. B |-> addr + (i - 1) * AddrInc]
    BY <1>5, <2>1, BurstInFrame DEF SInv
  <2>3. pend' = Burst(addr)
    <3>1. Burst(addr) \in Seq(Int)
      BY <1>1, <2>2
    <3>2. <<>> \o Burst(addr) = Burst(addr)
      BY <3>1
    <3> QED
      BY <1>3, <1>5, <2>1, <3>2
  <2>4. /\ Receiving' /\ addr' = addr
        /\ counter' = 0 \/ (counter' = counter /\ (counter = 0 \/ counter = B))
    <3>1. CASE state = "INITREAD1"
      <4>1. counter \in {0, B}
        BY <2>1, <3>1 DEF SInv, FInv, Placed
      <4>2. StInitRead1(regs.DisplayCom, waitreq)
        BY <3>1 DEF Clk50, MasterClock, StInit, StInitRead1, StInitRead2, StRun, StRunRead1,
                    StRunRead2
      <4> QED
        BY <1>5, <4>1, <4>2 DEF StInitRead1, Receiving
    <3>2. CASE state = "RUNREAD1"
      <4>1. StRunRead1(regs.DisplayCom, RdEmpty, waitreq)
        BY <3>2 DEF Clk50, MasterClock, StInit, StInitRead1, StInitRead2, StRun, StRunRead1,
                    StRunRead2
      <4> QED
        BY <1>5, <4>1 DEF StRunRead1, Receiving
    <3> QED
      BY <1>5, <3>1, <3>2 DEF Reading
  <2>5. counter' % B = 0
    <3>1. 0 \in 0 .. 2 * B - 1 /\ B \in 0 .. 2 * B - 1
      BY <1>1
    <3> QED
      BY <2>4, <3>1, CountInBurst
  <2>6. Len(pend') = B - (counter' % B)
    BY <1>1, <2>2, <2>3, <2>5
  <2>7. \A i \in 1 .. Len(pend') : pend'[i] = addr' + (i - 1) * AddrInc
    BY <1>1, <2>2, <2>3, <2>4
  <2> QED
    BY <2>4, <2>6, <2>7 DEF Pending
<1>6. CASE Receiving
  <2> DEFINE r == counter % B
  <2>1. /\ ~Reading /\ state # "INIT" /\ ~late
        /\ Len(pend) = B - r
        /\ \A i \in 1 .. Len(pend) : pend[i] = addr + (i - 1) * AddrInc
    BY <1>2, <1>6 DEF SInv, Pending, Reading, Receiving
  <2>2. /\ r \in 0 .. B - 1
        /\ r = B - 1 <=> counter = B - 1 \/ counter = 2 * B - 1
        /\ r # B - 1 => (counter + 1) % B = r + 1
    BY <1>1, CountInBurst
  <2>3. /\ CountWord(valid)
        /\ ~Receiving' => counter = B - 1 \/ counter = 2 * B - 1
        /\ counter = B - 1 \/ counter = 2 * B - 1 => ~Receiving'
    <3>1. CASE StInitRead2(regs.DisplayCom, valid)
      BY <1>1, <3>1 DEF StInitRead2, Receiving
    <3>2. CASE StRunRead2(regs.DisplayCom, RdEmpty, valid)
      <4>1. counter < B
        BY <1>1, <3>2 DEF StRunRead2, SInv, FInv, IInv, Room
      <4>2. counter # 2 * B - 1
        BY <1>1, <4>1
      <4> QED
        BY <1>1, <3>2, <4>2 DEF StRunRead2, Receiving
    <3> QED
      BY <1>6, <3>1, <3>2 DEF Clk50, MasterClock, StInit, StInitRead1, StRun, StRunRead1, Receiving
  <2>4. CASE valid = FALSE
    <3>1. pend' = pend
      BY <1>3, <2>1, <2>4
    <3>2. addr' = addr /\ counter' = counter
      BY <2>3, <2>4 DEF CountWord
    <3>3. r # B - 1
      BY <1>1, <1>2, <1>6, <2>1, <2>4 DEF LastWordLate
    <3>4. Receiving'
      BY <2>2, <2>3, <3>3
    <3> QED
      BY <2>1, <3>1, <3>2, <3>4 DEF Pending
  <2>5. CASE valid = TRUE
    <3>1. pend' = Tail(pend) /\ pend # <<>>
      BY <1>3, <2>1, <2>5
    <3>2. CountWord(TRUE)
      BY <2>3, <2>5
    <3>3. Len(pend') = B - r - 1 /\ \A i \in 1 .. Len(pend') : pend'[i] = pend[i + 1]
      BY <1>1, <2>1, <2>2, <3>1
    <3>4. CASE r = B - 1
      <4>1. ~Receiving'
        BY <2>2, <2>3, <3>4
      <4>2. pend' = <<>>
        BY <1>1, <3>1, <3>3, <3>4
      <4> QED
        BY <4>1, <4>2 DEF Pending
    <3>5. CASE r # B - 1
      <4>1. counter < 2 * B - 1 /\ Receiving'
        BY <1>1, <2>2, <2>3, <3>5
      <4>2. counter' = counter + 1
        <5>1. counter' = (counter + 1) % CounterSpace
          BY <3>2 DEF CountWord
        <5>2. counter + 1 \in 0 .. 2 * B - 1 /\ 2 * B \in Nat \ {0}
          BY <1>1, <4>1
        <5>3. (counter + 1) % (2 * B) = counter + 1
          BY <5>2, ModSmall
        <5> QED
          BY <1>1, <5>1, <5>3
      <4>3. counter' % B = r + 1
        BY <2>2, <3>5, <4>2
      <4>4. addr' = addr + AddrInc
        <5>1. PICK p \in 0 .. Frame - 1 : AtWord(p)
          BY <1>6, <2>1, WordOfFrame DEF SInv
        <5>2. regs.FBAdd \in Bases /\ regs.FBAdd \in Nat /\ p \in Nat
          BY <2>1, <5>1, Constants, FrameNat DEF SInv, FInv, Configured
        <5>3. addr' = regs.FBAdd + (p + 1) * AddrInc
          BY <3>2, <5>1, <5>2, StepsOn DEF SInv, FInv, IInv
        <5>4. (p + 1) * AddrInc = p * AddrInc + AddrInc /\ p * AddrInc \in Nat
          BY <1>1, <5>2, NextWord
        <5> QED
          BY <1>1, <5>1, <5>2, <5>3, <5>4 DEF AtWord
      <4>5. Len(pend') = B - (counter' % B)
        BY <1>1, <2>2, <3>3, <4>3
      <4>6. ASSUME NEW i \in 1 .. Len(pend')
            PROVE  pend'[i] = addr' + (i - 1) * AddrInc
        <5>1. i \in Nat /\ i >= 1 /\ i + 1 \in 1 .. Len(pend)
          BY <1>1, <2>1, <2>2, <3>3
        <5>2. pend'[i] = addr + i * AddrInc
          <6>1. pend'[i] = pend[i + 1] /\ i + 1 - 1 = i
            BY <3>3, <5>1
          <6> QED
            BY <2>1, <5>1, <6>1
        <5>3. i - 1 \in Nat /\ (i - 1) + 1 = i
          BY <5>1
        <5>4. ((i - 1) + 1) * AddrInc = (i - 1) * AddrInc + AddrInc
          BY <1>1, <5>3, NextWord
        <5>5. (i - 1) * AddrInc \in Nat
          BY <1>1, <5>3
        <5> QED
          BY <1>1, <4>4, <5>2, <5>3, <5>4, <5>5
      <4> QED
        BY <4>1, <4>5, <4>6 DEF Pending
    <3> QED
      BY <3>4, <3>5
  <2> QED
    BY <2>4, <2>5
<1> QED
  BY <1>4, <1>5, <1>6

LEMMA StreamInvariant == ASSUME Settings PROVE Spec => []SInv
<1>1. Init => Pending
  BY DEF Init, MasterInit, Pending
<1>2. FInv /\ Pending /\ [Next]_vars => Pending'
  <2> SUFFICES ASSUME FInv, Pending, [Next]_vars PROVE Pending'
    OBVIOUS
  <2>1. ASSUME NEW waitreq \in BOOLEAN, NEW valid \in BOOLEAN, Clk50(waitreq, valid)
        PROVE  Pending'
    BY <2>1, PendingClk50 DEF SInv
  <2>2. CASE VgaClk \/ UNCHANGED vars
    <3>1. UNCHANGED <<state, addr, counter, pend, late>>
      BY <2>2 DEF VgaClk, vars, masterVars
    <3> QED
      BY <3>1 DEF Pending, Receiving
  <2> QED
    BY <2>1, <2>2 DEF Next
<1> QED
  BY <1>1, <1>2, FetchInvariant, PTL DEF Spec, SInv

-----------------------------------------------------------------------------
(***************************************************************************)
(* The steps of the frame stream.                                          *)
(***************************************************************************)
Queue  == [i \in 1 .. Len(fifo) |-> Position(fifo[i])]
Cursor == IF state = "INIT" THEN 0 ELSE Position(addr) % Frame

\* The position of a word is its number in the frame.
LEMMA PositionOfWord ==
  ASSUME Settings, NEW f \in Nat, NEW p \in Nat
  PROVE  (f + p * AddrInc - f) \div AddrInc = p
<1> DEFINE n == AddrInc
           m == p * n
<1>1. n \in Nat \ {0} /\ m \in Nat
  BY MasterAssumption
<1>2. f + m - f = m
  <2> HIDE DEF m
  <2> QED
    BY <1>1
<1>3. m \div n = p
  BY <1>1
<1> QED
  BY <1>2, <1>3

\* An edge that begins, ends or keeps up ST_INIT is a restart of the stream.
LEMMA RestartStep ==
  ASSUME Settings, SInv, SInv', NEW waitreq \in BOOLEAN, NEW valid \in BOOLEAN,
         Clk50(waitreq, valid), state = "INIT" \/ state' = "INIT"
  PROVE  Stream!Restart
<1>1. fifo' = <<>>
  BY DEF Clk50, FifoWriteSide, FifoClear
<1>2. Queue' = <<>>
  BY <1>1 DEF Queue
<1>3. Cursor' = 0
  <2>1. CASE state' = "INIT"
    BY <2>1 DEF Cursor
  <2>2. CASE state' # "INIT"
    <3>1. addr' = regs.FBAdd /\ regs'.FBAdd = regs.FBAdd /\ regs.FBAdd \in Nat
      <4>1. state = "INIT"
        BY <2>2
      <4>2. addr' = regs.FBAdd
        BY <4>1 DEF Clk50, MasterClock, StInit, StInitRead1, StInitRead2, StRun, StRunRead1,
                    StRunRead2
      <4>3. regs.FBAdd \in Bases /\ regs'.FBAdd = regs.FBAdd
        BY <2>2, FrameKept DEF SInv, FInv, IInv
      <4> QED
        BY <4>2, <4>3, Constants
    <3>2. 0 * AddrInc = 0 /\ regs.FBAdd + 0 * AddrInc - regs.FBAdd = 0
      BY <3>1, Constants
    <3>3. 0 \div AddrInc = 0
      BY <3>1, <3>2, PositionOfWord
    <3>4. (addr' - regs'.FBAdd) \div AddrInc = 0
      BY <3>1, <3>2, <3>3
    <3>5. Frame \in Nat \ {0}
      BY FrameNat, BurstFits, Constants DEF Settings
    <3>6. 0 % Frame = 0
      BY <3>5
    <3> QED
      BY <2>2, <3>4, <3>6 DEF Cursor, Position
  <2> QED
    BY <2>1, <2>2
<1>4. late' \in BOOLEAN
  BY DEF SInv, FInv, IInv, TypeOK
<1> QED
  BY <1>2, <1>3, <1>4 DEF Stream!Restart, Queue, Cursor, Frame

\* The numbers the steps below count with.
LEMMA Running ==
  ASSUME Settings, SInv, SInv', NEW waitreq \in BOOLEAN, NEW valid \in BOOLEAN,
         Clk50(waitreq, valid), state # "INIT", state' # "INIT"
  PROVE  /\ regs'.FBAdd = regs.FBAdd /\ regs.FBAdd \in Nat /\ regs.FBLen = Frame
         /\ Frame \in Nat \ {0} /\ AddrInc \in Nat \ {0}
         /\ addr \in Nat /\ addr' \in Nat
         /\ fifo \in Seq(Nat) /\ fifo' \in Seq(Nat)
<1>1. regs'.FBAdd = regs.FBAdd /\ regs.FBAdd \in Nat /\ regs.FBLen = Frame
  BY FrameKept, Constants DEF SInv, FInv, IInv
<1>2. Frame \in Nat \ {0}
  BY FrameNat, BurstFits, Constants DEF Settings
<1>3. AddrInc \in Nat \ {0}
  BY MasterAssumption
<1>4. addr \in Nat /\ addr' \in Nat /\ fifo \in Seq(Nat) /\ fifo' \in Seq(Nat)
  BY DEF SInv, FInv, IInv, TypeOK, MasterTypeOK
<1> QED
  BY <1>1, <1>2, <1>3, <1>4

LEMMA IntPosition ==
  ASSUME NEW f \in Int, NEW a \in Int, NEW inc \in Nat \ {0}, NEW len \in Nat \ {0}
  PROVE  (a - f) \div inc \in Int /\ ((a - f) \div inc) % len \in 0 .. len - 1
<1>1. (a - f) \div inc \in Int
  OBVIOUS
<1> DEFINE q == (a - f) \div inc
<1> HIDE DEF q
<1>2. q \in Int => q % len \in 0 .. len - 1
  OBVIOUS
<1> QED
  BY <1>1, <1>2 DEF q

\* The word that comes back is the one at the cursor, which moves on.
LEMMA FetchedWord ==
  ASSUME Settings, SInv, SInv', NEW waitreq \in BOOLEAN, NEW valid \in BOOLEAN,
         Clk50(waitreq, valid), state # "INIT", state' # "INIT", Receiving, valid, ~late
  PROVE  /\ Cursor \in 0 .. Frame - 1 /\ Cursor' = Stream!Succ(Cursor)
         /\ Head(pend) = addr /\ Position(addr) = Cursor
         /\ Head(pend) = regs.FBAdd + Cursor * AddrInc
<1>1. /\ regs'.FBAdd = regs.FBAdd /\ regs.FBAdd \in Nat
      /\ Frame \in Nat \ {0} /\ AddrInc \in Nat \ {0}
      /\ addr \in Nat /\ addr' \in Nat
  BY Running
<1>2. pend # <<>> /\ pend \in Seq(Nat)
  BY DEF Clk50, BusAnswers, SInv, FInv, IInv, TypeOK
<1>3. PICK p \in 0 .. Frame - 1 : AtWord(p)
  BY WordOfFrame DEF SInv
<1>4. p \in Nat /\ p + 1 \in Nat
  BY <1>1, <1>3
<1>5. Position(addr) = p
  BY <1>1, <1>3, <1>4, PositionOfWord DEF Position, AtWord
<1>6. Cursor = p
  <2>1. p % Frame = p
    BY <1>1, <1>3, ModSmall
  <2> QED
    BY <1>5, <2>1 DEF Cursor
<1>7. Head(pend) = addr
  <2>1. \A i \in 1 .. Len(pend) : pend[i] = addr + (i - 1) * AddrInc
    BY DEF SInv, Pending
  <2>2. Head(pend) = pend[1] /\ 1 \in 1 .. Len(pend)
    BY <1>2
  <2>3. Head(pend) = addr + (1 - 1) * AddrInc
    BY <2>1, <2>2
  <2>4. (1 - 1) * AddrInc = 0
    BY <1>1
  <2> QED
    BY <1>1, <2>3, <2>4
<1>8. Cursor' = (p + 1) % Frame
  <2>1. CountWord(TRUE)
    BY DEF Clk50, MasterClock, StInit, StInitRead1, StInitRead2, StRun, StRunRead1,
           StRunRead2, Receiving
  <2>2. regs.FBAdd \in Bases
    BY DEF SInv, FInv, Configured
  <2>3. addr' = regs.FBAdd + (p + 1) * AddrInc
    BY <1>3, <2>1, <2>2, StepsOn DEF SInv, FInv, IInv
  <2>4. (addr' - regs'.FBAdd) \div AddrInc = p + 1
    <3>1. (regs.FBAdd + (p + 1) * AddrInc - regs.FBAdd) \div AddrInc = p + 1
      BY <1>1, <1>4, PositionOfWord
    <3>2. addr' - regs'.FBAdd = regs.FBAdd + (p + 1) * AddrInc - regs.FBAdd
      BY <1>1, <2>3
    <3> QED
      BY <3>1, <3>2
  <2> QED
    BY <2>4 DEF Cursor, Position
<1>9. (p + 1) % Frame = Stream!Succ(p)
  <2>1. CASE p + 1 = Frame
    <3>1. Frame % Frame = 0
      BY <1>1
    <3> QED
      BY <2>1, <3>1 DEF Stream!Succ, Frame
  <2>2. CASE p + 1 # Frame
    <3>1. p + 1 \in 0 .. Frame - 1
      BY <1>1, <1>3, <2>2
    <3>2. (p + 1) % Frame = p + 1
      BY <1>1, <3>1, ModSmall
    <3> QED
      BY <2>2, <3>2 DEF Stream!Succ, Frame
  <2> QED
    BY <2>1, <2>2
<1> QED
  BY <1>1, <1>3, <1>5, <1>6, <1>7, <1>8, <1>9 DEF AtWord

\* A word that comes back is fetched into the stream: it is the one at the
\* cursor, unless words of an older picture are about.
LEMMA FetchStep ==
  ASSUME Settings, SInv, SInv', NEW waitreq \in BOOLEAN, NEW valid \in BOOLEAN,
         Clk50(waitreq, valid), state # "INIT", state' # "INIT", Receiving, valid
  PROVE  Stream!Fetch
<1>1. /\ regs'.FBAdd = regs.FBAdd /\ regs.FBAdd \in Nat /\ regs.FBLen = Frame
      /\ Frame \in Nat \ {0} /\ AddrInc \in Nat \ {0}
      /\ addr \in Nat /\ addr' \in Nat
      /\ fifo \in Seq(Nat) /\ fifo' \in Seq(Nat)
  BY Running
<1>2. ~WrFull /\ Len(fifo) < FifoDepth
  <2>1. ~WrFull
    BY RoomForWord DEF SInv, FInv, NoOverflow
  <2> QED
    BY <2>1, FifoAssumption, <1>1 DEF WrFull, SInv, FInv, IInv, TypeOK, CountsSafe
<1>3. fifo' = Append(fifo, Head(pend)) /\ late' = late
  <2>1. FifoWriteSide(TRUE) /\ late \in BOOLEAN
    BY DEF Clk50, SInv, FInv, IInv, TypeOK
  <2>2. fifo' = Append(fifo, Head(pend))
    BY <1>2, <2>1 DEF FifoWriteSide, FifoWrite
  <2>3. late' = (late \/ LastWordLate(valid)) /\ ~LastWordLate(valid)
    BY DEF Clk50, LastWordLate
  <2> QED
    BY <2>1, <2>2, <2>3
<1>4. pend # <<>> /\ pend \in Seq(Nat) /\ Head(pend) \in Nat
  <2>1. pend # <<>> /\ pend \in Seq(Nat)
    BY DEF Clk50, BusAnswers, SInv, FInv, IInv, TypeOK
  <2> QED
    BY <2>1
<1> DEFINE n == Len(fifo)
<1>5. /\ n \in Nat /\ Len(fifo') = n + 1
      /\ \A i \in 1 .. n : fifo'[i] = fifo[i]
      /\ fifo'[n + 1] = Head(pend)
  BY <1>1, <1>3, <1>4
<1>6. Len(Queue) = n /\ Len(Queue') = n + 1
  BY <1>1, <1>5 DEF Queue
<1>7. \A i \in 1 .. n : Queue'[i] = Queue[i]
  BY <1>1, <1>5 DEF Queue, Position
<1>8. Queue' \in Seq(Int)
  <2>1. ASSUME NEW i \in 1 .. Len(fifo') PROVE Queue'[i] \in Int
    <3>1. fifo'[i] \in Nat
      BY <1>1
    <3> QED
      BY <1>1, <2>1, <3>1, IntPosition DEF Queue, Position
  <2>2. Queue' = [i \in 1 .. Len(fifo') |-> Queue'[i]]
    BY DEF Queue
  <2> QED
    BY <1>1, <1>5, <2>1, <2>2
<1>9. Cursor' \in 0 .. Frame - 1
  BY <1>1, IntPosition DEF Cursor, Position
<1>10. ASSUME ~late PROVE Queue'[n + 1] = Cursor /\ Cursor' = Stream!Succ(Cursor)
  <2>1. /\ Cursor' = Stream!Succ(Cursor)
        /\ Head(pend) = addr /\ Position(addr) = Cursor
    BY <1>10, FetchedWord
  <2>2. Queue'[n + 1] = (fifo'[n + 1] - regs'.FBAdd) \div AddrInc
    BY <1>5 DEF Queue, Position
  <2>3. fifo'[n + 1] - regs'.FBAdd = addr - regs.FBAdd
    BY <1>1, <1>5, <2>1
  <2>4. Queue'[n + 1] = Cursor
    BY <2>1, <2>2, <2>3 DEF Position
  <2> QED
    BY <2>1, <2>4
<1> HIDE DEF n
<1> QED
  BY <1>2, <1>3, <1>6, <1>7, <1>8, <1>9, <1>10
     DEF Stream!Fetch, Queue, Cursor, Frame, n

\* An edge at which no word comes back moves nothing: the wrap of the address
\* at the end of the frame is the step from its length to 0.
LEMMA NothingMoves ==
  ASSUME Settings, SInv, SInv', NEW waitreq \in BOOLEAN, NEW valid \in BOOLEAN,
         Clk50(waitreq, valid), state # "INIT", state' # "INIT", ~(Receiving /\ valid)
  PROVE  fifo' = fifo /\ Queue' = Queue /\ Cursor' = Cursor
<1>1. /\ regs'.FBAdd = regs.FBAdd /\ regs.FBAdd \in Nat /\ regs.FBLen = Frame
      /\ Frame \in Nat \ {0} /\ AddrInc \in Nat \ {0}
      /\ addr \in Nat /\ addr' \in Nat
      /\ fifo \in Seq(Nat) /\ fifo' \in Seq(Nat)
  BY Running
<1>2. fifo' = fifo
  BY DEF Clk50, FifoWriteSide, FifoWrite
<1>3. Queue' = Queue
  BY <1>1, <1>2 DEF Queue, Position
<1>4. Cursor' = Cursor
  <2>1. CASE addr' = addr
    BY <1>1, <2>1 DEF Cursor, Position
  <2>2. CASE addr = regs.FBAdd + Frame * AddrInc /\ addr' = regs.FBAdd
    <3>1. Position(addr) = Frame
      BY <1>1, <2>2, PositionOfWord DEF Position
    <3>2. (addr' - regs'.FBAdd) \div AddrInc = 0
      <4>1. (regs.FBAdd + 0 * AddrInc - regs.FBAdd) \div AddrInc = 0
        BY <1>1, PositionOfWord
      <4>2. addr' - regs'.FBAdd = regs.FBAdd + 0 * AddrInc - regs.FBAdd
        BY <1>1, <2>2
      <4> QED
        BY <4>1, <4>2
    <3>3. Frame % Frame = 0 /\ 0 % Frame = 0
      BY <1>1
    <3> QED
      BY <3>1, <3>2, <3>3 DEF Cursor, Position
  <2>3. addr' = addr \/ (addr = regs.FBAdd + Frame * AddrInc /\ addr' = regs.FBAdd)
    <3>1. Receiving => valid = FALSE
      OBVIOUS
    <3> QED
      BY <1>1, <3>1 DEF Clk50, MasterClock, StInit, StInitRead1, StInitRead2, StRun,
                        StRunRead1, StRunRead2, CountWord, Receiving
  <2> QED
    BY <2>1, <2>2, <2>3
<1> QED
  BY <1>2, <1>3, <1>4

LEMMA IdleStep ==
  ASSUME Settings, SInv, SInv', NEW waitreq \in BOOLEAN, NEW valid \in BOOLEAN,
         Clk50(waitreq, valid), state # "INIT", state' # "INIT", ~(Receiving /\ valid)
  PROVE  Stream!LoseStep \/ UNCHANGED Stream!streamVars
<1>1. Queue' = Queue /\ Cursor' = Cursor
  BY NothingMoves
<1>2. late' = TRUE \/ late' = late
  <2>1. late' = (late \/ LastWordLate(valid)) /\ late \in BOOLEAN
    BY DEF Clk50, SInv, FInv, IInv, TypeOK
  <2> QED
    BY <2>1
<1> QED
  BY <1>1, <1>2 DEF Stream!LoseStep, Stream!streamVars, Queue, Cursor, Frame

LEMMA SequenceIsFunction ==
  ASSUME NEW t \in Seq(Int), NEW q, NEW n, Len(t) = n, \A i \in 1 .. n : t[i] = q[i + 1]
  PROVE  t = [i \in 1 .. n |-> q[i + 1]]
OBVIOUS

\* The raster shows the oldest word or waits; the rest stays.
LEMMA ShowStep ==
  ASSUME SInv, VgaClk
  PROVE  Stream!Show \/ UNCHANGED Stream!streamVars
<1>1. UNCHANGED <<regs, state, addr, late>>
  BY DEF VgaClk, masterVars
<1>2. Cursor' = Cursor
  BY <1>1 DEF Cursor, Position
<1>3. fifo' = fifo \/ (fifo' = Tail(fifo) /\ ~RdEmpty)
  BY DEF VgaClk, FifoRead
<1>4. CASE fifo' = fifo
  <2>1. Queue' = Queue
    BY <1>1, <1>4 DEF Queue, Position
  <2> QED
    BY <1>1, <1>2, <2>1 DEF Stream!streamVars, Queue, Cursor, Frame
<1>5. CASE fifo' = Tail(fifo) /\ ~RdEmpty
  <2> DEFINE n == Len(fifo)
  <2>1. fifo \in Seq(Nat) /\ n \in Nat /\ n > 0
    BY <1>5 DEF SInv, FInv, IInv, TypeOK, CountsSafe, RdEmpty
  <2>2. Len(fifo') = n - 1 /\ \A i \in 1 .. n - 1 : fifo'[i] = fifo[i + 1]
    BY <1>5, <2>1
  <2> DEFINE at(i) == (fifo[i] - regs.FBAdd) \div AddrInc
  <2>3. Queue = [i \in 1 .. n |-> at(i)]
    BY DEF Queue, Position
  <2>4. Queue' = [i \in 1 .. n - 1 |-> at(i + 1)]
    BY <1>1, <2>2 DEF Queue, Position
  <2> HIDE DEF n, at
  <2>5. Queue # <<>> /\ Queue' = Tail(Queue)
    <3>1. Queue # <<>> /\ Len(Queue) = n
      BY <2>1, <2>3
    <3>2. Tail(Queue) = [i \in 1 .. n - 1 |-> Queue[i + 1]]
      <4>1. \A i \in 1 .. n : at(i) \in Int
        <5>1. /\ regs.FBAdd \in Int /\ AddrInc \in Nat \ {0} /\ Frame \in Nat
              /\ \A i \in 1 .. n : fifo[i] \in Int
          BY <2>1, MasterAssumption, FrameNat
             DEF n, SInv, FInv, IInv, TypeOK, SlaveTypeOK, Registers, ConfigRegs
        <5> QED
          BY <5>1 DEF at
      <4>2. Queue \in Seq(Int)
        BY <2>1, <2>3, <4>1
      <4>3. /\ Tail(Queue) \in Seq(Int) /\ Len(Tail(Queue)) = n - 1
            /\ \A i \in 1 .. n - 1 : Tail(Queue)[i] = Queue[i + 1]
        <5> HIDE DEF Queue
        <5> QED
          BY <2>1, <3>1, <4>2
      <4> QED
        BY <4>3, SequenceIsFunction
    <3>3. \A i \in 1 .. n - 1 : Queue[i + 1] = at(i + 1)
      BY <2>1, <2>3
    <3> QED
      BY <2>4, <3>1, <3>2, <3>3
  <2> QED
    BY <1>1, <1>2, <2>5 DEF Stream!Show, Queue, Cursor, Frame
<1> QED
  BY <1>3, <1>4, <1>5

\* The controller implements the frame stream: through the burst master, the
\* FIFO and the two clocks, the words of the frame buffer pass once each, in
\* order, round and round, whatever the memory's gaps, the clock ratio and the
\* restarts of init_vga, until words of an older picture come back.
THEOREM StreamImplemented == ASSUME Settings PROVE Spec => ImplementsStream
<1>1. Init => Stream!StreamInit
  <2> SUFFICES ASSUME Init PROVE Stream!StreamInit
    OBVIOUS
  <2>1. fifo = <<>> /\ state = "INIT" /\ late = FALSE
    BY DEF Init, FifoInit, MasterInit
  <2>2. Queue = <<>> /\ Cursor = 0
    BY <2>1 DEF Queue, Cursor
  <2> QED
    BY <2>1, <2>2 DEF Stream!StreamInit, Queue, Cursor, Frame
<1>2. SInv /\ SInv' /\ [Next]_vars => [Stream!StreamNext]_(Stream!streamVars)
  <2> SUFFICES ASSUME SInv, SInv', [Next]_vars
               PROVE  Stream!StreamNext \/ UNCHANGED Stream!streamVars
    OBVIOUS
  <2>1. ASSUME NEW waitreq \in BOOLEAN, NEW valid \in BOOLEAN, Clk50(waitreq, valid)
        PROVE  Stream!StreamNext \/ UNCHANGED Stream!streamVars
    <3>1. CASE state = "INIT" \/ state' = "INIT"
      BY <2>1, <3>1, RestartStep DEF Stream!StreamNext
    <3>2. CASE state # "INIT" /\ state' # "INIT" /\ Receiving /\ valid
      BY <2>1, <3>2, FetchStep DEF Stream!StreamNext
    <3>3. CASE state # "INIT" /\ state' # "INIT" /\ ~(Receiving /\ valid)
      BY <2>1, <3>3, IdleStep DEF Stream!StreamNext
    <3> QED
      BY <3>1, <3>2, <3>3
  <2>2. CASE VgaClk
    BY <2>2, ShowStep DEF Stream!StreamNext
  <2>3. CASE UNCHANGED vars
    BY <2>3 DEF vars, Stream!streamVars, Position
  <2> QED
    BY <2>1, <2>2, <2>3 DEF Next
<1>3. Spec => []SInv
  BY StreamInvariant
<1> QED
  BY <1>1, <1>2, <1>3, PTL DEF Spec, ImplementsStream, Stream!StreamSpec

\* The steps of the stream, in the controller's terms.
LEMMA StreamSteps ==
  /\ Stream!streamVars = <<Queue, Cursor, late>>
  /\ Stream!StreamInit => Queue = <<>> /\ Cursor = 0
  /\ Stream!Fetch =>
       /\ Queue' \in Seq(Int) /\ Len(Queue') = Len(Queue) + 1
       /\ \A i \in 1 .. Len(Queue) : Queue'[i] = Queue[i]
       /\ late \/ (Queue'[Len(Queue')] = Cursor /\ Cursor' = Stream!Succ(Cursor))
       /\ Cursor' \in 0 .. Frame - 1 /\ late' = late
  /\ Stream!Show => Queue # <<>> /\ Queue' = Tail(Queue) /\ Cursor' = Cursor /\ late' = late
  /\ Stream!LoseStep => late' /\ Queue' = Queue /\ Cursor' = Cursor
  /\ Stream!Restart => Queue' = <<>> /\ Cursor' = 0
<1>1. Stream!streamVars = <<Queue, Cursor, late>>
  BY DEF Stream!streamVars, Queue, Cursor, Frame
<1>2. Stream!StreamInit => Queue = <<>> /\ Cursor = 0
  BY DEF Stream!StreamInit, Queue, Cursor, Frame
<1>3. Stream!Fetch =>
       /\ Queue' \in Seq(Int) /\ Len(Queue') = Len(Queue) + 1
       /\ \A i \in 1 .. Len(Queue) : Queue'[i] = Queue[i]
       /\ late \/ (Queue'[Len(Queue')] = Cursor /\ Cursor' = Stream!Succ(Cursor))
       /\ Cursor' \in 0 .. Frame - 1 /\ late' = late
  BY Zenon DEF Stream!Fetch, Queue, Cursor, Frame
<1>4. Stream!Show => Queue # <<>> /\ Queue' = Tail(Queue) /\ Cursor' = Cursor /\ late' = late
  BY Zenon DEF Stream!Show, Queue, Cursor, Frame
<1>5. Stream!LoseStep => late' /\ Queue' = Queue /\ Cursor' = Cursor
  BY Zenon DEF Stream!LoseStep, Queue, Cursor, Frame
<1>6. Stream!Restart => Queue' = <<>> /\ Cursor' = 0
  BY Zenon DEF Stream!Restart, Queue, Cursor, Frame
<1> QED
  BY <1>1, <1>2, <1>3, <1>4, <1>5, <1>6, Zenon

\* The types of the stream, and the order of the words in its queue.
Ordered ==
  ~late => /\ \A i \in 1 .. Len(Queue) - 1 : Queue[i + 1] = Stream!Succ(Queue[i])
           /\ Queue # <<>> => Stream!Succ(Queue[Len(Queue)]) = Cursor

OInv == Queue \in Seq(Int) /\ Ordered

LEMMA OrderStep ==
  ASSUME OInv, [Stream!StreamNext]_(Stream!streamVars)
  PROVE  OInv'
<1> DEFINE q == Queue
           r == Queue'
<1>0. q \in Seq(Int) /\ Len(q) \in Nat /\ \A p, f : f = Frame => Stream!Succ(p)' = Stream!Succ(p)
  BY DEF OInv, Stream!Succ
<1>1. CASE Stream!Fetch
  <2>1. /\ r \in Seq(Int) /\ Len(r) = Len(q) + 1
        /\ \A i \in 1 .. Len(q) : r[i] = q[i]
        /\ late \/ (r[Len(r)] = Cursor /\ Cursor' = Stream!Succ(Cursor))
        /\ late' = late
    BY <1>1, StreamSteps, Zenon
  <2>2. SUFFICES ASSUME ~late PROVE Ordered'
    BY <2>1 DEF OInv, Ordered
  <2>3. ASSUME NEW i \in 1 .. Len(r) - 1 PROVE r[i + 1] = Stream!Succ(r[i])
    <3>1. CASE i < Len(q)
      <4>1. i \in 1 .. Len(q) - 1 /\ i \in 1 .. Len(q) /\ i + 1 \in 1 .. Len(q)
        BY <1>0, <3>1
      <4>2. q[i + 1] = Stream!Succ(q[i])
        BY <2>2, <4>1 DEF OInv, Ordered
      <4>3. r[i + 1] = q[i + 1] /\ r[i] = q[i]
        BY <2>1, <4>1
      <4> QED
        BY <4>2, <4>3
    <3>2. CASE ~(i < Len(q))
      <4>1. i = Len(q) /\ i \in 1 .. Len(q) /\ q # <<>> /\ Len(r) = i + 1
        BY <1>0, <2>1, <3>2
      <4>2. Stream!Succ(q[i]) = Cursor
        BY <2>2, <4>1 DEF OInv, Ordered
      <4>3. r[i] = q[i] /\ r[i + 1] = Cursor
        BY <2>1, <2>2, <4>1
      <4> QED
        BY <4>2, <4>3
    <3> QED
      BY <3>1, <3>2
  <2>4. Stream!Succ(r[Len(r)]) = Cursor'
    BY <2>1, <2>2
  <2> HIDE DEF q
  <2> QED
    BY <2>1, <2>3, <2>4 DEF Ordered, Stream!Succ
<1>2. CASE Stream!Show
  <2>1. q # <<>> /\ r = Tail(q) /\ Cursor' = Cursor /\ late' = late
    BY <1>2, StreamSteps, Zenon
  <2>2. /\ r \in Seq(Int) /\ Len(r) = Len(q) - 1
        /\ \A i \in 1 .. Len(r) : r[i] = q[i + 1]
    BY <1>0, <2>1
  <2>3. SUFFICES ASSUME ~late PROVE Ordered'
    BY <2>1, <2>2 DEF OInv, Ordered
  <2>4. ASSUME NEW i \in 1 .. Len(r) - 1 PROVE r[i + 1] = Stream!Succ(r[i])
    <3>1. /\ i \in 1 .. Len(r) /\ i + 1 \in 1 .. Len(r) /\ i + 1 \in 1 .. Len(q) - 1
      BY <1>0, <2>2
    <3>2. q[(i + 1) + 1] = Stream!Succ(q[i + 1])
      BY <2>3, <3>1 DEF OInv, Ordered
    <3> QED
      BY <2>2, <3>1, <3>2
  <2>5. ASSUME r # <<>> PROVE Stream!Succ(r[Len(r)]) = Cursor'
    <3>1. Len(r) \in 1 .. Len(r) /\ Len(r) + 1 = Len(q)
      BY <1>0, <2>2, <2>5
    <3>2. Stream!Succ(q[Len(q)]) = Cursor
      BY <2>1, <2>3 DEF OInv, Ordered
    <3> QED
      BY <2>1, <2>2, <3>1, <3>2
  <2> HIDE DEF q
  <2> QED
    BY <2>1, <2>2, <2>4, <2>5 DEF Ordered, Stream!Succ
<1>3. CASE Stream!LoseStep
  <2>1. late' /\ Queue' = Queue
    BY <1>3, StreamSteps, Zenon
  <2> QED
    BY <2>1 DEF OInv, Ordered
<1>4. CASE Stream!Restart
  <2>1. Queue' = <<>>
    BY <1>4, StreamSteps, Zenon
  <2> QED
    BY <2>1 DEF OInv, Ordered
<1>5. CASE UNCHANGED Stream!streamVars
  <2>1. Queue' = Queue /\ Cursor' = Cursor /\ late' = late
    BY <1>5 DEF Stream!streamVars, Queue, Cursor, Frame
  <2> QED
    BY <2>1 DEF OInv, Ordered, Stream!Succ
<1> QED
  BY <1>1, <1>2, <1>3, <1>4, <1>5 DEF Stream!StreamNext

\* The words in the FIFO of a clean picture are successive positions of the
\* frame and end just before the position that is fetched next: through the
\* stream it implements, the controller never skips, repeats or swaps a word.
THEOREM StreamInOrder == ASSUME Settings PROVE Spec => []Stream!InOrder
<1>1. Stream!StreamInit => OInv
  <2>1. Stream!StreamInit => Queue = <<>>
    BY StreamSteps
  <2> QED
    BY <2>1 DEF OInv, Ordered
<1>2. OInv /\ [Stream!StreamNext]_(Stream!streamVars) => OInv'
  BY OrderStep
<1>3. OInv => Stream!InOrder
  BY Zenon DEF OInv, Ordered, Stream!InOrder, Queue, Cursor, Frame
<1>4. Spec => Stream!StreamSpec
  BY StreamImplemented DEF ImplementsStream
<1> QED
  BY <1>1, <1>2, <1>3, <1>4, PTL DEF Stream!StreamSpec

-----------------------------------------------------------------------------
(***************************************************************************)
(* The screen of the last theorems: the pixel clock is slower than the bus *)
(* clock, but not so slow that the FIFO is filled between two of its       *)
(* edges; the visible part has the words of the frame; the periods fit the *)
(* raster's counters.                                                      *)
(***************************************************************************)
H == Config["Hdata"]
V == Config["Vdata"]
HP == Config["HS"] + Config["HBP"] + H + Config["HFP"]
VP == Config["VS"] + Config["VBP"] + V + Config["VFP"]

Screen ==
  /\ MinRatio >= 1 /\ MaxRatio <= 2 * B
  /\ \A r \in TimingRegs : Config[r] < Space16
  /\ H * V = Frame
  /\ HP < CountSpace /\ VP < CountSpace

Filling == state \in {"INITREAD1", "INITREAD2"}

\* The timing registers hold what init_vga wrote while the master runs.
TimingSet ==
  /\ \A i \in 4 .. 11 : pc > i => regs[Program[i]] = Config[Program[i]]
  /\ state # "INIT" => \A r \in TimingRegs : regs[r] = Config[r]

(***************************************************************************)
(* How the raster learns of a restart: from an empty FIFO, at the next     *)
(* edge of the pixel clock, which comes before the FIFO is filled again;   *)
(* and the master of an underflow, before the raster does.                 *)
(***************************************************************************)
Slow ==
  sync = "CNT" =>
    /\ state \in {"RUN", "RUNREAD1", "RUNREAD2"} /\ rdUsed = 0 => ticks = 0
    /\ Filling => rdUsed = 0 /\ counter < ticks

\* The number in the frame of the oldest word in the FIFO: that of the pixel
\* that is shown next, or 0 before the first.
Pixel  == IF NextPixel = Frame THEN 0 ELSE NextPixel
Oldest == IF sync = "CNT" /\ ~Filling THEN Pixel ELSE 0

\* The word of the frame that lies k words behind word p, up to a frame.
Behind(p, k) == IF p + k < Frame THEN p + k ELSE p + k - Frame

InPlace ==
  ~late /\ state # "INIT" =>
    /\ \A i \in 1 .. Len(fifo) :
         fifo[i] = regs.FBAdd + Behind(Oldest, i - 1) * AddrInc
    /\ Cursor = Behind(Oldest, Len(fifo))

RInv == SInv /\ TimingSet /\ Slow /\ InPlace

\* The settings as numbers.
LEMMA ScreenFacts ==
  ASSUME Settings, Screen
  PROVE  /\ \A r \in TimingRegs : Config[r] \in Nat
         /\ H \in Nat /\ V \in Nat /\ H >= 1 /\ V >= 1 /\ Frame \in Nat \ {0}
         /\ CountSpace \in Nat \ {0}
         /\ HP \in Nat /\ VP \in Nat /\ H <= HP /\ V <= VP
         /\ HP \in 1 .. CountSpace - 1 /\ VP \in 1 .. CountSpace - 1
<1>1. \A r \in TimingRegs : r \in ConfigRegs \ {"FBAdd"}
  BY DEF TimingRegs, ConfigRegs
<1>2. \A r \in TimingRegs : Config[r] \in Nat
  BY <1>1, ControllerAssumption
<1>3. /\ Config["Hdata"] \in Nat /\ Config["HS"] \in Nat /\ Config["HBP"] \in Nat
      /\ Config["HFP"] \in Nat /\ Config["Vdata"] \in Nat /\ Config["VS"] \in Nat
      /\ Config["VBP"] \in Nat /\ Config["VFP"] \in Nat
  BY <1>2 DEF TimingRegs
<1>4. Frame \in Nat \ {0}
  BY FrameNat, BurstFits, Constants DEF Settings
<1>5. H # 0 /\ V # 0
  <2>1. 0 * V = 0 /\ H * 0 = 0
    BY <1>3 DEF H, V
  <2> QED
    BY <1>4, <2>1 DEF Screen
<1>6. CountSpace \in Nat \ {0}
  BY SyncAssumption
<1> QED
  BY <1>2, <1>3, <1>4, <1>5, <1>6 DEF Screen, H, V, HP, VP

\* What init_vga does to the timing registers.
LEMMA DriverKeepsTiming ==
  ASSUME Settings, Screen, TypeOK, Configured, TimingSet, InitVgaWrite \/ NoWrite
  PROVE  /\ \A i \in 4 .. 11 : pc' > i => regs'[Program[i]] = Config[Program[i]]
         /\ regs.DisplayCom # 0 => \A r \in TimingRegs : regs'[r] = regs[r]
<1>0. /\ Len(Program) = 12 /\ pc \in 1 .. 13
      /\ regs \in [Registers -> Nat]
      /\ TimingRegs \subseteq Registers /\ "DisplayCom" \notin TimingRegs
      /\ {"DisplayCom", "FBAdd", "FBLen"} \subseteq Registers
      /\ \A i \in 4 .. 11 : Program[i] \in TimingRegs
      /\ \A r \in TimingRegs : Space(r) = Space16
  <2>1. Len(Program) = 12
    BY DEF Program
  <2>2. pc \in 1 .. 13 /\ regs \in [Registers -> Nat]
    BY <2>1 DEF TypeOK, SlaveTypeOK
  <2>3. /\ TimingRegs \subseteq Registers /\ "DisplayCom" \notin TimingRegs
        /\ {"DisplayCom", "FBAdd", "FBLen"} \subseteq Registers
    BY DEF Registers, ConfigRegs, TimingRegs
  <2>4. \A i \in 4 .. 11 : Program[i] \in TimingRegs
    BY DEF Program, TimingRegs
  <2>5. \A r \in TimingRegs : Space(r) = Space16
    BY DEF Space, TimingRegs
  <2> QED
    BY <2>1, <2>2, <2>3, <2>4, <2>5
<1>1. CASE NoWrite
  BY <1>0, <1>1 DEF NoWrite, TimingSet
<1>2. CASE Restarts /\ pc > 1 /\ SlaveWrite("DisplayCom", COMM_STOP) /\ pc' = 2
  <2>1. \A r \in TimingRegs : regs'[r] = regs[r]
    BY <1>0, <1>2 DEF SlaveWrite
  <2> QED
    BY <1>2, <2>1
<1>3. CASE ~DriverDone /\ (\E d \in ProgramData(pc) : SlaveWrite(Program[pc], d)) /\ pc' = pc + 1
  <2>1. PICK d \in ProgramData(pc) : SlaveWrite(Program[pc], d)
    BY <1>3
  <2>2. pc \in 1 .. 12 /\ regs.DisplayCom = 0
    BY <1>0, <1>3 DEF DriverDone, Configured
  <2>3. CASE pc \in 1 .. 3
    <3>1. \A i \in 4 .. 11 : ~(pc' > i)
      BY <1>3, <2>3
    <3> QED
      BY <2>2, <3>1
  <2>4. CASE pc \in 4 .. 11
    <3>1. Program[pc] \in TimingRegs /\ d = Config[Program[pc]]
      BY <1>0, <2>1, <2>4 DEF Program, ProgramData
    <3>2. d % Space16 = d
      <4>1. d \in Nat /\ d < Space16
        BY <3>1, ScreenFacts DEF Screen
      <4> QED
        BY <4>1, SlaveAssumption
    <3>3. regs' = [regs EXCEPT ![Program[pc]] = Config[Program[pc]]]
      BY <1>0, <2>1, <2>2, <3>1, <3>2 DEF SlaveWrite, ConfigRegs
    <3>4. ASSUME NEW i \in 4 .. 11, pc' > i PROVE regs'[Program[i]] = Config[Program[i]]
      <4>1. CASE Program[i] = Program[pc]
        BY <1>0, <3>1, <3>3, <4>1
      <4>2. CASE Program[i] # Program[pc]
        <5>1. i # pc
          BY <4>2
        <5>2. pc > i
          BY <1>0, <1>3, <3>4, <5>1
        <5> QED
          BY <1>0, <3>1, <3>3, <4>2, <5>2 DEF TimingSet
      <4> QED
        BY <4>1, <4>2
    <3> QED
      BY <2>2, <3>4
  <2>5. CASE pc = 12
    <3>1. Program[pc] = "DisplayCom"
      BY <2>5 DEF Program
    <3>2. \A r \in TimingRegs : regs'[r] = regs[r]
      BY <1>0, <2>1, <3>1 DEF SlaveWrite
    <3> QED
      BY <1>0, <2>2, <2>5, <3>2 DEF TimingSet
  <2> QED
    BY <2>2, <2>3, <2>4, <2>5
<1> QED
  BY <1>1, <1>2, <1>3 DEF InitVgaWrite

LEMMA TimingKept ==
  ASSUME Settings, Screen, TypeOK, Configured, TimingSet,
         NEW waitreq \in BOOLEAN, NEW valid \in BOOLEAN, Clk50(waitreq, valid)
  PROVE  /\ TimingSet'
         /\ state' # "INIT" => \A r \in TimingRegs : regs'[r] = regs[r]
<1>1. InitVgaWrite \/ NoWrite
  BY DEF Clk50
<1>2. ASSUME state' # "INIT" PROVE \A r \in TimingRegs : regs'[r] = regs[r] /\ regs[r] = Config[r]
  <2>1. regs.DisplayCom # 0
    <3>1. Started(regs.DisplayCom)
      BY <1>2 DEF Clk50, MasterClock, StInit, StInitRead1, StInitRead2, StRun, StRunRead1, StRunRead2
    <3> QED
      BY <3>1 DEF Started
  <2>2. pc > 12
    BY <1>1, <2>1, DriverKeeps
  <2>3. \A i \in 4 .. 11 : regs[Program[i]] = Config[Program[i]]
    <3>1. \A i \in 4 .. 11 : pc > i
      BY <2>2 DEF TypeOK
    <3> QED
      BY <3>1 DEF TimingSet
  <2>4. \A r \in TimingRegs : \E i \in 4 .. 11 : r = Program[i]
    <3>1. /\ Program[4] = "HBP" /\ Program[5] = "HFP" /\ Program[6] = "VBP" /\ Program[7] = "VFP"
          /\ Program[8] = "Hdata" /\ Program[9] = "Vdata" /\ Program[10] = "HS" /\ Program[11] = "VS"
      BY DEF Program
    <3> QED
      BY <3>1 DEF TimingRegs
  <2> QED
    BY <1>1, <2>1, <2>3, <2>4, DriverKeepsTiming
<1> QED
  BY <1>1, <1>2, DriverKeepsTiming DEF TimingSet

-----------------------------------------------------------------------------
\* Lines of the frame.
LEMMA LineStart ==
  ASSUME Settings, Screen, NEW v \in 0 .. V - 1
  PROVE  /\ v * H \in Nat /\ (v + 1) * H = v * H + H /\ v * H + H <= Frame
         /\ v + 1 = V => v * H + H = Frame
<1>1. H \in Nat /\ V \in Nat /\ v \in Nat /\ v + 1 \in Nat /\ v + 1 <= V
  BY ScreenFacts
<1>2. (v + 1) * H = v * H + H /\ v * H \in Nat
  BY <1>1
<1>3. (v + 1) * H <= V * H /\ V * H = H * V
  BY <1>1, Monotone
<1> QED
  BY <1>1, <1>2, <1>3 DEF Screen

\* The pixel that is shown next, in numbers.
LEMMA PixelRange ==
  ASSUME Settings, Screen, SyncTypeOK, \A r \in TimingRegs : regs[r] = Config[r]
  PROVE  /\ NextPixel = IF vcount >= V THEN 0
                        ELSE vcount * H + (IF hcount < H THEN hcount ELSE H)
         /\ NextPixel \in 0 .. Frame /\ Pixel \in 0 .. Frame - 1
         /\ vcount < V /\ hcount < H => NextPixel < Frame
<1>1. regs.Hdata = H /\ regs.Vdata = V
  BY DEF TimingRegs, H, V
<1>2. NextPixel = IF vcount >= V THEN 0 ELSE vcount * H + (IF hcount < H THEN hcount ELSE H)
  BY <1>1 DEF NextPixel
<1>3. H \in Nat /\ V \in Nat /\ vcount \in Nat /\ hcount \in Nat /\ Frame \in Nat \ {0}
  BY ScreenFacts DEF SyncTypeOK
<1>4. CASE vcount >= V
  BY <1>2, <1>3, <1>4 DEF Pixel
<1>5. CASE vcount < V
  <2> DEFINE w == vcount * H
  <2>1. w \in Nat /\ w + H <= Frame
    BY <1>3, <1>5, LineStart
  <2>2. NextPixel = w + (IF hcount < H THEN hcount ELSE H)
    BY <1>2, <1>3, <1>5
  <2> HIDE DEF w
  <2> QED
    BY <1>2, <1>3, <2>1, <2>2 DEF Pixel
<1> QED
  BY <1>3, <1>4, <1>5

\* An edge of the counting raster goes on to the next pixel when it shows one,
\* and stays before it in the blanks.
LEMMA RasterStep ==
  ASSUME Settings, Screen, SyncTypeOK, SyncTypeOK', \A r \in TimingRegs : regs[r] = Config[r],
         regs' = regs, NEW empty \in BOOLEAN, SyncCount(Timing, empty)
  PROVE  /\ DispEna(Timing) => Pixel' = Stream!Succ(Pixel) /\ NextPixel = Pixel
         /\ ~DispEna(Timing) => Pixel' = Pixel
<1>1. /\ H \in Nat /\ V \in Nat /\ H >= 1 /\ V >= 1 /\ Frame \in Nat \ {0}
      /\ vcount \in Nat /\ hcount \in Nat /\ CountSpace \in Nat \ {0}
      /\ vcount' \in Nat /\ hcount' \in Nat
      /\ HP \in 1 .. CountSpace - 1 /\ VP \in 1 .. CountSpace - 1 /\ H <= HP /\ V <= VP
  BY ScreenFacts DEF SyncTypeOK
<1>2. Timing.Hdata = H /\ Timing.Vdata = V
  BY DEF Timing, TimingRegs, H, V
<1>3. Pred(HPeriod(Timing)) = HP - 1 /\ Pred(VPeriod(Timing)) = VP - 1
  <2>1. /\ Timing.HS + Timing.HBP + Timing.Hdata + Timing.HFP = HP
        /\ Timing.VS + Timing.VBP + Timing.Vdata + Timing.VFP = VP
    BY DEF Timing, TimingRegs, HP, VP, H, V
  <2>2. HP % CountSpace = HP /\ VP % CountSpace = VP
    BY <1>1, ModSmall
  <2>3. ASSUME NEW x \in 1 .. CountSpace - 1 PROVE (x + CountSpace - 1) % CountSpace = x - 1
    <3>1. x - 1 \in 0 .. CountSpace - 1 /\ x + CountSpace - 1 = CountSpace + (x - 1)
      BY <1>1
    <3>2. ASSUME NEW c \in Nat \ {0}, NEW y \in 0 .. c - 1 PROVE (c + y) % c = y
      OBVIOUS
    <3> QED
      BY <1>1, <3>1, <3>2
  <2> QED
    BY <1>1, <2>1, <2>2, <2>3 DEF HPeriod, VPeriod, Pred
<1>4. /\ hcount < HP - 1 => hcount' = hcount + 1 /\ vcount' = vcount
      /\ ~(hcount < HP - 1) => /\ hcount' = 0
                               /\ vcount' = IF vcount < VP - 1 THEN vcount + 1 ELSE 0
  <2>1. hcount < HP - 1 => (hcount + 1) % CountSpace = hcount + 1
    BY <1>1, ModSmall
  <2>2. vcount < VP - 1 => (vcount + 1) % CountSpace = vcount + 1
    BY <1>1, ModSmall
  <2> QED
    BY <1>3, <2>1, <2>2 DEF SyncCount
<1>5. DispEna(Timing) <=> hcount < H /\ vcount < V
  BY <1>2 DEF DispEna, SyncCount
<1>6. /\ NextPixel = IF vcount >= V THEN 0
                     ELSE vcount * H + (IF hcount < H THEN hcount ELSE H)
      /\ NextPixel \in 0 .. Frame
      /\ vcount < V /\ hcount < H => NextPixel < Frame
  BY PixelRange
<1>7. NextPixel' = IF vcount' >= V THEN 0
                   ELSE vcount' * H + (IF hcount' < H THEN hcount' ELSE H)
  <2>1. regs'.Hdata = H /\ regs'.Vdata = V
    BY DEF TimingRegs, H, V
  <2> QED
    BY <2>1 DEF NextPixel
<1> DEFINE Shown  == NextPixel < Frame
                     /\ (NextPixel' = NextPixel + 1 \/ (NextPixel' = 0 /\ NextPixel + 1 = Frame))
           Blank  == NextPixel' = NextPixel \/ (NextPixel' = 0 /\ NextPixel = Frame)
           Target == IF hcount < H /\ vcount < V THEN Shown ELSE Blank
<1>8. ASSUME vcount >= V PROVE Target
  <2>1. ~(vcount < V) /\ NextPixel = 0
    BY <1>1, <1>6, <1>8
  <2>2. NextPixel' = 0
    <3>1. vcount' >= V \/ (vcount' = 0 /\ hcount' = 0)
      BY <1>1, <1>4, <1>8
    <3>2. 0 * H = 0
      BY <1>1
    <3> QED
      <4>1. CASE vcount' >= V
        BY <1>7, <4>1
      <4>2. CASE vcount' = 0 /\ hcount' = 0
        <5>1. ~(vcount' >= V) /\ hcount' < H
          BY <1>1, <4>2
        <5> QED
          BY <1>7, <3>2, <4>2, <5>1
      <4> QED
        BY <3>1, <4>1, <4>2
  <2> QED
    BY <2>1, <2>2
<1>9. ASSUME vcount < V PROVE Target
  <2> DEFINE w == vcount * H
  <2>1. /\ w \in Nat /\ (vcount + 1) * H = w + H /\ w + H <= Frame
        /\ vcount + 1 = V => w + H = Frame
    BY <1>1, <1>9, LineStart
  <2>2. NextPixel = w + (IF hcount < H THEN hcount ELSE H)
    BY <1>1, <1>6, <1>9
  <2>3. CASE hcount < HP - 1
    <3>1. NextPixel' = w + (IF hcount + 1 < H THEN hcount + 1 ELSE H)
      BY <1>1, <1>4, <1>7, <1>9, <2>3
    <3> HIDE DEF w
    <3>2. hcount < H => NextPixel' = NextPixel + 1 /\ NextPixel < Frame
      BY <1>1, <2>1, <2>2, <3>1
    <3>3. ~(hcount < H) => NextPixel' = NextPixel
      BY <1>1, <2>2, <3>1
    <3> QED
      BY <1>9, <3>2, <3>3
  <2>4. CASE ~(hcount < HP - 1)
    <3>1. (NextPixel' = 0 /\ w + H = Frame) \/ NextPixel' = w + H
      <4>1. CASE vcount' = vcount + 1
        <5>1. vcount + 1 = V \/ vcount + 1 < V
          BY <1>1, <1>9
        <5>2. hcount' = 0 /\ (vcount + 1) * H + 0 = w + H
          BY <1>1, <1>4, <2>1, <2>4
        <5> HIDE DEF w
        <5> QED
          BY <1>1, <1>7, <2>1, <4>1, <5>1, <5>2
      <4>2. CASE vcount' = 0 /\ ~(vcount < VP - 1)
        <5>1. vcount + 1 = V /\ hcount' = 0 /\ 0 * H = 0
          BY <1>1, <1>4, <1>9, <2>4, <4>2
        <5> QED
          BY <1>1, <1>7, <2>1, <4>2, <5>1
      <4> QED
        BY <1>4, <2>4, <4>1, <4>2
    <3>2. hcount < H => NextPixel + 1 = w + H
      <4>1. hcount < H => hcount + 1 = H
        BY <1>1, <2>4
      <4> HIDE DEF w
      <4> QED
        BY <1>1, <2>1, <2>2, <4>1
    <3>3. ~(hcount < H) => NextPixel = w + H
      BY <2>2
    <3>4. w + H \in Nat /\ NextPixel \in Nat /\ w + H <= Frame
      BY <1>1, <1>6, <2>1
    <3> HIDE DEF w
    <3> QED
      BY <1>1, <1>9, <3>1, <3>2, <3>3, <3>4
  <2> QED
    BY <2>3, <2>4
<1>10. Target
  BY <1>1, <1>8, <1>9
<1>11. CASE hcount < H /\ vcount < V
  <2>1. Pixel' = Stream!Succ(Pixel) /\ NextPixel = Pixel
    <3>1. Shown
      BY <1>10, <1>11
    <3>2. Stream!Succ(Pixel) = IF Pixel + 1 = Frame THEN 0 ELSE Pixel + 1
      BY DEF Stream!Succ, Frame
    <3>3. NextPixel = Pixel
      BY <1>1, <1>6, <3>1 DEF Pixel
    <3>4. Pixel' = IF NextPixel' = Frame THEN 0 ELSE NextPixel'
      BY DEF Pixel, Frame
    <3> QED
      BY <1>1, <1>6, <3>1, <3>2, <3>3, <3>4
  <2> QED
    BY <1>5, <1>11, <2>1
<1>12. CASE ~(hcount < H /\ vcount < V)
  <2>1. Pixel' = Pixel
    <3>1. Blank
      BY <1>10, <1>12
    <3> QED
      BY <1>1, <1>6, <3>1 DEF Pixel, Frame
  <2> QED
    BY <1>5, <1>12, <2>1
<1> QED
  BY <1>11, <1>12

-----------------------------------------------------------------------------
LEMMA SlowClk50 ==
  ASSUME Settings, Screen, SInv, Slow, NEW waitreq \in BOOLEAN, NEW valid \in BOOLEAN,
         Clk50(waitreq, valid)
  PROVE  Slow'
<1> SUFFICES ASSUME sync' = "CNT"
             PROVE  /\ state' \in {"RUN", "RUNREAD1", "RUNREAD2"} /\ rdUsed' = 0 => ticks' = 0
                    /\ Filling' => rdUsed' = 0 /\ counter' < ticks'
  BY DEF Slow
<1>1. /\ sync = "CNT" /\ ticks' = ticks + 1 /\ ticks < MaxRatio /\ MaxRatio <= 2 * B
      /\ ticks \in Nat /\ MaxRatio \in Nat
  BY ControllerAssumption DEF Clk50, syncVars, Screen, SInv, FInv, IInv, TypeOK
<1>2. B \in Nat /\ B >= 2 /\ B = BurstSize /\ CounterSpace = 2 * B /\ counter \in 0 .. 2 * B - 1
  BY Constants DEF SInv, FInv, IInv, TypeOK, MasterTypeOK
<1>3. state # "INIT" /\ state' # "INIT" => rdUsed' = rdUsed
  BY DEF Clk50, FifoWriteSide, FifoWrite
<1>4. state = "INIT" => rdUsed' = 0
  BY DEF Clk50, FifoWriteSide, FifoClear
<1>5. Filling => rdUsed = 0 /\ counter < ticks
  BY <1>1 DEF Slow
<1>6. ASSUME state' \in {"RUN", "RUNREAD1", "RUNREAD2"} PROVE rdUsed' # 0
  <2>1. state \in {"RUN", "RUNREAD1", "RUNREAD2"} \/ (state = "INITREAD2" /\ counter = 2 * B - 1)
    BY <1>2, <1>6 DEF Clk50, MasterClock, StInit, StInitRead1, StInitRead2, StRun, StRunRead1,
                      StRunRead2
  <2>2. ~(state = "INITREAD2" /\ counter = 2 * B - 1)
    BY <1>1, <1>2, <1>5 DEF Filling
  <2>3. ~RdEmpty
    BY <1>6, <2>1, <2>2 DEF Clk50, MasterClock, StInit, StInitRead1, StInitRead2, StRun,
                            StRunRead1, StRunRead2
  <2> QED
    BY <1>3, <1>6, <2>1, <2>2, <2>3 DEF RdEmpty
<1>7. ASSUME Filling' PROVE rdUsed' = 0 /\ counter' < ticks'
  <2>1. CASE state = "INIT"
    <3>1. counter' = 0
      BY <2>1 DEF Clk50, MasterClock, StInit, StInitRead1, StInitRead2, StRun, StRunRead1,
                  StRunRead2
    <3> QED
      BY <1>1, <1>4, <2>1, <3>1
  <2>2. CASE state # "INIT"
    <3>1. Filling
      BY <1>7, <2>2 DEF Filling, Clk50, MasterClock, StInit, StInitRead1, StInitRead2, StRun,
                        StRunRead1, StRunRead2
    <3>2. counter' = counter \/ counter' = (counter + 1) % (2 * B)
      BY <1>2, <3>1 DEF Filling, Clk50, MasterClock, StInit, StInitRead1, StInitRead2, StRun,
                        StRunRead1, StRunRead2, CountWord
    <3>3. counter' <= counter + 1 /\ counter' \in Nat
      <4>1. counter + 1 \in 0 .. 2 * B - 1 \/ counter + 1 = 2 * B
        BY <1>2
      <4>2. 2 * B \in Nat \ {0} /\ (2 * B) % (2 * B) = 0
        BY <1>2
      <4>3. counter + 1 \in 0 .. 2 * B - 1 => (counter + 1) % (2 * B) = counter + 1
        BY <4>2, ModSmall
      <4> QED
        BY <1>2, <3>2, <4>1, <4>2, <4>3
    <3>4. rdUsed' = rdUsed
      BY <1>3, <1>7, <2>2 DEF Filling
    <3> QED
      BY <1>1, <1>2, <1>5, <3>1, <3>3, <3>4
  <2> QED
    BY <2>1, <2>2
<1> QED
  BY <1>6, <1>7

\* The raster never begins, nor goes on, while the FIFO is filled.
LEMMA NoRasterInFill ==
  ASSUME Settings, Screen, SInv, Slow, VgaClk, Filling
  PROVE  sync' # "CNT" /\ (sync = "CNT" => RdEmpty)
<1>1. sync = "CNT" => RdEmpty
  BY DEF Slow, RdEmpty
<1>2. sync = "CNT" => sync' # "CNT"
  BY <1>1 DEF VgaClk, SyncClock, SyncIdle, SyncCount
<1>3. ~RdFull
  BY Constants, ControllerAssumption
     DEF Filling, SInv, FInv, IInv, Room, RdFull, TypeOK, CountsSafe, MasterTypeOK
<1>4. sync # "CNT" => sync' # "CNT"
  BY <1>3 DEF VgaClk, SyncClock, SyncIdle, SyncCount
<1> QED
  BY <1>1, <1>2, <1>4

LEMMA SlowVgaClk ==
  ASSUME Settings, Screen, SInv, Slow, VgaClk
  PROVE  Slow'
<1>1. ticks' = 0 /\ state' = state
  BY DEF VgaClk, masterVars
<1>2. Filling => sync' # "CNT"
  BY NoRasterInFill
<1> QED
  BY <1>1, <1>2 DEF Slow, Filling

-----------------------------------------------------------------------------
LEMMA FifoFacts ==
  ASSUME Settings, Screen, SInv
  PROVE  /\ fifo \in Seq(Nat) /\ Len(fifo) \in Nat /\ Len(fifo) <= Frame
         /\ Frame \in Nat \ {0}
         /\ ~WrFull => Len(fifo) < Frame
<1>1. fifo \in Seq(Nat) /\ Len(fifo) <= wrUsed /\ wrUsed <= FifoDepth /\ wrUsed \in Nat
  BY DEF SInv, FInv, IInv, TypeOK, CountsSafe
<1>2. FifoDepth = 2 * B /\ B \in Nat
  BY Constants, ControllerAssumption DEF B
<1>3. 2 * B <= Frame
  <2>1. 1 \in 0 .. Bursts - 1
    BY DEF Settings
  <2>2. 1 * B + B <= Frame
    BY <2>1, BurstFits
  <2> QED
    BY <1>2, <2>2
<1>4. Frame \in Nat \ {0}
  BY ScreenFacts
<1>5. ~WrFull => wrUsed < FifoDepth
  BY <1>1, <1>2 DEF WrFull
<1> QED
  BY <1>1, <1>2, <1>3, <1>4, <1>5

LEMMA OldestRange ==
  ASSUME Settings, Screen, SInv, TimingSet, state # "INIT"
  PROVE  Oldest \in 0 .. Frame - 1 /\ Pixel \in 0 .. Frame - 1 /\ Frame \in Nat \ {0}
<1>1. SyncTypeOK /\ \A r \in TimingRegs : regs[r] = Config[r]
  BY DEF SInv, FInv, IInv, TypeOK, TimingSet
<1>2. Pixel \in 0 .. Frame - 1 /\ Frame \in Nat \ {0}
  BY <1>1, PixelRange, ScreenFacts
<1> QED
  BY <1>2 DEF Oldest

LEMMA InPlaceClk50 ==
  ASSUME Settings, Screen, RInv, SInv', Slow', NEW waitreq \in BOOLEAN, NEW valid \in BOOLEAN,
         Clk50(waitreq, valid)
  PROVE  InPlace'
<1> SUFFICES ASSUME state' # "INIT", ~late'
             PROVE  /\ \A i \in 1 .. Len(fifo') :
                         fifo'[i] = regs'.FBAdd + Behind(Oldest', i - 1) * AddrInc
                    /\ Cursor' = Behind(Oldest', Len(fifo'))
  BY DEF InPlace, Behind
<1>1. CASE state = "INIT"
  <2>1. fifo' = <<>>
    BY <1>1 DEF Clk50, FifoWriteSide, FifoClear
  <2>2. Cursor' = 0
    <3>1. Stream!Restart
      BY <1>1, RestartStep DEF RInv
    <3> QED
      BY <3>1 DEF Stream!Restart, Cursor, Frame
  <2>3. Oldest' = 0
    <3>1. Filling'
      BY <1>1 DEF Filling, Clk50, MasterClock, StInit, StInitRead1, StInitRead2, StRun,
                  StRunRead1, StRunRead2
    <3> QED
      BY <3>1 DEF Oldest
  <2>4. Behind(0, 0) = 0
    BY ScreenFacts DEF Behind
  <2> QED
    BY <2>1, <2>2, <2>3, <2>4
<1>2. CASE state # "INIT"
  <2>1. ~late /\ sync' = sync /\ hcount' = hcount /\ vcount' = vcount
    BY <1>2 DEF Clk50, syncVars
  <2>2. Pixel' = Pixel
    <3>1. \A r \in TimingRegs : regs'[r] = regs[r]
      BY TimingKept DEF RInv, SInv, FInv, IInv
    <3> QED
      BY <2>1, <3>1 DEF Pixel, NextPixel, TimingRegs, Frame
  <2>3. sync = "CNT" => (Filling' <=> Filling)
    <3>1. ASSUME sync = "CNT", Filling PROVE Filling'
      <4>1. rdUsed = 0 /\ ticks \in Nat
        BY <3>1 DEF RInv, Slow, SInv, FInv, IInv, TypeOK
      <4>2. rdUsed' = 0 /\ ticks' # 0
        BY <1>2, <4>1 DEF Clk50, FifoWriteSide, FifoWrite
      <4> QED
        BY <2>1, <3>1, <4>2 DEF Slow, Filling, SInv, FInv, IInv, TypeOK, MasterTypeOK, MasterStates
    <3>2. ASSUME ~Filling PROVE ~Filling'
      BY <1>2, <3>2 DEF Filling, Clk50, MasterClock, StInit, StInitRead1, StInitRead2, StRun,
                        StRunRead1, StRunRead2
    <3> QED
      BY <3>1, <3>2
  <2>4. Oldest' = Oldest
    BY <2>1, <2>2, <2>3 DEF Oldest
  <2>5. /\ \A i \in 1 .. Len(fifo) :
             fifo[i] = regs.FBAdd + Behind(Oldest, i - 1) * AddrInc
        /\ Cursor = Behind(Oldest, Len(fifo))
    BY <1>2, <2>1 DEF RInv, InPlace
  <2>6. regs'.FBAdd = regs.FBAdd
    BY <1>2, Running DEF RInv
  <2>7. CASE Receiving /\ valid
    <3>1. /\ Cursor \in 0 .. Frame - 1 /\ Cursor' = Stream!Succ(Cursor)
          /\ Head(pend) = regs.FBAdd + Cursor * AddrInc
      BY <1>2, <2>1, <2>7, FetchedWord DEF RInv
    <3>2. ~WrFull
      BY <2>7, RoomForWord DEF RInv, SInv, FInv, NoOverflow
    <3>3. fifo' = Append(fifo, Head(pend))
      <4>1. FifoWriteSide(TRUE)
        BY <2>7 DEF Clk50
      <4> QED
        BY <1>2, <2>7, <3>2, <4>1 DEF FifoWriteSide, FifoWrite
    <3> DEFINE n == Len(fifo)
    <3>4. /\ n \in Nat /\ n < Frame /\ Frame \in Nat \ {0} /\ Oldest \in 0 .. Frame - 1
          /\ fifo \in Seq(Nat)
      BY <1>2, <3>2, FifoFacts, OldestRange DEF RInv
    <3>5. /\ Len(fifo') = n + 1 /\ \A i \in 1 .. n : fifo'[i] = fifo[i]
          /\ fifo'[n + 1] = Head(pend)
      BY <3>3, <3>4
    <3>6. ASSUME NEW i \in 1 .. n + 1
          PROVE  fifo'[i] = regs'.FBAdd + Behind(Oldest', i - 1) * AddrInc
      <4>1. CASE i \in 1 .. n
        BY <2>4, <2>5, <2>6, <3>5, <4>1
      <4>2. CASE i = n + 1
        <5>1. i - 1 = Len(fifo)
          BY <3>4, <4>2
        <5>2. Behind(Oldest', i - 1) = Cursor
          BY <2>4, <2>5, <5>1
        <5> QED
          BY <2>6, <3>1, <3>5, <4>2, <5>2
      <4> QED
        BY <3>4, <4>1, <4>2
    <3>7. Cursor' = Behind(Oldest', n + 1)
      <4>1. Cursor' = IF Cursor + 1 = Frame THEN 0 ELSE Cursor + 1
        BY <3>1 DEF Stream!Succ, Frame
      <4>2. Cursor = IF Oldest + n < Frame THEN Oldest + n ELSE Oldest + n - Frame
        BY <2>5 DEF Behind
      <4>3. Behind(Oldest', n + 1)
              = IF Oldest + (n + 1) < Frame THEN Oldest + (n + 1) ELSE Oldest + (n + 1) - Frame
        BY <2>4 DEF Behind
      <4> HIDE DEF n
      <4> QED
        BY <3>1, <3>4, <4>1, <4>2, <4>3
    <3> QED
      BY <3>5, <3>6, <3>7
  <2>8. CASE ~(Receiving /\ valid)
    <3>1. fifo' = fifo /\ Cursor' = Cursor
      BY <1>2, <2>8, NothingMoves DEF RInv
    <3> QED
      BY <2>4, <2>5, <2>6, <3>1
  <2> QED
    BY <2>7, <2>8
<1> QED
  BY <1>1, <1>2

LEMMA InPlaceVgaClk ==
  ASSUME Settings, Screen, RInv, SInv', VgaClk
  PROVE  InPlace'
<1> SUFFICES ASSUME state # "INIT", ~late
             PROVE  /\ \A i \in 1 .. Len(fifo') :
                         fifo'[i] = regs'.FBAdd + Behind(Oldest', i - 1) * AddrInc
                    /\ Cursor' = Behind(Oldest', Len(fifo'))
  BY DEF InPlace, Behind, VgaClk, masterVars
<1>1. /\ regs' = regs /\ state' = state /\ addr' = addr /\ Filling' = Filling
      /\ Cursor' = Cursor
  BY DEF VgaClk, masterVars, Filling, Cursor, Position
<1>2. /\ \A i \in 1 .. Len(fifo) :
           fifo[i] = regs.FBAdd + Behind(Oldest, i - 1) * AddrInc
      /\ Cursor = Behind(Oldest, Len(fifo))
  BY DEF RInv, InPlace
<1>3. SyncTypeOK /\ SyncTypeOK' /\ \A r \in TimingRegs : regs[r] = Config[r]
  BY DEF RInv, SInv, FInv, IInv, TypeOK, TimingSet
<1>4. /\ SyncClock(Timing, RdFull, RdEmpty)
      /\ fifo' = IF DispEna(Timing) /\ ~RdEmpty THEN Tail(fifo) ELSE fifo
  BY DEF VgaClk, FifoRead
<1>5. CASE fifo' = fifo /\ Oldest' = Oldest
  BY <1>1, <1>2, <1>5
<1>6. CASE Filling
  <2>1. sync' # "CNT" /\ (sync = "CNT" => RdEmpty)
    BY <1>6, NoRasterInFill DEF RInv
  <2>2. fifo' = fifo
    BY <1>4, <2>1 DEF DispEna
  <2>3. Oldest' = Oldest
    BY <1>1, <1>6 DEF Oldest
  <2> QED
    BY <1>5, <2>2, <2>3
<1>7. CASE ~Filling /\ sync # "CNT"
  <2>1. SyncIdle(Timing, RdFull) /\ fifo' = fifo /\ Oldest = 0
    BY <1>4, <1>7 DEF SyncClock, SyncCount, DispEna, Oldest
  <2>2. Oldest' = 0
    <3>1. CASE sync' # "CNT"
      BY <3>1 DEF Oldest
    <3>2. CASE sync' = "CNT"
      <4>1. /\ V \in Nat /\ Frame \in Nat \ {0} /\ Config["VFP"] \in Nat
            /\ Config["VS"] \in Nat /\ Config["VBP"] \in Nat
            /\ VP \in 1 .. CountSpace - 1 /\ CountSpace \in Nat \ {0}
        BY ScreenFacts DEF TimingRegs
      <4>2. V + Config["VFP"] \in 0 .. CountSpace - 1
        BY <4>1 DEF VP
      <4>3. vcount' = V + Config["VFP"]
        <5>1. vcount' = (Timing.Vdata + Timing.VFP) % CountSpace
          BY <2>1 DEF SyncIdle
        <5>2. Timing.Vdata = V /\ Timing.VFP = Config["VFP"]
          BY <1>3 DEF Timing, TimingRegs, V
        <5> QED
          BY <4>1, <4>2, <5>1, <5>2, ModSmall
      <4>4. NextPixel' = 0
        <5>1. regs'.Vdata = V /\ vcount' >= V
          BY <1>1, <1>3, <4>1, <4>3 DEF TimingRegs, V
        <5> QED
          BY <5>1 DEF NextPixel
      <4> QED
        BY <4>1, <4>4 DEF Oldest, Pixel
    <3> QED
      BY <3>1, <3>2
  <2> QED
    BY <1>5, <2>1, <2>2
<1>8. CASE ~Filling /\ sync = "CNT"
  <2>1. ~RdEmpty
    <3>1. state \in {"RUN", "RUNREAD1", "RUNREAD2"} /\ ticks # 0
      BY <1>8, ControllerAssumption
         DEF Filling, RInv, SInv, FInv, IInv, TypeOK, MasterTypeOK, MasterStates, VgaClk, Screen
    <3> QED
      BY <1>8, <3>1 DEF RInv, Slow, RdEmpty
  <2>2. SyncCount(Timing, RdEmpty) /\ sync' = "CNT"
    BY <1>4, <1>8, <2>1 DEF SyncClock, SyncIdle, SyncCount
  <2>3. /\ DispEna(Timing) => Pixel' = Stream!Succ(Pixel)
        /\ ~DispEna(Timing) => Pixel' = Pixel
    <3>1. RdEmpty \in BOOLEAN
      BY DEF RdEmpty
    <3> QED
      BY <1>1, <1>3, <2>2, <3>1, RasterStep
  <2>4. Oldest = Pixel /\ Oldest' = Pixel'
    BY <1>1, <1>8, <2>2 DEF Oldest
  <2>5. CASE ~DispEna(Timing)
    BY <1>4, <1>5, <2>3, <2>4, <2>5
  <2>6. CASE DispEna(Timing)
    <3> DEFINE n == Len(fifo)
    <3>1. /\ n \in Nat /\ n <= Frame /\ Frame \in Nat \ {0} /\ Oldest \in 0 .. Frame - 1
          /\ fifo \in Seq(Nat) /\ n > 0
      <4>1. n > 0
        BY <2>1 DEF RdEmpty, RInv, SInv, FInv, IInv, TypeOK, CountsSafe
      <4> QED
        BY <4>1, FifoFacts, OldestRange DEF RInv
    <3>2. fifo' = Tail(fifo)
      BY <1>4, <2>1, <2>6
    <3>3. Len(fifo') = n - 1 /\ \A i \in 1 .. n - 1 : fifo'[i] = fifo[i + 1]
      BY <3>1, <3>2
    <3>4. Oldest' = IF Oldest + 1 = Frame THEN 0 ELSE Oldest + 1
      BY <2>3, <2>4, <2>6 DEF Stream!Succ, Frame
    <3> HIDE DEF n
    <3>5. ASSUME NEW k \in 0 .. n - 1 PROVE Behind(Oldest', k) = Behind(Oldest, k + 1)
      <4>1. k \in Nat /\ k + 1 <= Frame
        BY <3>1
      <4> QED
        BY <3>1, <3>4, <4>1 DEF Behind
    <3>6. ASSUME NEW i \in 1 .. n - 1
          PROVE  fifo'[i] = regs'.FBAdd + Behind(Oldest', i - 1) * AddrInc
      <4>1. i + 1 \in 1 .. n /\ i - 1 \in 0 .. n - 1 /\ (i + 1) - 1 = (i - 1) + 1
        BY <3>1
      <4>2. fifo'[i] = regs.FBAdd + Behind(Oldest, (i + 1) - 1) * AddrInc
        BY <1>2, <3>3, <4>1 DEF n
      <4>3. Behind(Oldest', i - 1) = Behind(Oldest, (i - 1) + 1)
        BY <3>5, <4>1
      <4> QED
        BY <1>1, <4>1, <4>2, <4>3
    <3>7. Cursor' = Behind(Oldest', n - 1)
      <4>1. n - 1 \in 0 .. n - 1 /\ (n - 1) + 1 = n
        BY <3>1
      <4>2. Behind(Oldest', n - 1) = Behind(Oldest, n)
        BY <3>5, <4>1
      <4> QED
        BY <1>1, <1>2, <4>2 DEF n
    <3> QED
      BY <3>3, <3>6, <3>7
  <2> QED
    BY <2>5, <2>6
<1> QED
  BY <1>6, <1>7, <1>8

LEMMA RasterInvariant == ASSUME Settings, Screen PROVE Spec => []RInv
<1>1. Init => TimingSet /\ Slow /\ InPlace
  BY DEF Init, MasterInit, SyncInit, TimingSet, Slow, InPlace
<1>2. RInv /\ SInv' /\ [Next]_vars => RInv'
  <2> SUFFICES ASSUME RInv, SInv', [Next]_vars PROVE TimingSet' /\ Slow' /\ InPlace'
    BY DEF RInv
  <2>1. ASSUME NEW waitreq \in BOOLEAN, NEW valid \in BOOLEAN, Clk50(waitreq, valid)
        PROVE  TimingSet' /\ Slow' /\ InPlace'
    <3>1. Slow'
      BY <2>1, SlowClk50 DEF RInv
    <3>2. TimingSet'
      BY <2>1, TimingKept DEF RInv, SInv, FInv, IInv
    <3> QED
      BY <2>1, <3>1, <3>2, InPlaceClk50
  <2>2. CASE VgaClk
    <3>1. Slow'
      BY <2>2, SlowVgaClk DEF RInv
    <3>2. TimingSet'
      BY <2>2 DEF VgaClk, masterVars, RInv, TimingSet
    <3> QED
      BY <2>2, <3>1, <3>2, InPlaceVgaClk
  <2>3. CASE UNCHANGED vars
    <3>1. UNCHANGED <<regs, state, addr, counter, sync, hcount, vcount, fifo, rdUsed, ticks, pc, late>>
      BY <2>3 DEF vars
    <3>2. TimingSet' /\ Slow'
      BY <3>1 DEF RInv, TimingSet, Slow, Filling
    <3>3. Oldest' = Oldest /\ Cursor' = Cursor
      BY <3>1 DEF Oldest, Pixel, NextPixel, Filling, Cursor, Position, Frame
    <3> QED
      BY <3>1, <3>2, <3>3 DEF RInv, InPlace, Behind
  <2> QED
    BY <2>1, <2>2, <2>3 DEF Next
<1> QED
  BY <1>1, <1>2, StreamInvariant, PTL DEF Spec, RInv

\* The fetch and the raster keep step: the word that is fetched next belongs
\* behind the words in the FIFO, counted from the pixel that is shown next,
\* through underflows, stops and restarts of init_vga.
THEOREM ScanInStep == ASSUME Settings, Screen PROVE Spec => []ScanCursor
<1>1. RInv => ScanCursor
  <2> SUFFICES ASSUME RInv, sync = "CNT", state \in {"RUN", "RUNREAD1", "RUNREAD2"}, ~late
               PROVE  (NextPixel + Len(fifo)) % FrameWords
                        = ((addr - regs.FBAdd) \div AddrInc) % FrameWords
    BY DEF ScanCursor
  <2> DEFINE n == Len(fifo)
  <2>1. FrameWords = Frame
    BY DEF RInv, SInv, FInv, Configured, FrameWords
  <2>2. Cursor = Behind(Pixel, n)
    BY DEF RInv, InPlace, Oldest, Filling
  <2>3. Cursor = ((addr - regs.FBAdd) \div AddrInc) % Frame
    BY DEF Cursor, Position
  <2>4. n \in Nat /\ n <= Frame /\ Frame \in Nat \ {0}
    <3>1. SInv
      BY DEF RInv
    <3> QED
      BY <3>1, FifoFacts
  <2>5. NextPixel \in 0 .. Frame
    BY PixelRange DEF RInv, SInv, FInv, IInv, TypeOK, TimingSet
  <2>6. ASSUME NEW x \in 0 .. Frame - 1
        PROVE  x % Frame = x /\ (Frame + x) % Frame = x
    BY <2>4, <2>6
  <2>7. (Frame + Frame) % Frame = 0
    BY <2>4
  <2> HIDE DEF n
  <2>8. CASE NextPixel + n < Frame
    BY <2>1, <2>2, <2>3, <2>4, <2>5, <2>6, <2>8 DEF Behind, Pixel, n
  <2>9. CASE NextPixel + n = Frame + Frame
    <3>1. NextPixel = Frame /\ n = Frame
      BY <2>4, <2>5, <2>9
    <3>2. Cursor = 0
      BY <2>2, <2>4, <3>1 DEF Behind, Pixel
    <3> QED
      BY <2>1, <2>3, <2>7, <3>1, <3>2 DEF n
  <2>10. CASE NextPixel + n >= Frame /\ NextPixel + n # Frame + Frame
    <3>1. PICK x \in 0 .. Frame - 1 : NextPixel + n = Frame + x
      <4>1. NextPixel + n - Frame \in 0 .. Frame - 1
        BY <2>4, <2>5, <2>10
      <4> QED
        BY <2>4, <2>5, <4>1
    <3>2. Cursor = x
      BY <2>2, <2>4, <2>5, <3>1 DEF Behind, Pixel
    <3>3. (NextPixel + n) % Frame = x
      BY <2>6, <3>1
    <3> QED
      BY <2>1, <2>3, <3>2, <3>3 DEF n
  <2> QED
    BY <2>4, <2>5, <2>8, <2>9, <2>10
<1> QED
  BY <1>1, RasterInvariant, PTL

\* Every pixel is shown with the word of the frame buffer that belongs to it,
\* for every picture, frame buffer, burst length, memory and clock ratio,
\* through underflows, stops and restarts of init_vga.
THEOREM PixelsCorrect == ASSUME Settings, Screen PROVE Spec => []PixelCorrect
<1>1. RInv => PixelCorrect
  <2> SUFFICES ASSUME RInv, DispEna(Timing), ~RdEmpty, state # "INIT", ~late
               PROVE  Head(fifo) = regs.FBAdd + NextPixel * AddrInc
    BY DEF PixelCorrect
  <2>1. /\ fifo \in Seq(Nat) /\ Len(fifo) \in Nat /\ Len(fifo) > 0 /\ Frame \in Nat \ {0}
        /\ SyncTypeOK /\ \A r \in TimingRegs : regs[r] = Config[r]
    <3>1. SInv /\ TimingSet
      BY DEF RInv
    <3>2. fifo \in Seq(Nat) /\ Len(fifo) \in Nat /\ Frame \in Nat \ {0}
      BY <3>1, FifoFacts
    <3>3. SyncTypeOK /\ CountsSafe /\ \A r \in TimingRegs : regs[r] = Config[r]
      BY <3>1 DEF SInv, FInv, IInv, TypeOK, TimingSet
    <3>4. Len(fifo) > 0
      BY <3>2, <3>3 DEF RdEmpty, CountsSafe
    <3> QED
      BY <3>2, <3>3, <3>4
  <2>2. sync = "CNT" /\ ~Filling
    BY DEF DispEna, RInv, Slow, RdEmpty
  <2>3. Timing.Hdata = H /\ Timing.Vdata = V
    BY <2>1 DEF Timing, TimingRegs, H, V
  <2>4. NextPixel < Frame /\ Pixel \in 0 .. Frame - 1 /\ NextPixel \in 0 .. Frame
    BY <2>1, <2>3, PixelRange DEF DispEna
  <2>5. Oldest = NextPixel
    BY <2>1, <2>2, <2>4 DEF Oldest, Pixel
  <2>6. fifo[1] = regs.FBAdd + Behind(NextPixel, 1 - 1) * AddrInc
    BY <2>1, <2>5 DEF RInv, InPlace
  <2>7. Behind(NextPixel, 1 - 1) = NextPixel
    BY <2>1, <2>4 DEF Behind
  <2>8. Head(fifo) = fifo[1]
    BY <2>1
  <2> QED
    BY <2>6, <2>7, <2>8
<1> QED
  BY <1>1, RasterInvariant, PTL
=============================================================================
