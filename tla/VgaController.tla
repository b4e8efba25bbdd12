--------------------------- MODULE VgaController ---------------------------
(***************************************************************************)
(* VGA_controller.vhd with the software that configures it: the register   *)
(* slave, the burst master, the FIFO and the raster generator, between an  *)
(* Avalon memory that answers bursts in order and init_vga() on the Nios.  *)
(*                                                                         *)
(* Clk50 is an edge of the 50 MHz clock of slave, master, bus and FIFO     *)
(* write side; VgaClk an edge of the pixel clock of the raster and the     *)
(* FIFO read side.  The PLL fixes how many edges of the first fall between *)
(* two of the second.                                                      *)
(***************************************************************************)
EXTENDS Integers, Sequences, VgaSlave, VgaMaster, VgaSync, DcFifo

CONSTANTS
  MinRatio, MaxRatio,  \* edges of clk_50 between two pixel clock edges
  MaxPending,          \* bursts the memory accepts before it answers
  Config,              \* what init_vga writes to FBLen and the timing registers
  Bases,               \* the frame buffer addresses init_vga may write
  Restarts             \* may init_vga run again, or stop between two writes?

ASSUME ControllerAssumption ==
  /\ FifoDepth = 2 * BurstSize
  /\ MinRatio \in Nat /\ MaxRatio \in Nat \ {0} /\ MinRatio <= MaxRatio
  /\ MaxPending \in Nat \ {0}
  /\ Restarts \in BOOLEAN
  /\ Config \in [ConfigRegs \ {"FBAdd"} -> Nat]
  /\ Bases \subseteq Nat

VARIABLES
  ticks,        \* edges of clk_50 since the last pixel clock edge
  pend,         \* addresses of the words the memory still has to return
  pc,           \* the next write of init_vga
  late          \* history: were words of an older picture pending when the
                \* master last left ST_INIT, or a last word late since then?

vars == <<regs, state, addr, counter, sync, hcount, vcount,
          fifo, wrUsed, rdUsed, ticks, pend, pc, late>>

-----------------------------------------------------------------------------
(* The driver: init_vga() in configure_vga.c, write by write.              *)

Program == <<"DisplayCom", "FBAdd", "FBLen", "HBP", "HFP", "VBP", "VFP",
             "Hdata", "Vdata", "HS", "VS", "DisplayCom">>

COMM_STOP  == 0
COMM_START == 65535

ProgramData(i) ==
  CASE i = 1 -> {COMM_STOP}
    [] i = Len(Program) -> {COMM_START}
    [] Program[i] = "FBAdd" -> Bases
    [] OTHER -> {Config[Program[i]]}

DriverDone == pc > Len(Program)

InitVgaWrite ==
  \/ /\ ~DriverDone
     /\ \E d \in ProgramData(pc) : SlaveWrite(Program[pc], d)
     /\ pc' = pc + 1
  \/ /\ Restarts /\ pc > 1
     /\ SlaveWrite("DisplayCom", COMM_STOP)
     /\ pc' = 2

NoWrite == UNCHANGED <<regs, pc>>

-----------------------------------------------------------------------------
(* The memory behind the Avalon bus: bursts are answered in order, with any *)
(* gaps between the words.                                                 *)

Burst(a) == [i \in 1 .. BurstSize |-> (a + (i - 1) * AddrInc) % AddrSpace]

BusAnswers(waitreq, valid) ==
  /\ Len(pend) > (MaxPending - 1) * BurstSize => waitreq
  /\ pend = <<>> => ~valid

BusClock(waitreq, valid) ==
  LET rest == IF valid THEN Tail(pend) ELSE pend IN
  pend' = IF Reading /\ ~waitreq THEN rest \o Burst(addr) ELSE rest

-----------------------------------------------------------------------------
Timing == [r \in TimingRegs |-> regs[r]]

\* Fault: a burst is asked for whenever the FIFO has any room.
HalfAnyRoom == ~WrFull /\ WrUsedW # 0

\* write_halffull: less than a burst in the FIFO, as counted by its write side
Half == WrUsedW < BurstSize /\ ~WrFull /\ WrUsedW # 0

\* Fault: aclr is not wired to the FIFO.
FifoWriteSideNoClear(valid) ==
  FifoWrite(Receiving /\ valid, IF valid THEN Head(pend) ELSE 0)

\* The FIFO under the master's outputs: aclr is asserted all through ST_INIT.
FifoWriteSide(valid) ==
  IF state' = "INIT" \/ state = "INIT" THEN FifoClear
  ELSE FifoWrite(Receiving /\ valid, IF valid THEN Head(pend) ELSE 0)

\* The master takes a burst for complete when the edge comes at which its last
\* word is due, also if the word does not come.
LastWordLate(valid) ==
  Receiving /\ counter % BurstSize = BurstSize - 1 /\ ~valid

Clk50(waitreq, valid) ==
  /\ ticks < MaxRatio
  /\ ticks' = ticks + 1
  /\ BusAnswers(waitreq, valid)
  /\ BusClock(waitreq, valid)
  /\ MasterClock(regs.DisplayCom, regs.FBAdd, regs.FBLen,
                 Half, RdEmpty, waitreq, valid)
  /\ FifoWriteSide(valid)
  /\ InitVgaWrite \/ NoWrite
  /\ late' = IF state = "INIT" THEN pend # <<>> ELSE late \/ LastWordLate(valid)
  /\ UNCHANGED syncVars

VgaClk ==
  /\ ticks >= MinRatio
  /\ ticks' = 0
  /\ SyncClock(Timing, RdFull, RdEmpty)
  /\ FifoRead(DispEna(Timing))
  /\ UNCHANGED <<regs, masterVars, pend, pc, late>>

Init ==
  /\ SlaveInit
  /\ MasterInit(0)
  /\ SyncInit
  /\ FifoInit
  /\ ticks = 0 /\ pend = <<>> /\ pc = 1 /\ late = FALSE

Next == VgaClk \/ \E waitreq, valid \in BOOLEAN : Clk50(waitreq, valid)

Spec == Init /\ [][Next]_vars

(***************************************************************************)
(* Both clocks run for ever.  The memory accepts a burst that is asked for *)
(* again and again and returns the words it owes; the synchronisers of the *)
(* FIFO are a few registers long, so each side catches up with the other;  *)
(* init_vga has no loop, so it gets to its last write unless it is run     *)
(* again.                                                                  *)
(***************************************************************************)
Fairness ==
  /\ WF_vars(VgaClk)
  /\ WF_vars(\E waitreq, valid \in BOOLEAN : Clk50(waitreq, valid))
  /\ SF_vars(\E valid \in BOOLEAN : Reading /\ Clk50(FALSE, valid))
  /\ SF_vars(\E waitreq \in BOOLEAN : Clk50(waitreq, TRUE))
  /\ SF_vars(VgaClk /\ rdUsed' = Len(fifo'))
  /\ SF_vars(\E waitreq, valid \in BOOLEAN :
               Clk50(waitreq, valid) /\ wrUsed' = Len(fifo'))
  /\ SF_vars(\E waitreq, valid \in BOOLEAN :
               Clk50(waitreq, valid) /\ pc' = pc + 1)

FairSpec == Spec /\ Fairness
-----------------------------------------------------------------------------
FrameWords == regs.FBLen

\* The frame pixel the raster shows next, counted in raster order.
NextPixel ==
  IF vcount >= regs.Vdata THEN 0
  ELSE vcount * regs.Hdata + (IF hcount < regs.Hdata THEN hcount ELSE regs.Hdata)

TypeOK ==
  /\ SlaveTypeOK /\ MasterTypeOK /\ SyncTypeOK
  /\ fifo \in Seq(Nat) /\ CountsSafe
  /\ ticks \in 0 .. MaxRatio
  /\ pend \in Seq(Nat) /\ Len(pend) <= MaxPending * BurstSize
  /\ pc \in 1 .. Len(Program) + 1
  /\ late \in BOOLEAN

\* A word that comes back from the memory always finds room in the FIFO.
NoOverflow == Receiving => ~WrFull

\* A burst the master asks for lies within the frame buffer.
FetchInFrame ==
  Reading /\ ~late =>
    /\ regs.FBAdd <= addr
    /\ addr + BurstSize * AddrInc <= regs.FBAdd + FrameWords * AddrInc

\* The word that is fetched next goes to the pixel it belongs to: behind the
\* words in the FIFO, in raster order from the pixel that is shown next.
ScanCursor ==
  sync = "CNT" /\ state \in {"RUN", "RUNREAD1", "RUNREAD2"} /\ ~late =>
    (NextPixel + Len(fifo)) % FrameWords
      = ((addr - regs.FBAdd) \div AddrInc) % FrameWords

\* A pixel is shown with the word of the frame buffer that belongs to it.
PixelCorrect ==
  DispEna(Timing) /\ ~RdEmpty /\ state # "INIT" /\ ~late =>
    Head(fifo) = regs.FBAdd + NextPixel * AddrInc

\* Once init_vga is done, the raster counts again and again, whatever underflow
\* stopped it, unless the last restart met words of an older picture.
PictureReturns ==
  <>[]DriverDone => []<>(sync = "CNT") \/ <>[]late

\* The abstract frame stream the controller implements.
Position(a) == (a - regs.FBAdd) \div AddrInc

Stream == INSTANCE FrameStream WITH
  FrameLen <- Config.FBLen,
  Depth    <- FifoDepth,
  queue    <- [i \in 1 .. Len(fifo) |-> Position(fifo[i])],
  cursor   <- IF state = "INIT" THEN 0 ELSE Position(addr) % Config.FBLen,
  dirty    <- late

ImplementsStream == Stream!StreamSpec
=============================================================================
