---------------------------- MODULE CamController ----------------------------
(***************************************************************************)
(* camera_controller.vhd with the software that commands it: the register  *)
(* slave, the burst master and the FIFO, between a sampler that keeps the  *)
(* promise of PictureSource and an Avalon memory that may hold every word  *)
(* of a burst up.                                                          *)
(*                                                                         *)
(* Clk50 is an edge of clk50, the clock of slave, master, bus and FIFO     *)
(* read side; PixClk an edge of the camera's pixel clock, which is never   *)
(* the faster of the two.                                                  *)
(***************************************************************************)
EXTENDS Integers, Sequences, PictureSource, CamMaster, CamSlave, DcFifo

CONSTANTS
  MinRatio, MaxRatio,  \* edges of clk50 between two pixel clock edges
  MaxStall,     \* clocks a word of a burst may be held up
  Commands,     \* the values software writes to COMM
  Dests,        \* the buffer addresses it writes to DEST
  Patient       \* does it stop only when a snapshot is in memory, and not
                \* configure between a command and its taking effect?

ASSUME CamControllerAssumption ==
  /\ {MinRatio, MaxRatio} \subseteq Nat \ {0} /\ MinRatio <= MaxRatio
  /\ MaxStall \in Nat
  /\ Commands \subseteq Nat /\ Dests \subseteq Nat /\ Patient \in BOOLEAN

VARIABLES
  ticks,        \* edges of clk50 since the last pixel clock edge
  stall,        \* clocks the word on the bus has been held up
  base          \* the address of the burst the memory has accepted

vars == <<sourceVars, camMasterVars, camSlaveVars, fifo, wrUsed, rdUsed,
          ticks, stall, base>>

Burst == creg.CONB
Dest  == creg.DEST
Leng  == creg.LENG
Idle  == src = "IDLE"        \* cams_idle
-----------------------------------------------------------------------------
(* Software                                                                *)

\* Nothing is on its way to memory.
Drained == src = "SNAPSHOT" /\ ~valid /\ fifo = <<>> /\ cst # "BURST"

WriteCommand ==
  \E c \in Commands :
    /\ Patient /\ Start /\ c % 2 = 0 => Drained
    /\ CamWrite("COMM", c, Idle)

WriteDest ==
  /\ Patient => ~Idle \/ (~Start /\ stat.idle /\ ~stat.start)
  /\ \E d \in Dests : CamWrite("DEST", d, Idle)
-----------------------------------------------------------------------------
(* The memory takes a word of a burst at its place from the address the    *)
(* burst began with.                                                       *)

WriteAddr == IF beat = 0 THEN addr ELSE (base + WordBytes * beat) % AddrSpace

BusClock(waitreq) ==
  /\ waitreq => Writing /\ stall < MaxStall
  /\ stall' = IF waitreq THEN stall + 1 ELSE 0
  /\ base' = IF Writing /\ ~waitreq /\ beat = 0 THEN addr ELSE base

Clk50(waitreq) ==
  /\ ticks < MaxRatio
  /\ ticks' = ticks + 1
  /\ BusClock(waitreq)
  /\ CamMasterClock(Start, RdUsedW, waitreq, Dest, Leng, Burst)
  /\ FifoRead(Writing /\ ~waitreq)
  /\ WriteCommand \/ WriteDest \/ CamNoWrite
  /\ CamStatus(Idle, FALSE)
  /\ UNCHANGED sourceVars

PixClk ==
  /\ ticks >= MinRatio
  /\ ticks' = 0
  /\ SourceClock(Start, Snapshot)
  /\ FifoWrite(valid, sent)
  /\ UNCHANGED <<camMasterVars, camSlaveVars, stall, base>>

Init ==
  /\ SourceInit
  /\ CamSlaveInit
  /\ CamMasterInit(Dest)
  /\ FifoInit
  /\ ticks = 0 /\ stall = 0 /\ base = Dest

Next == PixClk \/ \E waitreq \in BOOLEAN : Clk50(waitreq)

Spec == Init /\ [][Next]_vars

(***************************************************************************)
(* Both clocks run for ever, the synchronisers of the FIFO catch up, and   *)
(* the sensor goes on to the next row and the next picture.  The memory    *)
(* takes a word after MaxStall clocks.                                     *)
(***************************************************************************)
Fairness ==
  /\ WF_vars(PixClk)
  /\ WF_vars(\E waitreq \in BOOLEAN : Clk50(waitreq))
  /\ SF_vars(\E waitreq \in BOOLEAN : Clk50(waitreq) /\ rdUsed' = Len(fifo'))
  /\ SF_vars(PixClk /\ wrUsed' = Len(fifo'))
  /\ SF_vars(PixClk /\ src = "WAIT" /\ src' # "WAIT")
  /\ SF_vars(PixClk /\ src = "PICTURE" /\ src' # "PICTURE")
  /\ SF_vars(PixClk /\ valid')

FairSpec == Spec /\ Fairness
-----------------------------------------------------------------------------
TypeOK ==
  /\ src \in {"IDLE", "WAIT", "PICTURE", "SNAPSHOT"}
  /\ sent \in 0 .. Total /\ valid \in BOOLEAN
  /\ CamMasterTypeOK
  /\ creg \in [CamRegisters -> Nat]
  /\ fifo \in Seq(Nat) /\ CountsSafe
  /\ ticks \in 0 .. MaxRatio /\ stall \in 0 .. MaxStall

\* The word that is due on the bus is there, and it goes to its place in the
\* buffer: word n of the picture to the address Dest + 4n.
WordInPlace ==
  Writing => /\ ~RdEmpty
             /\ WriteAddr = Dest + WordBytes * Head(fifo)

\* No word of a picture is lost on a full FIFO.
NothingLost == valid => ~WrFull

\* What is written lies in the buffer, a burst from its first word to its last.
BurstInBuffer ==
  Writing => /\ Dest <= addr - WordBytes * beat
             /\ addr + WordBytes * (Burst - beat) <= Dest + Leng
             /\ WriteAddr = addr

\* A picture that is complete comes to memory.
SnapshotArrives ==
  src = "SNAPSHOT" ~> fifo = <<>> \/ src # "SNAPSHOT"

\* A capture that has begun anew begins with an empty FIFO.
FreshStart == [][cst = "IDLE" /\ cst' = "WAIT_DATA" => fifo = <<>>]_vars
=============================================================================
