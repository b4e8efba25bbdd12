------------------------ MODULE CamControllerProofs ------------------------
(***************************************************************************)
(* The camera controller in three parts, each for every pace of camera and *)
(* memory that it names, and every moment software chooses:                *)
(*   - the controller is type correct;                                     *)
(*   - the camera master writes within its buffer, each burst from its     *)
(*     first word to its last;                                             *)
(*   - if software is patient and the memory takes a burst in less time    *)
(*     than the camera takes to bring the next, no word is lost and every  *)
(*     word goes to its place in the buffer.                               *)
(***************************************************************************)
EXTENDS CamController, TLAPS

CONSTANTS
  Bursts        \* bursts the buffer holds

B == ResetValue["CONB"]
D == ResetValue["DEST"]
L == ResetValue["LENG"]

\* Where the buffer may lie
Homes == Dests \cup {D}
-----------------------------------------------------------------------------
(* Types                                                                   *)

\* A word that is on data_out is a word of the picture.
TInv == TypeOK /\ (valid => sent < Total)

\* A number is its own remainder if it is below the modulus.
LEMMA ModSmall ==
  ASSUME NEW b \in Nat \ {0}, NEW a \in 0 .. b - 1
  PROVE  a % b = a
OBVIOUS

LEMMA ModRange ==
  ASSUME NEW a \in Nat, NEW b \in Nat \ {0}
  PROVE  a % b \in 0 .. b - 1
OBVIOUS

\* What an edge of the write clock does to the FIFO.
LEMMA WriteEdge ==
  ASSUME fifo \in Seq(Nat), CountsSafe, NEW req \in BOOLEAN, NEW w \in Nat,
         FifoWrite(req, w)
  PROVE  /\ fifo' \in Seq(Nat) /\ CountsSafe' /\ rdUsed' = rdUsed
         /\ wrUsed' <= Len(fifo') + MaxLag
         /\ req /\ ~WrFull => fifo' = Append(fifo, w)
         /\ ~(req /\ ~WrFull) => fifo' = fifo
<1> USE FifoAssumption DEF CountsSafe, WrFull
<1>1. rdUsed' = rdUsed /\ wrUsed' <= Len(fifo') + MaxLag
  BY DEF FifoWrite
<1>2. CASE req /\ ~WrFull
  <2>1. fifo' = Append(fifo, w) /\ Len(fifo') = Len(fifo) + 1 /\ fifo' \in Seq(Nat)
    BY <1>2 DEF FifoWrite
  <2>2. wrUsed' \in Len(fifo') .. wrUsed + 1 /\ wrUsed + 1 <= FifoDepth
    BY <1>2 DEF FifoWrite
  <2>3. wrUsed' \in Nat /\ rdUsed' <= Len(fifo') /\ Len(fifo') <= wrUsed'
        /\ wrUsed' <= FifoDepth
    BY <1>1, <2>1, <2>2
  <2>4. QED
    BY <1>1, <1>2, <2>1, <2>3
<1>3. CASE ~(req /\ ~WrFull)
  <2>1. fifo' = fifo /\ wrUsed' \in Len(fifo) .. wrUsed
    BY <1>3 DEF FifoWrite
  <2>2. QED
    BY <1>1, <1>3, <2>1
<1>4. QED
  BY <1>2, <1>3

\* What an edge of the read clock does to it.
LEMMA ReadEdge ==
  ASSUME fifo \in Seq(Nat), CountsSafe, NEW req \in BOOLEAN, FifoRead(req)
  PROVE  /\ fifo' \in Seq(Nat) /\ CountsSafe' /\ wrUsed' = wrUsed
         /\ Len(fifo') <= rdUsed' + MaxLag /\ rdUsed' <= rdUsed + MaxStep
         /\ req /\ ~RdEmpty => /\ fifo # <<>> /\ fifo' = Tail(fifo)
                               /\ Len(fifo') = Len(fifo) - 1
                               /\ rdUsed - 1 <= rdUsed'
         /\ ~(req /\ ~RdEmpty) => fifo' = fifo /\ rdUsed <= rdUsed'
<1> USE FifoAssumption DEF CountsSafe, RdEmpty
<1>1. /\ wrUsed' = wrUsed
      /\ Len(fifo') <= rdUsed' + MaxLag /\ rdUsed' <= rdUsed + MaxStep
  BY DEF FifoRead
<1>2. CASE req /\ ~RdEmpty
  <2>1. fifo # <<>>
    BY <1>2
  <2>2. fifo' = Tail(fifo) /\ Len(fifo') = Len(fifo) - 1 /\ fifo' \in Seq(Nat)
    BY <1>2, <2>1 DEF FifoRead
  <2>3. rdUsed' \in rdUsed - 1 .. Len(fifo') /\ rdUsed \in Nat \ {0}
    BY <1>2 DEF FifoRead
  <2>4. CountsSafe'
    BY <1>1, <2>1, <2>2, <2>3
  <2>5. rdUsed - 1 <= rdUsed'
    BY <2>3
  <2>6. QED
    BY <1>1, <1>2, <2>1, <2>2, <2>4, <2>5
<1>3. CASE ~(req /\ ~RdEmpty)
  <2>1. fifo' = fifo /\ rdUsed' \in rdUsed .. Len(fifo')
    BY <1>3 DEF FifoRead
  <2>2. QED
    BY <1>1, <1>3, <2>1
<1>4. QED
  BY <1>2, <1>3

\* The registers hold numbers, and DEST one of the addresses of a buffer.
LEMMA RegistersType ==
  ASSUME creg \in [CamRegisters -> Nat], WriteCommand \/ WriteDest \/ CamNoWrite
  PROVE  /\ creg' \in [CamRegisters -> Nat]
         /\ creg'["CONB"] = creg["CONB"] /\ creg'["LENG"] = creg["LENG"]
         /\ creg'["DEST"] \in Dests \cup {creg["DEST"]}
<1>1. CASE WriteCommand
  <2>1. PICK c \in Commands : CamWrite("COMM", c, Idle)
    BY <1>1 DEF WriteCommand
  <2>2. c % 256 \in Nat
    BY CamControllerAssumption
  <2>3. creg' = [creg EXCEPT !["COMM"] = c % 256]
    BY <2>1 DEF CamWrite, InWidth
  <2>4. QED
    BY <2>2, <2>3 DEF CamRegisters, CamSettings
<1>2. CASE WriteDest
  <2>1. PICK d \in Dests : CamWrite("DEST", d, Idle)
    BY <1>2 DEF WriteDest
  <2>2. creg' = creg \/ creg' = [creg EXCEPT !["DEST"] = d]
    BY <2>1 DEF CamWrite, InWidth
  <2>3. d \in Nat
    BY CamControllerAssumption
  <2>4. QED
    BY <2>2, <2>3 DEF CamRegisters, CamSettings
<1>3. CASE CamNoWrite
  BY <1>3 DEF CamNoWrite
<1>4. QED
  BY <1>1, <1>2, <1>3

\* The buffers begin within the address space.
Reachable == \A d \in Homes : d < AddrSpace

\* The master keeps its counters in their width.
LEMMA MasterType ==
  ASSUME CamMasterTypeOK, NEW start \in BOOLEAN, NEW ready, NEW waitreq \in BOOLEAN,
         NEW dest \in 0 .. AddrSpace - 1, NEW leng, NEW burst,
         CamMasterClock(start, ready, waitreq, dest, leng, burst)
  PROVE  CamMasterTypeOK'
<1> USE CamMasterAssumption DEF CamMasterTypeOK
<1>1. CASE CamIdle(start, dest)
  BY <1>1 DEF CamIdle
<1>2. CASE CamWaitData(start, ready, dest, leng, burst)
  BY <1>2 DEF CamWaitData
<1>3. CASE CamBurst(ready, waitreq, dest, leng, burst)
  <2>0. /\ beat + 1 \in Nat /\ addr + WordBytes \in Nat
        /\ BurstSpace \in Nat \ {0} /\ AddrSpace \in Nat \ {0}
    BY DEF WordBytes
  <2>1. (beat + 1) % BurstSpace \in 0 .. BurstSpace - 1
        /\ (addr + WordBytes) % AddrSpace \in 0 .. AddrSpace - 1
    <3> HIDE CamMasterAssumption DEF CamMasterTypeOK
    <3> QED
      BY <2>0, ModRange, Zenon
  <2>2. CASE waitreq
    BY <1>3, <2>2 DEF CamBurst, camMasterVars
  <2>3. CASE ~waitreq
    BY <1>3, <2>1, <2>3 DEF CamBurst, NextAddr
  <2>4. QED
    BY <2>2, <2>3
<1>4. QED
  BY <1>1, <1>2, <1>3 DEF CamMasterClock

\* The sampler puts out words of the picture only.
LEMMA SourceType ==
  ASSUME TInv, NEW start \in BOOLEAN, NEW snapshot \in BOOLEAN,
         SourceClock(start, snapshot)
  PROVE  /\ src' \in {"IDLE", "WAIT", "PICTURE", "SNAPSHOT"}
         /\ sent' \in 0 .. Total /\ valid' \in BOOLEAN
         /\ valid' => ~valid /\ sent' < Total
<1> USE SourceAssumption DEF TInv, TypeOK
<1>1. Out \in 0 .. Total
  BY DEF Out
<1>2. CASE PictureStarts
  <2>1. src' = "PICTURE" /\ sent' = 0 /\ valid' = FALSE
    BY <1>2 DEF PictureStarts
  <2>2. 0 \in 0 .. Total
    OBVIOUS
  <2>3. QED
    BY <2>1, <2>2, Zenon
<1>3. CASE GoesOn(start, snapshot)
  <2>1. src' \in {"IDLE", "WAIT", "PICTURE", "SNAPSHOT"}
    BY <1>3 DEF GoesOn, SourceLeaves
  <2>2. valid' => ~valid /\ sent < Total
    BY <1>3 DEF GoesOn, MayCome, InRow
  <2>3. sent' = Out /\ valid' \in BOOLEAN
    BY <1>3 DEF GoesOn
  <2>4. valid' => ~valid /\ sent' < Total
    BY <2>2, <2>3 DEF Out
  <2>5. sent' \in 0 .. Total
    BY <1>1, <2>3
  <2>6. QED
    BY <2>1, <2>3, <2>4, <2>5, Zenon
<1>4. QED
  BY <1>2, <1>3 DEF SourceClock

LEMMA CommandBits == Start \in BOOLEAN /\ Snapshot \in BOOLEAN
BY DEF Start, Snapshot

LEMMA Clk50Type ==
  ASSUME Reachable, TInv, Dest < AddrSpace, NEW waitreq \in BOOLEAN, Clk50(waitreq)
  PROVE  TInv' /\ creg'["DEST"] \in Dests \cup {Dest}
<1>1. /\ creg' \in [CamRegisters -> Nat]
      /\ creg'["DEST"] \in Dests \cup {Dest}
  BY RegistersType DEF Clk50, TInv, TypeOK, Dest
<1>2. Dest \in 0 .. AddrSpace - 1
  BY CamMasterAssumption DEF TInv, TypeOK, Dest, CamRegisters, CamSettings
<1>3. CamMasterTypeOK'
  BY <1>2, MasterType, CommandBits DEF Clk50, TInv, TypeOK
<1>4. fifo' \in Seq(Nat) /\ CountsSafe'
  BY ReadEdge DEF Clk50, TInv, TypeOK, Writing
<1>5. ticks' \in 0 .. MaxRatio /\ stall' \in 0 .. MaxStall
  BY CamControllerAssumption DEF Clk50, BusClock, TInv, TypeOK
<1>6. UNCHANGED sourceVars
  BY DEF Clk50
<1>7. QED
  BY <1>1, <1>3, <1>4, <1>5, <1>6 DEF TInv, TypeOK, sourceVars

LEMMA PixClkType == ASSUME TInv, PixClk PROVE TInv'
<1>1. fifo' \in Seq(Nat) /\ CountsSafe'
  BY WriteEdge, SourceAssumption DEF PixClk, TInv, TypeOK
<1>2. /\ src' \in {"IDLE", "WAIT", "PICTURE", "SNAPSHOT"}
      /\ sent' \in 0 .. Total /\ valid' \in BOOLEAN
      /\ valid' => sent' < Total
  BY SourceType, CommandBits DEF PixClk
<1>3. ticks' \in 0 .. MaxRatio
  BY CamControllerAssumption DEF PixClk
<1>4. UNCHANGED <<camMasterVars, camSlaveVars, stall>>
  BY DEF PixClk
<1>5. QED
  BY <1>1, <1>2, <1>3, <1>4
  DEF TInv, TypeOK, CamMasterTypeOK, camMasterVars, camSlaveVars

LEMMA TypeStep ==
  ASSUME Reachable, TInv, Dest < AddrSpace, [Next]_vars
  PROVE  TInv' /\ creg'["DEST"] \in Dests \cup {Dest}
<1>1. ASSUME NEW waitreq \in BOOLEAN, Clk50(waitreq)
      PROVE  TInv' /\ creg'["DEST"] \in Dests \cup {Dest}
  BY <1>1, Clk50Type
<1>2. CASE PixClk
  BY <1>2, PixClkType DEF PixClk, camSlaveVars, Dest
<1>3. CASE UNCHANGED vars
  BY <1>3 DEF vars, sourceVars, camMasterVars, camSlaveVars, TInv, TypeOK,
              CamMasterTypeOK, CountsSafe, Dest
<1>4. QED
  BY <1>1, <1>2, <1>3 DEF Next

LEMMA InitType == ASSUME Reachable, Init PROVE TInv /\ Dest = D
<1>1. creg = ResetValue /\ creg \in [CamRegisters -> Nat] /\ Dest = D /\ addr = D
  BY CamSlaveAssumption DEF Init, CamSlaveInit, CamMasterInit, Dest, D
<1>2. CamMasterTypeOK
  <2>0. D \in Nat
    BY CamSlaveAssumption DEF D, CamRegisters, CamSettings
  <2>1. D \in 0 .. AddrSpace - 1
    BY <2>0, CamMasterAssumption DEF Reachable, Homes
  <2>2. QED
    BY <1>1, <2>1, CamMasterAssumption DEF Init, CamMasterInit, CamMasterTypeOK
<1>3. fifo \in Seq(Nat) /\ CountsSafe
  BY FifoAssumption DEF Init, FifoInit, CountsSafe
<1>4. /\ src \in {"IDLE", "WAIT", "PICTURE", "SNAPSHOT"}
      /\ sent \in 0 .. Total /\ valid = FALSE
      /\ ticks \in 0 .. MaxRatio /\ stall \in 0 .. MaxStall
  BY SourceAssumption, CamControllerAssumption DEF Init, SourceInit
<1>5. QED
  BY <1>1, <1>2, <1>3, <1>4 DEF TInv, TypeOK

(***************************************************************************)
(* Whatever the clocks, the memory and software do: the master's address   *)
(* and beat keep within their width, the sampler puts out the words of a   *)
(* picture only, and each side of the FIFO counts on its safe side.        *)
(***************************************************************************)
THEOREM TypeCorrect == ASSUME Reachable PROVE Spec => []TypeOK
<1> DEFINE Inv == TInv /\ Dest \in Homes
<1>1. Init => Inv
  BY InitType DEF Homes
<1>2. Inv /\ [Next]_vars => Inv'
  BY TypeStep DEF Homes, Reachable, Dest
<1>3. Inv => TypeOK
  BY DEF TInv
<1>4. QED
  BY <1>1, <1>2, <1>3, PTL DEF Spec
-----------------------------------------------------------------------------
(* The buffer                                                              *)

(***************************************************************************)
(* The settings of the theorem: a burst has at least two words and its     *)
(* length fits its register, the buffer holds Bursts of them, lies in the  *)
(* address space, and is not moved, or by patient software only.           *)
(***************************************************************************)
Settings ==
  /\ Bursts \in Nat \ {0}
  /\ B \in 2 .. BurstSpace - 1
  /\ L = WordBytes * (B * Bursts)
  /\ \A d \in Homes : d + L <= AddrSpace
  /\ Patient \/ Dests \subseteq {D}

(***************************************************************************)
(* The master is at a word of a burst of the buffer, and the memory counts *)
(* the words of a burst as it does.  Patient software lets no burst run    *)
(* without the start bit, so that the master is idle when DEST is written. *)
(***************************************************************************)
AtWord(q) == addr = Dest + WordBytes * (B * q + beat)

Calm ==
  Patient => /\ ~Start => cst # "BURST"
             /\ ~stat.start => cst = "IDLE"

IInv ==
  /\ TInv
  /\ Burst = B /\ Leng = L /\ Dest \in Homes
  /\ beat < B /\ base \in Nat
  /\ cst # "BURST" => beat = 0
  /\ cst # "IDLE" => \E q \in 0 .. Bursts - 1 : AtWord(q)
  /\ beat # 0 => base + WordBytes * beat = addr
  /\ Calm

\* The bursts of the buffer before the last leave room for another.
LEMMA BurstStart ==
  ASSUME Settings, NEW q \in 0 .. Bursts - 1
  PROVE  /\ B * q \in Nat /\ B * Bursts \in Nat
         /\ B * q + B <= B * Bursts
         /\ B * (q + 1) = B * q + B
         /\ q + 1 < Bursts => B * q + B + B <= B * Bursts
<1>1. B \in Nat /\ q \in Nat /\ Bursts \in Nat
  BY CamMasterAssumption DEF Settings
<1>2. PICK r \in Nat : Bursts = q + 1 + r
  <2>1. Bursts - q - 1 \in Nat /\ Bursts = q + 1 + (Bursts - q - 1)
    BY <1>1
  <2>2. QED
    BY <2>1
<1>3. B * (q + 1 + r) = B * q + B + B * r /\ B * r \in Nat
  BY <1>1, <1>2
<1>4. B * (q + 1) = B * q + B /\ B * q \in Nat
  BY <1>1
<1>5. r # 0 => B <= B * r
  BY <1>1, <1>2
<1>6. q + 1 < Bursts => r # 0
  BY <1>1, <1>2
<1>7. B * Bursts = B * q + B + B * r
  BY <1>2, <1>3
<1>8. QED
  BY <1>1, <1>3, <1>4, <1>5, <1>6, <1>7

\* The settings as numbers, without the wraps.
LEMMA Numbers ==
  ASSUME Settings
  PROVE  /\ B \in Nat /\ 2 <= B /\ B <= BurstSpace - 1 /\ BurstSpace \in Nat
         /\ Bursts \in Nat \ {0} /\ AddrSpace \in Nat
         /\ L \in Nat /\ L >= WordBytes /\ Reachable
         /\ \A d \in Homes : d \in Nat /\ d + L <= AddrSpace
<1>1. B \in Nat /\ BurstSpace \in Nat /\ 2 <= B /\ B <= BurstSpace - 1
      /\ Bursts \in Nat \ {0} /\ AddrSpace \in Nat
  BY CamMasterAssumption DEF Settings
<1>2. L \in Nat /\ L >= WordBytes
  <2>1. B * 0 + B <= B * Bursts /\ B * Bursts \in Nat
    BY <1>1, BurstStart
  <2>2. QED
    BY <1>1, <2>1 DEF Settings, WordBytes
<1>3. \A d \in Homes : d \in Nat
  BY CamControllerAssumption, CamSlaveAssumption
  DEF Homes, D, CamRegisters, CamSettings
<1>4. \A d \in Homes : d + L <= AddrSpace
  BY DEF Settings
<1>5. Reachable
  BY <1>1, <1>2, <1>3, <1>4 DEF Reachable, WordBytes
<1>6. QED
  BY <1>1, <1>2, <1>3, <1>4, <1>5

\* The last beat of a burst and the last word of the buffer.
LEMMA Ends ==
  ASSUME Settings, NEW d \in Homes
  PROVE  /\ LastBeat(B) <=> beat = B - 1
         /\ BufferEnd(d, L) = d + L - WordBytes
<1>1. (B + BurstSpace - 1) % BurstSpace = B - 1
  <2>1. B \in Nat /\ 2 <= B /\ B <= BurstSpace - 1 /\ BurstSpace \in Nat
    BY Numbers
  <2>2. QED
    BY <2>1
<1>2. d \in Nat /\ L \in Nat /\ L >= WordBytes /\ d + L <= AddrSpace /\ AddrSpace \in Nat
  BY Numbers
<1>3. (d + L + AddrSpace - WordBytes) % AddrSpace = d + L - WordBytes
  BY <1>2 DEF WordBytes
<1>4. QED
  BY <1>1, <1>3 DEF LastBeat, BufferEnd

LEMMA InitInv == ASSUME Settings, Init PROVE IInv
<1>1. TInv /\ Dest = D
  BY Numbers, InitType
<1>2. /\ creg = ResetValue /\ cst = "IDLE" /\ base = D /\ beat = 0
  BY DEF Init, CamSlaveInit, CamMasterInit, Dest, D
<1>3. QED
  BY <1>1, <1>2, Numbers DEF IInv, Calm, Burst, Leng, B, L, Homes

\* A register write that clears the start bit is one of a drained capture.
LEMMA CommandKept ==
  ASSUME creg \in [CamRegisters -> Nat], WriteCommand \/ WriteDest \/ CamNoWrite
  PROVE  /\ Patient /\ Start /\ ~Start' => Drained
         /\ creg'["DEST"] # Dest => WriteDest /\ Idle
<1>1. CASE WriteCommand
  <2>1. PICK c \in Commands : /\ Patient /\ Start /\ c % 2 = 0 => Drained
                              /\ CamWrite("COMM", c, Idle)
    BY <1>1 DEF WriteCommand
  <2>2. creg' = [creg EXCEPT !["COMM"] = c % 256] /\ c \in Nat
    BY <2>1, CamControllerAssumption DEF CamWrite, InWidth
  <2>3. creg'["COMM"] = c % 256 /\ creg'["DEST"] = creg["DEST"]
    BY <2>2 DEF CamRegisters, CamSettings
  <2>4. ~Start' => c % 2 = 0
    <3>1. (c % 256) % 2 = c % 2 /\ c % 2 \in {0, 1}
      BY <2>2
    <3>2. QED
      BY <2>3, <3>1 DEF Start
  <2>5. QED
    BY <2>1, <2>3, <2>4 DEF Dest
<1>2. CASE WriteDest
  <2>1. PICK d \in Dests : CamWrite("DEST", d, Idle)
    BY <1>2 DEF WriteDest
  <2>2. creg' = creg \/ (Idle /\ creg' = [creg EXCEPT !["DEST"] = d])
    BY <2>1 DEF CamWrite, InWidth
  <2>3. creg'["COMM"] = creg["COMM"]
    BY <2>2 DEF CamRegisters, CamSettings
  <2>4. QED
    BY <1>2, <2>2, <2>3 DEF Start, Dest
<1>3. CASE CamNoWrite
  BY <1>3 DEF CamNoWrite, Start, Dest
<1>4. QED
  BY <1>1, <1>2, <1>3

\* A burst begins with as many words counted as it has.
LEMMA BurstBegins ==
  ASSUME IInv, NEW waitreq \in BOOLEAN, Clk50(waitreq)
  PROVE  /\ cst = "IDLE" => cst' = IF Start THEN "WAIT_DATA" ELSE "IDLE"
         /\ cst = "WAIT_DATA" =>
              cst' = IF ~Start THEN "IDLE"
                     ELSE IF RdUsedW = B THEN "BURST" ELSE "WAIT_DATA"
         /\ cst = "BURST" => cst' \in {"BURST", "WAIT_DATA"}
<1>1. cst = "IDLE" => CamIdle(Start, Dest)
  BY DEF Clk50, CamMasterClock, CamWaitData, CamBurst
<1>2. cst = "WAIT_DATA" => CamWaitData(Start, RdUsedW, Dest, Leng, Burst)
  BY DEF Clk50, CamMasterClock, CamIdle, CamBurst
<1>3. cst = "BURST" => CamBurst(RdUsedW, waitreq, Dest, Leng, Burst)
  BY DEF Clk50, CamMasterClock, CamIdle, CamWaitData
<1>4. Burst = B
  BY DEF IInv
<1>5. cst = "BURST" => cst' \in {"BURST", "WAIT_DATA"}
  BY <1>3 DEF CamBurst, camMasterVars
<1>6. QED
  BY <1>1, <1>2, <1>4, <1>5 DEF CamIdle, CamWaitData

\* No burst is on its way when patient software stops or moves the buffer.
LEMMA CalmKeeps ==
  ASSUME Settings, IInv, NEW waitreq \in BOOLEAN, Clk50(waitreq)
  PROVE  Calm' /\ (cst' # "IDLE" => Dest' = Dest)
<1> DEFINE Moves == IF ~Start THEN cst' = "IDLE" ELSE cst' # "IDLE"
<1>1. /\ creg \in [CamRegisters -> Nat] /\ CountsSafe
      /\ WriteCommand \/ WriteDest \/ CamNoWrite
      /\ cst \in {"IDLE", "WAIT_DATA", "BURST"}
  BY DEF IInv, TInv, TypeOK, CamMasterTypeOK, Clk50
<1>2. stat'.start = Start
  BY DEF Clk50, CamStatus
<1>3. ASSUME Patient, ~Start PROVE cst # "BURST" /\ cst' = "IDLE"
  BY <1>1, <1>3, BurstBegins DEF IInv, Calm
<1>4. ASSUME Patient, Start, ~Start' PROVE cst' # "BURST"
  <2>1. fifo = <<>> /\ cst # "BURST"
    BY <1>1, <1>4, CommandKept DEF Drained
  <2>2. rdUsed = 0
    BY <1>1, <2>1 DEF CountsSafe
  <2>3. RdUsedW = 0
    BY <2>2, FifoAssumption DEF RdUsedW
  <2>4. RdUsedW # B
    BY <2>3, Numbers
  <2>5. QED
    BY <1>1, <1>4, <2>1, <2>4, BurstBegins
<1>5. Calm'
  BY <1>2, <1>3, <1>4 DEF Calm
<1>6. ASSUME cst' # "IDLE" PROVE Dest' = Dest
  <2>1. Dest' \in Dests \cup {Dest} /\ Dest \in Homes
    BY Numbers, Clk50Type DEF IInv, Reachable, Dest
  <2>2. CASE Patient
    <3>1. ASSUME Dest' # Dest PROVE FALSE
      <4>1. WriteDest /\ Idle
        BY <1>1, <3>1, CommandKept DEF Dest
      <4>2. ~Start
        BY <2>2, <4>1 DEF WriteDest
      <4>3. QED
        BY <1>3, <1>6, <2>2, <4>2
    <3>2. QED
      BY <3>1
  <2>3. CASE Dests \subseteq {D}
    BY <2>1, <2>3 DEF Homes
  <2>4. QED
    BY <2>2, <2>3 DEF Settings
<1>7. QED
  BY <1>5, <1>6

\* In front of a burst the buffer does not end.
LEMMA WaitDataKeeps ==
  ASSUME Settings, IInv,
         CamWaitData(Start, RdUsedW, Dest, Leng, Burst)
  PROVE  beat' = 0 /\ addr' = addr
<1>1. PICK q \in 0 .. Bursts - 1 : AtWord(q)
  BY DEF IInv, CamWaitData
<1>2. beat = 0 /\ beat' = 0 /\ Dest \in Homes /\ Leng = L
  BY DEF CamWaitData, IInv
<1>3. addr # Dest + L - WordBytes
  <2>1. B * q + B <= B * Bursts /\ B * q \in Nat /\ B * Bursts \in Nat
    BY BurstStart
  <2>2. B \in Nat /\ 2 <= B /\ Dest \in Nat /\ L = WordBytes * (B * Bursts)
    BY <1>2, Numbers DEF Settings
  <2>3. QED
    BY <1>1, <1>2, <2>1, <2>2 DEF AtWord, WordBytes
<1>4. addr' = addr
  BY <1>2, <1>3, Ends DEF CamWaitData
<1>5. QED
  BY <1>2, <1>4

\* A beat goes on to the next word, and from the last word to the first.
LEMMA BeatKeeps ==
  ASSUME Settings, IInv, cst = "BURST", Dest' = Dest,
         CamBurst(RdUsedW, FALSE, Dest, Leng, Burst)
  PROVE  /\ beat' = IF beat = B - 1 THEN 0 ELSE beat + 1
         /\ beat < B - 1 => cst' = "BURST"
         /\ beat = B - 1 =>
              cst' = IF RdUsedW # B THEN "WAIT_DATA" ELSE "BURST"
         /\ addr' = IF addr = Dest + L - WordBytes THEN Dest ELSE addr + WordBytes
         /\ addr = Dest + L - WordBytes => beat = B - 1
         /\ \E q \in 0 .. Bursts - 1 : AtWord(q)'
<1>1. PICK q \in 0 .. Bursts - 1 : AtWord(q)
  BY DEF IInv
<1>2. /\ B \in Nat /\ 2 <= B /\ B <= BurstSpace - 1 /\ BurstSpace \in Nat
      /\ L = WordBytes * (B * Bursts) /\ L \in Nat /\ Bursts \in Nat \ {0}
      /\ Dest \in Nat /\ Dest \in Homes /\ Dest + L <= AddrSpace /\ AddrSpace \in Nat
      /\ Leng = L /\ Burst = B
  BY Numbers DEF IInv, Settings
<1>3. /\ B * q \in Nat /\ B * Bursts \in Nat /\ B * q + B <= B * Bursts
      /\ B * (q + 1) = B * q + B
      /\ q + 1 < Bursts => B * q + B + B <= B * Bursts
  BY BurstStart
<1>4. beat \in 0 .. B - 1 /\ addr \in Nat
  BY <1>2 DEF IInv, TInv, TypeOK, CamMasterTypeOK
<1>5. /\ cst' = IF beat = B - 1 /\ RdUsedW # B THEN "WAIT_DATA" ELSE cst
      /\ beat' = IF beat = B - 1 THEN 0 ELSE (beat + 1) % BurstSpace
      /\ addr' = IF addr = Dest + L - WordBytes THEN Dest
                 ELSE (addr + WordBytes) % AddrSpace
  BY <1>2, Ends DEF CamBurst, NextAddr
<1>6. addr = Dest + WordBytes * (B * q + beat)
  BY <1>1 DEF AtWord
<1>7. CASE beat # B - 1
  <2>1. beat' = beat + 1 /\ cst' = "BURST"
    <3>1. (beat + 1) % BurstSpace = beat + 1
      <4>1. BurstSpace \in Nat \ {0} /\ beat + 1 \in 0 .. BurstSpace - 1
        BY <1>2, <1>4, <1>7
      <4>2. QED
        BY <4>1, ModSmall
    <3>2. QED
      BY <1>5, <1>7, <3>1
  <2>2. addr # Dest + L - WordBytes /\ addr + WordBytes < AddrSpace
    BY <1>2, <1>3, <1>4, <1>6, <1>7 DEF WordBytes
  <2>3. addr' = addr + WordBytes
    BY <1>2, <1>4, <1>5, <2>2 DEF WordBytes
  <2>4. AtWord(q)'
    BY <1>2, <1>3, <1>4, <1>6, <2>1, <2>3 DEF AtWord, WordBytes
  <2>5. QED
    BY <1>4, <1>7, <2>1, <2>2, <2>3, <2>4
<1>8. CASE beat = B - 1 /\ q + 1 = Bursts
  <2>1. B * q + B = B * Bursts
    BY <1>2, <1>3, <1>8
  <2>2. addr = Dest + L - WordBytes
    BY <1>2, <1>3, <1>6, <1>8, <2>1 DEF WordBytes
  <2>3. addr' = Dest /\ beat' = 0
    BY <1>5, <1>8, <2>2
  <2>4. AtWord(0)' /\ 0 \in 0 .. Bursts - 1
    BY <1>2, <2>3 DEF AtWord, WordBytes
  <2>5. QED
    BY <1>2, <1>5, <1>8, <2>2, <2>3, <2>4
<1>9. CASE beat = B - 1 /\ q + 1 # Bursts
  <2>1. q + 1 < Bursts /\ q + 1 \in 0 .. Bursts - 1
    BY <1>2, <1>9
  <2>2. addr # Dest + L - WordBytes /\ addr + WordBytes < AddrSpace
    BY <1>2, <1>3, <1>4, <1>6, <1>9, <2>1 DEF WordBytes
  <2>3. addr' = addr + WordBytes /\ beat' = 0
    BY <1>2, <1>4, <1>5, <1>9, <2>2 DEF WordBytes
  <2>4. addr' = Dest + WordBytes * (B * (q + 1) + 0)
    BY <1>2, <1>3, <1>4, <1>6, <1>9, <2>3 DEF WordBytes
  <2>5. AtWord(q + 1)'
    BY <2>3, <2>4 DEF AtWord
  <2>6. QED
    BY <1>2, <1>4, <1>5, <1>9, <2>1, <2>2, <2>3, <2>5
<1>10. QED
  BY <1>7, <1>8, <1>9

LEMMA Clk50Keeps ==
  ASSUME Settings, IInv, NEW waitreq \in BOOLEAN, Clk50(waitreq)
  PROVE  IInv'
<1>1. TInv' /\ Burst' = B /\ Leng' = L /\ Dest' \in Homes
  <2>1. TInv' /\ Dest' \in Dests \cup {Dest}
    BY Numbers, Clk50Type DEF IInv, Reachable, Dest
  <2>2. creg'["CONB"] = creg["CONB"] /\ creg'["LENG"] = creg["LENG"]
    BY RegistersType DEF Clk50, IInv, TInv, TypeOK
  <2>3. QED
    BY <2>1, <2>2 DEF IInv, Burst, Leng, Homes
<1>2. Calm' /\ (cst' # "IDLE" => Dest' = Dest)
  BY CalmKeeps
<1>3. B \in Nat /\ 2 <= B /\ Bursts \in Nat \ {0} /\ Dest \in Nat
  BY Numbers DEF IInv
<1>4. CASE CamIdle(Start, Dest)
  <2>1. base' = base /\ cst' # "BURST" /\ beat' = 0 /\ addr' = Dest
    BY <1>4 DEF Clk50, BusClock, Writing, CamIdle
  <2>2. ASSUME cst' # "IDLE" PROVE \E q \in 0 .. Bursts - 1 : AtWord(q)'
    <3>1. AtWord(0)' /\ 0 \in 0 .. Bursts - 1
      BY <1>2, <1>3, <2>1, <2>2 DEF AtWord, WordBytes
    <3>2. QED
      BY <3>1
  <2>3. QED
    BY <1>1, <1>2, <1>3, <2>1, <2>2 DEF IInv
<1>5. CASE CamWaitData(Start, RdUsedW, Dest, Leng, Burst)
  <2>1. base' = base /\ beat = 0 /\ cst # "IDLE"
    BY <1>5 DEF Clk50, BusClock, Writing, CamWaitData, IInv
  <2>2. beat' = 0 /\ addr' = addr
    BY <1>5, WaitDataKeeps
  <2>3. cst' # "IDLE" => \E q \in 0 .. Bursts - 1 : AtWord(q)'
    BY <1>2, <2>1, <2>2 DEF IInv, AtWord
  <2>4. QED
    BY <1>1, <1>2, <1>3, <2>1, <2>2, <2>3 DEF IInv
<1>6. CASE CamBurst(RdUsedW, waitreq, Dest, Leng, Burst)
  <2>0. cst = "BURST" /\ Dest' = Dest
    BY <1>2, <1>6, BurstBegins DEF CamBurst
  <2>1. CASE waitreq
    <3>1. cst' = cst /\ addr' = addr /\ beat' = beat /\ base' = base
      BY <1>6, <2>1 DEF CamBurst, camMasterVars, Clk50, BusClock
    <3>2. \E q \in 0 .. Bursts - 1 : AtWord(q)'
      BY <2>0, <3>1 DEF IInv, AtWord
    <3>3. QED
      BY <1>1, <1>2, <3>1, <3>2 DEF IInv
  <2>2. CASE ~waitreq
    <3>1. CamBurst(RdUsedW, FALSE, Dest, Leng, Burst)
      BY <1>6, <2>2 DEF CamBurst
    <3>2. base' = IF beat = 0 THEN addr ELSE base
      BY <2>0, <2>2 DEF Clk50, BusClock, Writing
    <3>3. addr \in Nat /\ base \in Nat /\ beat \in 0 .. B - 1
          /\ (beat # 0 => base + WordBytes * beat = addr)
      BY <1>3 DEF IInv, TInv, TypeOK, CamMasterTypeOK
    <3>4. beat' # 0 => base' + WordBytes * beat' = addr'
      <4>1. ASSUME beat' # 0 PROVE base' + WordBytes * beat' = addr'
        <5>1. beat' = beat + 1 /\ addr' = addr + WordBytes
          BY <2>0, <3>1, <4>1, BeatKeeps
        <5>2. QED
          BY <3>2, <3>3, <5>1 DEF WordBytes
      <4>2. QED
        BY <4>1
    <3>5. beat' < B /\ base' \in Nat /\ (cst' # "BURST" => beat' = 0)
      BY <1>3, <2>0, <3>1, <3>2, <3>3, BeatKeeps
    <3>6. \E q \in 0 .. Bursts - 1 : AtWord(q)'
      BY <2>0, <3>1, BeatKeeps
    <3>7. QED
      BY <1>1, <1>2, <3>4, <3>5, <3>6 DEF IInv
  <2>3. QED
    BY <2>1, <2>2
<1>7. QED
  BY <1>4, <1>5, <1>6 DEF Clk50, CamMasterClock

LEMMA NextKeeps == ASSUME Settings, IInv, [Next]_vars PROVE IInv'
<1>1. CASE PixClk \/ UNCHANGED vars
  <2>1. UNCHANGED <<creg, stat, cst, addr, beat, base>>
    BY <1>1 DEF PixClk, vars, camMasterVars, camSlaveVars
  <2>2. TInv'
    BY Numbers, TypeStep DEF IInv, Reachable
  <2>3. /\ Dest' = Dest /\ Burst' = Burst /\ Leng' = Leng /\ Start' = Start
        /\ \A q : AtWord(q)' = AtWord(q)
    BY <2>1 DEF Dest, Burst, Leng, Start, AtWord
  <2>4. QED
    BY <2>1, <2>2, <2>3 DEF IInv, Calm
<1>2. ASSUME NEW waitreq \in BOOLEAN, Clk50(waitreq)
      PROVE  IInv'
  BY <1>2, Clk50Keeps
<1>3. QED
  BY <1>1, <1>2 DEF Next

LEMMA InvImplies == ASSUME Settings, IInv PROVE BurstInBuffer
<1>1. SUFFICES ASSUME cst = "BURST" PROVE BurstInBuffer
  BY DEF BurstInBuffer, Writing
<1>2. PICK q \in 0 .. Bursts - 1 : AtWord(q)
  BY <1>1 DEF IInv
<1>3. /\ B \in Nat /\ L = WordBytes * (B * Bursts) /\ AddrSpace \in Nat
      /\ Dest \in Nat /\ Dest + L <= AddrSpace /\ Leng = L /\ Burst = B
  BY Numbers DEF IInv, Settings
<1>4. B * q \in Nat /\ B * Bursts \in Nat /\ B * q + B <= B * Bursts
  BY BurstStart
<1>5. /\ beat \in 0 .. B - 1 /\ addr \in Nat /\ base \in Nat
      /\ beat # 0 => base + WordBytes * beat = addr
  BY <1>3 DEF IInv, TInv, TypeOK, CamMasterTypeOK
<1>6. addr = Dest + WordBytes * (B * q + beat)
  BY <1>2 DEF AtWord
<1>7. /\ Dest <= addr - WordBytes * beat
      /\ addr + WordBytes * (Burst - beat) <= Dest + Leng
      /\ addr < AddrSpace
  BY <1>3, <1>4, <1>5, <1>6 DEF WordBytes
<1>8. beat # 0 => (base + WordBytes * beat) % AddrSpace = addr
  BY <1>3, <1>5, <1>7
<1>9. QED
  BY <1>7, <1>8 DEF BurstInBuffer, WriteAddr

(***************************************************************************)
(* Whatever the pixel clock, the stalls of the memory and the commands of  *)
(* software: what the camera writes lies in its buffer, also when patient  *)
(* software moves it.                                                      *)
(***************************************************************************)
THEOREM WritesStayInBuffer == ASSUME Settings PROVE Spec => []BurstInBuffer
<1>1. Init => IInv
  BY InitInv
<1>2. IInv /\ [Next]_vars => IInv'
  BY NextKeeps
<1>3. IInv => BurstInBuffer
  BY InvImplies
<1>4. QED
  BY <1>1, <1>2, <1>3, PTL DEF Spec
-----------------------------------------------------------------------------
(* Every word in its place                                                 *)

P == 2 * MinRatio      \* clocks of the camera for a word, at the least
Q == MaxStall + 1      \* clocks of the memory for a word, at the most

(***************************************************************************)
(* The pace at which no word is lost: pictures fill the buffer and have    *)
(* rows of two words or more; the memory takes a whole burst in less time  *)
(* than the camera takes for as many words as a burst has, but for those   *)
(* that the FIFO's synchroniser holds back and one; and the FIFO holds     *)
(* these besides a burst.                                                  *)
(***************************************************************************)
Pace ==
  /\ Patient /\ MaxStep = 1 /\ RowLen # 1
  /\ Total = B * Bursts /\ B + MaxLag + 1 <= Total
  /\ B + 2 * MaxLag + 2 <= FifoDepth
  /\ Q + 1 <= P
  /\ Q * B + 1 < P * (B - MaxLag - 1)

(***************************************************************************)
(* Nothing is on its way to memory while the start bit is off or the       *)
(* master idle, and the master is not idle when a picture begins.          *)
(***************************************************************************)
Quiet == ~valid /\ fifo = <<>> /\ cst # "BURST" /\ sent \in {0, Total}

Session ==
  /\ ~Start => Quiet /\ src \in {"IDLE", "SNAPSHOT"}
  /\ cst = "IDLE" => Quiet /\ src # "PICTURE" /\ (src = "WAIT" => ticks = 0)
  /\ src # "PICTURE" => sent >= Total - 1 \/ (sent = 0 /\ ~valid)

(***************************************************************************)
(* How many words have come in since the count reached the burst, and the  *)
(* clocks since the last of them: while a burst is written, so many words  *)
(* took no more time than the burst has taken.                             *)
(***************************************************************************)
Behind == Len(fifo) + beat - (B + MaxLag - 1)
Since  == IF valid THEN MinRatio + ticks ELSE ticks

InTime ==
  /\ Len(fifo) <= rdUsed + MaxLag + (IF ticks = 0 /\ ~valid THEN 1 ELSE 0)
  /\ Len(fifo) <= B + MaxLag + 1 /\ wrUsed < FifoDepth
  /\ cst # "BURST" =>
       /\ rdUsed <= B /\ stall = 0 /\ Behind <= 1
       /\ Behind = 1 => \/ rdUsed = B /\ Since <= 1
                        \/ rdUsed = B - 1 /\ Since = 0
  /\ cst = "BURST" =>
       /\ B <= rdUsed + beat
       /\ Behind >= 1 => P * (Behind - 1) + Since <= Q * beat + stall + 2

(***************************************************************************)
(* The FIFO holds the words of the picture from the one the master's       *)
(* address stands for to the one the sampler puts out next, over the end   *)
(* of a picture to the next if need be.                                    *)
(***************************************************************************)
Wrap(n) == IF n < Total THEN n ELSE n - Total

Queue ==
  cst # "IDLE" =>
    \A p \in 0 .. Total - 1 : addr = Dest + WordBytes * p =>
      /\ \A i \in 1 .. Len(fifo) : fifo[i] = Wrap(p + i - 1)
      /\ p + Len(fifo) \in {sent, sent + Total, sent - Total}

PInv == IInv /\ Session /\ InTime /\ Queue

\* The greater of two numbers has the greater multiples.
LEMMA Monotone ==
  ASSUME NEW k \in Nat, NEW a \in Int, NEW b \in Int, a <= b
  PROVE  k * a <= k * b
<1>1. PICK r \in Nat : b = a + r
  <2>1. b - a \in Nat /\ b = a + (b - a)
    OBVIOUS
  <2>2. QED
    BY <2>1
<1>2. k * (a + r) = k * a + k * r /\ k * r \in Nat /\ k * a \in Int
  OBVIOUS
<1>3. QED
  BY <1>1, <1>2

\* The numbers of the pace.
LEMMA PaceNumbers ==
  ASSUME Settings, Pace
  PROVE  /\ P \in Nat /\ Q \in Nat \ {0} /\ Q = MaxStall + 1 /\ P = 2 * MinRatio
         /\ MinRatio \in Nat \ {0} /\ MaxStall \in Nat /\ MaxLag \in Nat
         /\ B \in Nat /\ 2 <= B /\ FifoDepth \in Nat /\ Total \in Nat /\ 2 <= Total
         /\ B + MaxLag + 1 <= Total /\ B + 2 * MaxLag + 2 <= FifoDepth
         /\ Q + 1 <= P /\ MaxLag + 2 <= B /\ L = WordBytes * Total
<1>1. /\ MinRatio \in Nat \ {0} /\ MaxStall \in Nat /\ MaxLag \in Nat
      /\ B \in Nat /\ 2 <= B /\ FifoDepth \in Nat /\ Total \in Nat /\ 2 <= Total
  BY Numbers, FifoAssumption, SourceAssumption, CamControllerAssumption
<1>2. P \in Nat /\ Q \in Nat \ {0} /\ Q = MaxStall + 1 /\ P = 2 * MinRatio
  BY <1>1 DEF P, Q
<1>3. MaxLag + 2 <= B
  <2>1. SUFFICES ASSUME B - MaxLag - 1 <= 0 PROVE FALSE
    BY <1>1
  <2>2. P * (B - MaxLag - 1) <= P * 0
    BY <1>1, <1>2, <2>1, Monotone
  <2>3. Q * B \in Nat /\ P * 0 = 0
    BY <1>1, <1>2
  <2>4. Q * B + 1 < P * (B - MaxLag - 1) /\ P * (B - MaxLag - 1) \in Int
    BY <1>1, <1>2 DEF Pace
  <2>5. QED
    BY <2>2, <2>3, <2>4
<1>4. QED
  BY <1>1, <1>2, <1>3 DEF Pace, Settings

\* While a burst is written at its pace, no more than two words over a burst
\* and the lag can gather.
LEMMA LenBound ==
  ASSUME Settings, Pace, NEW n \in Nat, NEW k \in Nat, NEW s \in 0 .. MaxStall,
         NEW t \in Nat, NEW x \in Int, x = n + k - (B + MaxLag - 1),
         x >= 1 => P * (x - 1) + t <= Q * k + s + 2
  PROVE  n <= B + MaxLag + 1
<1>1. SUFFICES ASSUME x >= k + 3 PROVE FALSE
  BY PaceNumbers
<1>2. x >= 1 /\ k + 2 <= x - 1 /\ k + 2 \in Int /\ x - 1 \in Int /\ P \in Nat
  BY <1>1, PaceNumbers
<1>3. P * (k + 2) <= P * (x - 1)
  BY <1>2, Monotone
<1>4. P * (k + 2) = P * k + 2 * P /\ P * k \in Nat /\ P * (x - 1) \in Int
  BY <1>2
<1>5. Q * k <= P * k /\ Q * k \in Nat
  <2>1. PICK r \in Nat : P = Q + r
    <3>1. P - Q \in Nat /\ P = Q + (P - Q)
      BY PaceNumbers
    <3>2. QED
      BY <3>1
  <2>2. (Q + r) * k = Q * k + r * k /\ Q * k \in Nat /\ r * k \in Nat
    BY PaceNumbers
  <2>3. QED
    BY <2>1, <2>2
<1>6. P * (x - 1) + t <= Q * k + s + 2
  BY <1>2
<1>7. s + 2 <= P /\ P >= 1 /\ P \in Nat
  BY PaceNumbers
<1>8. P * k + 2 * P + t <= P * k + P
  BY <1>3, <1>4, <1>5, <1>6, <1>7
<1>9. QED
  BY <1>4, <1>7, <1>8

\* A burst at its pace leaves no time for another whole burst to come in.
LEMMA ChainBound ==
  ASSUME Settings, Pace, NEW n \in Nat, NEW s \in 0 .. MaxStall, NEW t \in Nat,
         NEW x \in Int, x = n - MaxLag,
         x >= 1 => P * (x - 1) + t <= Q * (B - 1) + s + 2
  PROVE  n < B
<1>1. SUFFICES ASSUME n >= B PROVE FALSE
  BY PaceNumbers
<1>2. x >= 1 /\ B - MaxLag - 1 <= x - 1 /\ B - MaxLag - 1 \in Int /\ P \in Nat
  BY <1>1, PaceNumbers
<1>3. P * (B - MaxLag - 1) <= P * (x - 1)
  BY <1>2, Monotone
<1>4. P * (x - 1) + t <= Q * (B - 1) + s + 2
  BY <1>2
<1>5. Q * (B - 1) = Q * B - Q /\ Q * B \in Nat
  <2>1. Q \in Nat /\ B \in Nat
    BY PaceNumbers
  <2>2. QED
    BY <2>1
<1>6. P * (B - MaxLag - 1) \in Int /\ P * (x - 1) \in Int
  BY <1>2
<1>7. Q * B + 1 < P * (B - MaxLag - 1)
  BY DEF Pace
<1>8. Q = MaxStall + 1 /\ MaxStall \in Nat
  BY PaceNumbers
<1>9. QED
  BY <1>3, <1>4, <1>5, <1>6, <1>7, <1>8

\* At the last beat of a burst the words of another are not there yet.
LEMMA NoChain ==
  ASSUME Settings, Pace, IInv, InTime, cst = "BURST", beat = B - 1
  PROVE  Len(fifo) < B
<1>1. Len(fifo) \in Nat /\ stall \in 0 .. MaxStall /\ ticks \in Nat /\ beat \in Nat
  BY PaceNumbers DEF IInv, TInv, TypeOK, CamMasterTypeOK
<1>2. Since \in Nat
  <2>1. MinRatio \in Nat
    BY PaceNumbers
  <2>2. MinRatio + ticks \in Nat
    BY <1>1, <2>1
  <2>3. QED
    BY <1>1, <2>2 DEF Since
<1>3. Behind \in Int /\ Behind = Len(fifo) - MaxLag
  <2>1. B \in Nat /\ MaxLag \in Nat
    BY PaceNumbers
  <2>2. QED
    BY <1>1, <2>1 DEF Behind
<1>4. Behind >= 1 => P * (Behind - 1) + Since <= Q * (B - 1) + stall + 2
  BY DEF InTime
<1>5. QED
  BY <1>1, <1>2, <1>3, <1>4, ChainBound

\* Of two numbers in a row not both are multiples of a number from 2.
LEMMA Successor ==
  ASSUME NEW a \in Nat, NEW b \in Nat, 2 <= b, a % b = 0, (a + 1) % b = 0
  PROVE  FALSE
OBVIOUS

\* A picture is not given up before its last word.
LEMMA RowEnd ==
  ASSUME RowLen # 1
  PROVE  (Total - 1) % RowLen # 0 /\ Total % RowLen = 0 /\ 0 % RowLen = 0
<1>1. RowLen \in Nat /\ 2 <= RowLen /\ Total \in Nat /\ 2 <= Total
  BY SourceAssumption
<1>2. Total % RowLen = 0
  BY SourceAssumption
<1>3. ASSUME (Total - 1) % RowLen = 0 PROVE FALSE
  <2>1. Total - 1 \in Nat /\ (Total - 1) + 1 = Total
    BY <1>1
  <2>2. QED
    BY <1>1, <1>2, <1>3, <2>1, Successor
<1>4. QED
  BY <1>1, <1>2, <1>3

\* The types of what the pace is about.
LEMMA Counts ==
  ASSUME Settings, Pace, IInv
  PROVE  /\ fifo \in Seq(Nat) /\ Len(fifo) \in Nat /\ CountsSafe
         /\ rdUsed \in Nat /\ wrUsed \in Nat /\ rdUsed <= Len(fifo)
         /\ stall \in 0 .. MaxStall /\ ticks \in Nat
         /\ sent \in 0 .. Total /\ valid \in BOOLEAN /\ (valid => sent < Total)
         /\ beat \in 0 .. B - 1 /\ (cst # "BURST" => beat = 0)
         /\ cst \in {"IDLE", "WAIT_DATA", "BURST"}
         /\ Since \in Nat /\ Behind \in Int
         /\ Behind = Len(fifo) + beat - (B + MaxLag - 1)
<1>1. /\ fifo \in Seq(Nat) /\ Len(fifo) \in Nat /\ CountsSafe
      /\ rdUsed \in Nat /\ wrUsed \in Nat /\ rdUsed <= Len(fifo)
      /\ stall \in 0 .. MaxStall /\ ticks \in Nat
      /\ sent \in 0 .. Total /\ valid \in BOOLEAN
  BY CamControllerAssumption DEF IInv, TInv, TypeOK, CountsSafe
<1>2. (valid => sent < Total) /\ (cst # "BURST" => beat = 0)
      /\ cst \in {"IDLE", "WAIT_DATA", "BURST"}
  BY DEF IInv, TInv, TypeOK, CamMasterTypeOK
<1>3. B \in Nat /\ MaxLag \in Nat /\ MinRatio \in Nat
  BY PaceNumbers
<1>4. beat \in 0 .. B - 1
  BY <1>3 DEF IInv, TInv, TypeOK, CamMasterTypeOK
<1>5. Since \in Nat
  <2>1. MinRatio + ticks \in Nat
    BY <1>1, <1>3
  <2>2. QED
    BY <1>1, <2>1 DEF Since
<1>6. Behind \in Int /\ Behind = Len(fifo) + beat - (B + MaxLag - 1)
  BY <1>1, <1>3, <1>4 DEF Behind
<1>7. QED
  BY <1>1, <1>2, <1>4, <1>5, <1>6

\* A drained capture has its whole picture in memory.
LEMMA DrainedWhole ==
  ASSUME Settings, Pace, IInv, Session, Queue, Drained
  PROVE  sent \in {0, Total}
<1>1. SUFFICES ASSUME cst = "WAIT_DATA" PROVE sent \in {0, Total}
  <2>1. cst \in {"IDLE", "WAIT_DATA"}
    BY Counts DEF Drained
  <2>2. cst = "IDLE" => sent \in {0, Total}
    BY DEF Session, Quiet
  <2>3. QED
    BY <1>1, <2>1, <2>2
<1>2. PICK q \in 0 .. Bursts - 1 : AtWord(q)
  BY <1>1 DEF IInv
<1>3. beat = 0 /\ sent \in 0 .. Total /\ Len(fifo) = 0
  BY <1>1, Counts DEF Drained
<1>4. B * q \in Nat /\ B * q + B <= Total /\ B \in Nat /\ 2 <= B /\ Total \in Nat
  BY BurstStart, PaceNumbers DEF Pace
<1>5. addr = Dest + WordBytes * (B * q) /\ B * q \in 0 .. Total - 1
  BY <1>2, <1>3, <1>4 DEF AtWord
<1>6. B * q + Len(fifo) \in {sent, sent + Total, sent - Total}
  BY <1>1, <1>5 DEF Queue
<1>7. sent >= Total - 1 \/ sent = 0
  BY DEF Session, Drained
<1>8. QED
  <2> DEFINE n == B * q
  <2> HIDE DEF n
  <2>1. n \in Nat /\ n + B <= Total /\ n \in {sent, sent + Total, sent - Total}
    BY <1>3, <1>4, <1>6 DEF n
  <2>2. QED
    BY <1>3, <1>4, <1>7, <2>1

\* Outside a picture, with all its words out or none, none comes.
LEMMA NothingComes ==
  ASSUME RowLen # 1, sent \in {0, Total}, src # "PICTURE"
  PROVE  ~MayCome
<1>1. 0 % RowLen = 0 /\ Total % RowLen = 0 /\ Total \in Nat \ {0, 1}
  BY RowEnd, SourceAssumption
<1>2. sent # Total - 1
  BY <1>1
<1>3. ~InRow
  BY <1>1 DEF InRow
<1>4. QED
  BY <1>2, <1>3 DEF MayCome

LEMMA SessionClk50 ==
  ASSUME Settings, Pace, PInv, IInv', NEW waitreq \in BOOLEAN, Clk50(waitreq)
  PROVE  Session'
<1> USE DEF PInv
<1>1. src' = src /\ sent' = sent /\ valid' = valid
  BY DEF Clk50, sourceVars
<1>2. Calm' /\ Patient
  BY CalmKeeps DEF Pace
<1>3. cst # "BURST" => fifo' = fifo
  BY Counts, ReadEdge DEF Clk50, Writing
<1>4. ASSUME ~Start' PROVE Quiet' /\ src' \in {"IDLE", "SNAPSHOT"}
  <2>1. cst' # "BURST"
    BY <1>2, <1>4 DEF Calm
  <2>2. CASE ~Start
    BY <1>1, <1>3, <2>1, <2>2 DEF Session, Quiet
  <2>3. CASE Start
    <3>1. Drained
      BY <1>2, <1>4, <2>3, CommandKept DEF Clk50, IInv, TInv, TypeOK
    <3>2. sent \in {0, Total}
      BY <3>1, DrainedWhole
    <3>3. QED
      BY <1>1, <1>3, <2>1, <3>1, <3>2 DEF Drained, Quiet
  <2>4. QED
    BY <2>2, <2>3
<1>5. ASSUME cst' = "IDLE"
      PROVE  Quiet' /\ src' # "PICTURE" /\ (src' = "WAIT" => ticks' = 0)
  <2>1. ~Start /\ cst # "BURST"
    BY <1>5, BurstBegins, Counts
  <2>2. Quiet /\ src \in {"IDLE", "SNAPSHOT"}
    BY <2>1 DEF Session
  <2>3. QED
    BY <1>1, <1>3, <1>5, <2>2 DEF Quiet
<1>6. src' # "PICTURE" => sent' >= Total - 1 \/ (sent' = 0 /\ ~valid')
  BY <1>1 DEF Session
<1>7. QED
  BY <1>4, <1>5, <1>6 DEF Session

\* The sampler outside a picture, when nothing is on its way.
LEMMA QuietSource ==
  ASSUME Settings, Pace, IInv, Quiet, src \in {"IDLE", "SNAPSHOT"}, PixClk
  PROVE  /\ sent' = sent /\ ~valid' /\ fifo' = fifo
         /\ src' \in {"IDLE", "WAIT", "SNAPSHOT"}
         /\ ~Start => src' \in {"IDLE", "SNAPSHOT"}
<1>1. GoesOn(Start, Snapshot)
  BY DEF PixClk, SourceClock, PictureStarts
<1>2. sent' = sent
  BY <1>1 DEF GoesOn, Out, Quiet
<1>3. ~valid'
  BY <1>1, NothingComes DEF GoesOn, Quiet, Pace
<1>4. src' \in {"IDLE", "WAIT", "SNAPSHOT"} /\ (~Start => src' \in {"IDLE", "SNAPSHOT"})
  BY <1>1 DEF GoesOn, SourceLeaves
<1>5. FifoWrite(valid, sent) /\ ~valid
  BY DEF PixClk, Quiet
<1>6. fifo' = fifo
  <2>1. fifo \in Seq(Nat) /\ CountsSafe /\ valid \in BOOLEAN /\ sent \in Nat
    BY Counts, PaceNumbers
  <2>2. QED
    BY <1>5, <2>1, WriteEdge
<1>7. QED
  BY <1>2, <1>3, <1>4, <1>6

LEMMA SessionPixClk ==
  ASSUME Settings, Pace, PInv, PixClk
  PROVE  Session'
<1> USE DEF PInv
<1>1. Start' = Start /\ cst' = cst /\ ticks' = 0
  BY DEF PixClk, camMasterVars, camSlaveVars, Start
<1>2. ASSUME ~Start' PROVE Quiet' /\ src' \in {"IDLE", "SNAPSHOT"}
  <2>1. Quiet /\ src \in {"IDLE", "SNAPSHOT"}
    BY <1>1, <1>2 DEF Session
  <2>2. QED
    BY <1>1, <1>2, <2>1, QuietSource DEF Quiet
<1>3. ASSUME cst' = "IDLE"
      PROVE  Quiet' /\ src' # "PICTURE" /\ (src' = "WAIT" => ticks' = 0)
  <2>1. Quiet /\ src # "PICTURE" /\ (src = "WAIT" => ticks = 0)
    BY <1>1, <1>3 DEF Session
  <2>2. ticks # 0
    <3>1. ticks >= MinRatio /\ MinRatio \in Nat \ {0}
      BY PaceNumbers DEF PixClk
    <3>2. QED
      BY <3>1
  <2>3. src \in {"IDLE", "SNAPSHOT"}
    BY <2>1, <2>2 DEF IInv, TInv, TypeOK
  <2>4. QED
    BY <1>1, <2>1, <2>3, QuietSource DEF Quiet
<1>4. ASSUME src' # "PICTURE"
      PROVE  sent' >= Total - 1 \/ (sent' = 0 /\ ~valid')
  <2>1. GoesOn(Start, Snapshot)
    BY <1>4 DEF PixClk, SourceClock, PictureStarts
  <2>2. sent' = Out /\ Total \in Nat /\ 2 <= Total /\ sent \in Nat
    BY <2>1, Counts, PaceNumbers DEF GoesOn
  <2>3. CASE src = "PICTURE"
    BY <1>4, <2>1, <2>2, <2>3 DEF GoesOn, SourceLeaves, PictureOver
  <2>4. CASE src # "PICTURE" /\ sent >= Total - 1
    <3>1. Out >= Total - 1
      BY <2>2, <2>4 DEF Out
    <3>2. QED
      BY <2>2, <3>1
  <2>5. CASE src # "PICTURE" /\ sent = 0 /\ ~valid
    <3>1. sent' = 0
      BY <2>2, <2>5 DEF Out
    <3>2. ~valid'
      BY <2>1, <2>5, NothingComes DEF GoesOn, Pace
    <3>3. QED
      BY <3>1, <3>2
  <2>6. QED
    BY <2>3, <2>4, <2>5 DEF Session
<1>5. QED
  BY <1>2, <1>3, <1>4 DEF Session

\* Sums of two numbers.
LEMMA SumKeeps ==
  ASSUME NEW b \in Nat, NEW r \in Nat, NEW k \in Nat, NEW s \in Nat, NEW m \in Nat,
         b <= r + k, (r <= s /\ m = k) \/ (r - 1 <= s /\ m = k + 1)
  PROVE  b <= s + m
OBVIOUS

\* Waiting for the last word.
LEMMA AllButLag ==
  ASSUME NEW b \in Nat, NEW g \in Nat, NEW s \in Nat, b + g <= s + g, s <= b
  PROVE  s = b
OBVIOUS

\* An edge of clk50 takes a word if there is one to take, and time.
LEMMA EdgeFacts ==
  ASSUME Settings, Pace, IInv, NEW waitreq \in BOOLEAN, Clk50(waitreq)
  PROVE  /\ fifo' \in Seq(Nat) /\ Len(fifo') \in Nat /\ rdUsed' \in Nat
         /\ rdUsed' <= Len(fifo') /\ Len(fifo') <= rdUsed' + MaxLag
         /\ rdUsed' <= rdUsed + 1 /\ Len(fifo') <= Len(fifo) /\ wrUsed' = wrUsed
         /\ ~(cst = "BURST" /\ ~waitreq /\ rdUsed # 0)
              => fifo' = fifo /\ rdUsed <= rdUsed'
         /\ cst = "BURST" /\ ~waitreq /\ rdUsed # 0
              => /\ fifo # <<>> /\ fifo' = Tail(fifo)
                 /\ Len(fifo') = Len(fifo) - 1 /\ rdUsed - 1 <= rdUsed'
         /\ ticks' = ticks + 1 /\ valid' = valid /\ Since' = Since + 1
         /\ stall' = IF waitreq THEN stall + 1 ELSE 0
         /\ waitreq => cst = "BURST"
<1>1. /\ fifo \in Seq(Nat) /\ CountsSafe /\ FifoRead(cst = "BURST" /\ ~waitreq)
      /\ (cst = "BURST" /\ ~waitreq) \in BOOLEAN /\ MaxStep = 1
  BY Counts DEF Clk50, Writing, Pace
<1>2. /\ fifo' \in Seq(Nat) /\ CountsSafe' /\ wrUsed' = wrUsed
      /\ Len(fifo') <= rdUsed' + MaxLag /\ rdUsed' <= rdUsed + 1
  BY <1>1, ReadEdge
<1>3. cst = "BURST" /\ ~waitreq /\ rdUsed # 0
              => /\ fifo # <<>> /\ fifo' = Tail(fifo)
                 /\ Len(fifo') = Len(fifo) - 1 /\ rdUsed - 1 <= rdUsed'
  BY <1>1, ReadEdge DEF RdEmpty
<1>4. ~(cst = "BURST" /\ ~waitreq /\ rdUsed # 0)
              => fifo' = fifo /\ rdUsed <= rdUsed'
  BY <1>1, ReadEdge DEF RdEmpty
<1>5. Len(fifo') \in Nat /\ rdUsed' \in Nat /\ rdUsed' <= Len(fifo')
  BY <1>2 DEF CountsSafe
<1>6. Len(fifo') <= Len(fifo)
  BY <1>1, <1>3, <1>4
<1>7. ticks' = ticks + 1 /\ valid' = valid
  BY DEF Clk50, sourceVars
<1>8. Since' = Since + 1
  <2>1. ticks \in Nat /\ MinRatio \in Nat
    BY Counts, PaceNumbers
  <2>2. MinRatio + (ticks + 1) = MinRatio + ticks + 1
    BY <2>1
  <2>3. QED
    BY <1>7, <2>2 DEF Since
<1>9. /\ stall' = IF waitreq THEN stall + 1 ELSE 0
      /\ waitreq => cst = "BURST"
  BY DEF Clk50, BusClock, Writing
<1>10. QED
  BY <1>2, <1>3, <1>4, <1>5, <1>6, <1>7, <1>8, <1>9

\* Waiting for a burst, with the words counted so far.
LEMMA WaitClk50 ==
  ASSUME Settings, Pace, PInv, IInv', NEW waitreq \in BOOLEAN, Clk50(waitreq),
         cst # "BURST"
  PROVE  /\ cst' # "BURST" =>
              /\ rdUsed' <= B /\ stall' = 0 /\ Behind' <= 1
              /\ Behind' = 1 => \/ rdUsed' = B /\ Since' <= 1
                                \/ rdUsed' = B - 1 /\ Since' = 0
         /\ cst' = "BURST" =>
              /\ B <= rdUsed' + beat'
              /\ Behind' >= 1 => P * (Behind' - 1) + Since' <= Q * beat' + stall' + 2
<1> USE DEF PInv
<1>1. /\ rdUsed' <= rdUsed + 1 /\ rdUsed <= rdUsed' /\ fifo' = fifo
      /\ Len(fifo) <= rdUsed' + MaxLag /\ rdUsed' \in Nat /\ rdUsed' <= Len(fifo)
      /\ stall' = 0 /\ Since' = Since + 1
  <2>1. ~waitreq
    BY EdgeFacts
  <2>2. QED
    BY <2>1, EdgeFacts
<1>2. beat = 0 /\ beat' = 0
  BY Counts, BurstBegins DEF Clk50, CamMasterClock, CamIdle, CamWaitData, CamBurst
<1>3. /\ Behind = Len(fifo) - (B + MaxLag - 1) /\ Behind' = Behind /\ Behind \in Int
      /\ Len(fifo) \in Nat /\ rdUsed \in Nat /\ Since \in Nat
  <2>1. Len(fifo) \in Nat /\ B \in Nat /\ MaxLag \in Nat /\ rdUsed \in Nat /\ Since \in Nat
    BY Counts, PaceNumbers
  <2>2. QED
    BY <1>1, <1>2, <2>1 DEF Behind
<1>4. /\ rdUsed <= B /\ Behind <= 1
      /\ Behind = 1 => \/ rdUsed = B /\ Since <= 1
                       \/ rdUsed = B - 1 /\ Since = 0
  BY DEF InTime
<1>5. B \in Nat /\ 2 <= B /\ MaxLag \in Nat /\ B < FifoDepth /\ FifoDepth \in Nat
      /\ P \in Nat /\ Q \in Nat
  BY PaceNumbers
<1>6. RdUsedW = rdUsed
  <2>1. rdUsed \in 0 .. FifoDepth - 1 /\ FifoDepth \in Nat \ {0}
    BY <1>3, <1>4, <1>5
  <2>2. QED
    BY <2>1, ModSmall DEF RdUsedW
<1>7. CASE cst' = "BURST"
  <2>1. rdUsed = B
    BY <1>6, <1>7, BurstBegins, Counts
  <2>2. B <= rdUsed' + beat'
    <3>1. rdUsed <= rdUsed' /\ rdUsed' \in Nat /\ beat' = 0 /\ B \in Nat
      BY <1>1, <1>2, <1>5
    <3>2. B <= rdUsed + beat /\ beat' = beat /\ rdUsed \in Nat /\ beat \in Nat
          /\ beat' \in Nat
      BY <1>2, <1>3, <2>1, <3>1
    <3>3. QED
      BY <3>1, <3>2, SumKeeps
  <2>3. ASSUME Behind' >= 1
        PROVE  P * (Behind' - 1) + Since' <= Q * beat' + stall' + 2
    <3>1. Behind' = 1 /\ Since <= 1
      BY <1>3, <1>4, <1>5, <2>1, <2>3
    <3>2. P * (Behind' - 1) = 0 /\ Q * beat' = 0
      BY <1>2, <1>5, <3>1
    <3>3. QED
      BY <1>1, <1>3, <3>1, <3>2
  <2>4. QED
    BY <1>7, <2>2, <2>3
<1>8. CASE cst' # "BURST"
  <2>1. CASE ~Start
    <3>1. fifo = <<>>
      BY <2>1 DEF Session, Quiet
    <3>2. Len(fifo) = 0
      BY <3>1
    <3>3. rdUsed' <= B /\ Behind' <= 0
      BY <1>1, <1>3, <1>5, <3>2
    <3>4. QED
      BY <1>1, <1>3, <1>8, <3>3
  <2>2. CASE cst = "IDLE"
    <3>1. fifo = <<>>
      BY <2>2 DEF Session, Quiet
    <3>2. Len(fifo) = 0
      BY <3>1
    <3>3. rdUsed' <= B /\ Behind' <= 0
      BY <1>1, <1>3, <1>5, <3>2
    <3>4. QED
      BY <1>1, <1>3, <1>8, <3>3
  <2>3. CASE cst = "WAIT_DATA" /\ Start
    <3>1. rdUsed # B
      BY <1>6, <1>8, <2>3, BurstBegins
    <3>2. rdUsed' <= B
      BY <1>1, <1>3, <1>4, <1>5, <3>1
    <3>3. ASSUME Behind' = 1 PROVE rdUsed' = B /\ Since' <= 1
      <4>1. Behind = 1 /\ Since = 0
        BY <1>3, <1>4, <3>1, <3>3
      <4>2. Len(fifo) = B + MaxLag
        BY <1>3, <1>5, <4>1
      <4>3. rdUsed' \in Nat /\ B \in Nat /\ B + MaxLag <= rdUsed' + MaxLag
            /\ MaxLag \in Nat /\ Since' = 0 + 1
        BY <1>1, <1>5, <4>1, <4>2
      <4>4. rdUsed' = B
        BY <3>2, <4>3, AllButLag
      <4>5. Since' = 1
        BY <4>3
      <4>6. QED
        BY <4>4, <4>5
    <3>4. QED
      BY <1>1, <1>3, <1>4, <1>8, <3>2, <3>3
  <2>4. QED
    BY <2>1, <2>2, <2>3, Counts
<1>9. QED
  BY <1>7, <1>8

\* Writing a burst, word by word.
LEMMA BurstClk50 ==
  ASSUME Settings, Pace, PInv, IInv', NEW waitreq \in BOOLEAN, Clk50(waitreq),
         cst = "BURST"
  PROVE  /\ cst' # "BURST" =>
              /\ rdUsed' <= B /\ stall' = 0 /\ Behind' <= 1
              /\ Behind' = 1 => \/ rdUsed' = B /\ Since' <= 1
                                \/ rdUsed' = B - 1 /\ Since' = 0
         /\ cst' = "BURST" =>
              /\ B <= rdUsed' + beat'
              /\ Behind' >= 1 => P * (Behind' - 1) + Since' <= Q * beat' + stall' + 2
<1> USE DEF PInv
<1>1. /\ B \in Nat /\ 2 <= B /\ MaxLag \in Nat /\ B < FifoDepth /\ FifoDepth \in Nat
      /\ P \in Nat /\ Q \in Nat /\ Q = MaxStall + 1 /\ MaxStall \in Nat
  BY PaceNumbers
<1>2. /\ Len(fifo) \in Nat /\ beat \in 0 .. B - 1 /\ rdUsed \in Nat /\ Since \in Nat
      /\ stall \in 0 .. MaxStall /\ rdUsed <= Len(fifo)
      /\ Behind = Len(fifo) + beat - (B + MaxLag - 1) /\ Behind \in Int
  BY Counts
<1>3. /\ B <= rdUsed + beat
      /\ Behind >= 1 => P * (Behind - 1) + Since <= Q * beat + stall + 2
  BY DEF InTime
<1>4. rdUsed # 0
  BY <1>1, <1>2, <1>3
<1>5. CamBurst(RdUsedW, waitreq, Dest, Leng, Burst)
  BY DEF Clk50, CamMasterClock, CamIdle, CamWaitData
<1>6. Since' = Since + 1 /\ stall' = IF waitreq THEN stall + 1 ELSE 0
  BY EdgeFacts
<1>7. CASE waitreq
  <2>1. cst' = cst /\ beat' = beat /\ fifo' = fifo /\ rdUsed <= rdUsed' /\ rdUsed' \in Nat
        /\ stall' = stall + 1
    BY <1>5, <1>6, <1>7, EdgeFacts DEF CamBurst, camMasterVars
  <2>2. Behind' = Behind
    BY <2>1 DEF Behind
  <2>3. B <= rdUsed' + beat'
    <3>1. /\ B <= rdUsed + beat /\ rdUsed <= rdUsed' /\ beat' = beat
          /\ B \in Nat /\ beat \in Nat /\ rdUsed \in Nat /\ rdUsed' \in Nat
      BY <1>1, <1>2, <1>3, <2>1
    <3>2. beat' \in Nat
      BY <3>1
    <3>3. QED
      BY <3>1, <3>2, SumKeeps
  <2>4. ASSUME Behind' >= 1
        PROVE  P * (Behind' - 1) + Since' <= Q * beat' + stall' + 2
    <3> DEFINE x == P * (Behind - 1)
    <3> DEFINE y == Q * beat
    <3>1. x \in Int /\ y \in Int /\ x + Since <= y + stall + 2
      BY <1>1, <1>2, <1>3, <2>2, <2>4
    <3>2. P * (Behind' - 1) = x /\ Q * beat' = y
      BY <2>1, <2>2
    <3> HIDE DEF x, y
    <3>3. QED
      BY <1>2, <1>6, <2>1, <3>1, <3>2
  <2>5. QED
    BY <2>1, <2>3, <2>4
<1>8. CASE ~waitreq
  <2>1. /\ Len(fifo') = Len(fifo) - 1 /\ rdUsed - 1 <= rdUsed' /\ rdUsed' \in Nat
        /\ rdUsed' <= Len(fifo') /\ stall' = 0
    BY <1>4, <1>6, <1>8, EdgeFacts
  <2>2. Dest' = Dest
    BY <1>5, BurstBegins, CalmKeeps
  <2>3. /\ beat' = IF beat = B - 1 THEN 0 ELSE beat + 1
        /\ beat < B - 1 => cst' = "BURST"
        /\ beat = B - 1 => cst' = IF RdUsedW # B THEN "WAIT_DATA" ELSE "BURST"
    <3>1. CamBurst(RdUsedW, FALSE, Dest, Leng, Burst)
      BY <1>5, <1>8 DEF CamBurst
    <3>2. QED
      BY <2>2, <3>1, BeatKeeps
  <2>4. Behind' = Len(fifo') + beat' - (B + MaxLag - 1)
    BY DEF Behind
  <2>5. CASE beat < B - 1
    <3>1. cst' = "BURST" /\ beat' = beat + 1
      BY <1>1, <1>2, <2>3, <2>5
    <3>2. Behind' = Behind
      BY <1>1, <1>2, <2>1, <2>4, <3>1
    <3>3. B <= rdUsed' + beat'
      <4>1. /\ B <= rdUsed + beat /\ rdUsed - 1 <= rdUsed' /\ beat' = beat + 1
            /\ B \in Nat /\ beat \in Nat /\ rdUsed \in Nat /\ rdUsed' \in Nat
        BY <1>1, <1>2, <1>3, <2>1, <3>1
      <4>2. beat' \in Nat
        BY <4>1
      <4>3. QED
        BY <4>1, <4>2, SumKeeps
    <3>4. ASSUME Behind' >= 1
          PROVE  P * (Behind' - 1) + Since' <= Q * beat' + stall' + 2
      <4> DEFINE x == P * (Behind - 1)
      <4> DEFINE y == Q * beat
      <4>1. x \in Int /\ y \in Int /\ x + Since <= y + stall + 2
        BY <1>1, <1>2, <1>3, <3>2, <3>4
      <4>2. P * (Behind' - 1) = x /\ Q * beat' = y + Q
        <5>1. Q * (beat + 1) = Q * beat + Q
          BY <1>1, <1>2
        <5>2. QED
          BY <3>1, <3>2, <5>1
      <4> HIDE DEF x, y
      <4>3. QED
        BY <1>1, <1>2, <1>6, <2>1, <4>1, <4>2
    <3>5. QED
      BY <3>1, <3>3, <3>4
  <2>6. CASE beat = B - 1
    <3>1. Len(fifo) < B
      BY <2>6, NoChain
    <3>2. RdUsedW = rdUsed
      <4>1. rdUsed \in 0 .. FifoDepth - 1 /\ FifoDepth \in Nat \ {0}
        BY <1>1, <1>2, <3>1
      <4>2. QED
        BY <4>1, ModSmall DEF RdUsedW
    <3>3. cst' = "WAIT_DATA" /\ beat' = 0
      BY <1>1, <1>2, <2>3, <2>6, <3>1, <3>2
    <3>4. rdUsed' <= B /\ Behind' <= 0 /\ Behind' \in Int
      BY <1>1, <1>2, <2>1, <2>4, <3>1, <3>3
    <3>5. QED
      BY <2>1, <3>3, <3>4
  <2>7. QED
    BY <1>1, <1>2, <2>5, <2>6
<1>9. QED
  BY <1>7, <1>8

LEMMA TimeClk50 ==
  ASSUME Settings, Pace, PInv, IInv', NEW waitreq \in BOOLEAN, Clk50(waitreq)
  PROVE  InTime'
<1> USE DEF PInv
<1>1. Len(fifo') <= rdUsed' + MaxLag + (IF ticks' = 0 /\ ~valid' THEN 1 ELSE 0)
  <2>1. Len(fifo') <= rdUsed' + MaxLag /\ ticks' = ticks + 1 /\ ticks \in Nat
        /\ rdUsed' \in Nat /\ MaxLag \in Nat
    BY EdgeFacts, Counts, PaceNumbers
  <2>2. ticks' # 0
    BY <2>1
  <2>3. QED
    BY <2>1, <2>2
<1>2. Len(fifo') <= B + MaxLag + 1 /\ wrUsed' < FifoDepth
  <2>1. Len(fifo') <= Len(fifo) /\ Len(fifo) \in Nat /\ Len(fifo') \in Nat
        /\ wrUsed' = wrUsed /\ B \in Nat /\ MaxLag \in Nat
    BY EdgeFacts, Counts, PaceNumbers
  <2>2. Len(fifo) <= B + MaxLag + 1 /\ wrUsed < FifoDepth
    BY DEF InTime
  <2>3. QED
    BY <2>1, <2>2
<1>3. CASE cst = "BURST"
  BY <1>1, <1>2, <1>3, BurstClk50 DEF InTime
<1>4. CASE cst # "BURST"
  BY <1>1, <1>2, <1>4, WaitClk50 DEF InTime
<1>5. QED
  BY <1>3, <1>4

\* An edge of the pixel clock: the word on data_out goes into the FIFO, and
\* the next one is not out before another edge.
LEMMA PixelEdge ==
  ASSUME Settings, Pace, IInv, InTime, PixClk
  PROVE  /\ ticks' = 0 /\ ticks >= MinRatio /\ rdUsed' = rdUsed
         /\ cst' = cst /\ addr' = addr /\ beat' = beat /\ stall' = stall /\ Dest' = Dest
         /\ fifo' \in Seq(Nat) /\ Len(fifo') \in Nat
         /\ Len(fifo) <= rdUsed + MaxLag
         /\ wrUsed' \in Nat /\ wrUsed' <= Len(fifo') + MaxLag
         /\ valid => /\ fifo' = Append(fifo, sent) /\ Len(fifo') = Len(fifo) + 1
                     /\ ~valid' /\ Since >= P /\ Since' = 0
         /\ ~valid => fifo' = fifo /\ Since' <= Since /\ Since >= 1
         /\ Since' \in Nat
<1>1. /\ fifo \in Seq(Nat) /\ CountsSafe /\ valid \in BOOLEAN /\ sent \in Nat
      /\ ticks \in Nat /\ rdUsed \in Nat /\ Len(fifo) \in Nat
      /\ MinRatio \in Nat \ {0} /\ MaxLag \in Nat /\ P = 2 * MinRatio
  BY Counts, PaceNumbers
<1>2. /\ ticks' = 0 /\ ticks >= MinRatio /\ FifoWrite(valid, sent)
      /\ cst' = cst /\ addr' = addr /\ beat' = beat /\ stall' = stall
  BY DEF PixClk, camMasterVars
<1>3. Dest' = Dest
  BY DEF PixClk, camSlaveVars, Dest
<1>4. ~WrFull
  <2>1. wrUsed < FifoDepth /\ wrUsed \in Nat /\ FifoDepth \in Nat
    BY <1>1, PaceNumbers DEF InTime, CountsSafe
  <2>2. QED
    BY <2>1 DEF WrFull
<1>5. /\ fifo' \in Seq(Nat) /\ CountsSafe' /\ rdUsed' = rdUsed
      /\ wrUsed' <= Len(fifo') + MaxLag
      /\ valid => fifo' = Append(fifo, sent)
      /\ ~valid => fifo' = fifo
  BY <1>1, <1>2, <1>4, WriteEdge
<1>6. Len(fifo') \in Nat /\ wrUsed' \in Nat
  BY <1>5 DEF CountsSafe
<1>7. valid => Len(fifo') = Len(fifo) + 1
  BY <1>1, <1>5
<1>8. Len(fifo) <= rdUsed + MaxLag
  <2>1. ticks # 0
    BY <1>1, <1>2
  <2>2. Len(fifo) <= rdUsed + MaxLag + 0
    BY <2>1 DEF InTime
  <2>3. QED
    BY <1>1, <2>2
<1>9. valid => ~valid'
  BY SourceType, CommandBits DEF PixClk, IInv
<1>10. valid => Since >= P /\ Since' = 0
  <2>1. MinRatio + ticks >= 2 * MinRatio
    BY <1>1, <1>2
  <2>2. QED
    BY <1>1, <1>2, <1>9, <2>1 DEF Since
<1>11. ~valid => Since' <= Since /\ Since >= 1
  <2>1. ticks >= 1 /\ 0 <= ticks /\ MinRatio + 0 <= ticks
    BY <1>1, <1>2
  <2>2. ~valid => Since = ticks
    BY DEF Since
  <2>3. Since' = MinRatio + 0 \/ Since' = 0
    BY <1>2 DEF Since
  <2>4. QED
    BY <2>1, <2>2, <2>3
<1>12. Since' \in Nat
  <2>1. MinRatio + 0 \in Nat
    BY <1>1
  <2>2. QED
    BY <1>2, <2>1 DEF Since
<1>13. QED
  BY <1>2, <1>3, <1>5, <1>6, <1>7, <1>8, <1>9, <1>10, <1>11, <1>12

LEMMA TimePixClk ==
  ASSUME Settings, Pace, PInv, PixClk
  PROVE  InTime'
<1> USE DEF PInv
<1>1. /\ B \in Nat /\ 2 <= B /\ MaxLag \in Nat /\ MinRatio \in Nat \ {0}
      /\ P \in Nat /\ Q \in Nat /\ P = 2 * MinRatio
      /\ FifoDepth \in Nat /\ B + 2 * MaxLag + 2 <= FifoDepth
  BY PaceNumbers
<1>2. /\ rdUsed \in Nat /\ Len(fifo) \in Nat /\ beat \in 0 .. B - 1 /\ stall \in 0 .. MaxStall
      /\ Since \in Nat /\ Behind \in Int /\ valid \in BOOLEAN
      /\ Behind = Len(fifo) + beat - (B + MaxLag - 1)
      /\ cst # "BURST" => beat = 0
  BY Counts
<1>3. /\ ticks' = 0 /\ rdUsed' = rdUsed /\ cst' = cst /\ beat' = beat /\ stall' = stall
      /\ Len(fifo') \in Nat /\ Len(fifo) <= rdUsed + MaxLag
      /\ wrUsed' \in Nat /\ wrUsed' <= Len(fifo') + MaxLag /\ Since' \in Nat
      /\ valid => Len(fifo') = Len(fifo) + 1 /\ ~valid' /\ Since >= P /\ Since' = 0
      /\ ~valid => Len(fifo') = Len(fifo) /\ Since' <= Since /\ Since >= 1
  BY PixelEdge
<1>4. Behind' = Len(fifo') + beat - (B + MaxLag - 1) /\ Behind' \in Int
  <2>1. Behind' = Len(fifo') + beat' - (B + MaxLag - 1)
    BY DEF Behind
  <2>2. QED
    BY <1>1, <1>2, <1>3, <2>1
<1>5. valid => Behind' = Behind + 1
  BY <1>1, <1>2, <1>3, <1>4
<1>6. ~valid => Behind' = Behind
  BY <1>2, <1>3, <1>4
<1>7. Len(fifo') <= rdUsed' + MaxLag + (IF ticks' = 0 /\ ~valid' THEN 1 ELSE 0)
  <2>1. CASE valid
    <3>1. Len(fifo') <= rdUsed + MaxLag + 1
      BY <1>1, <1>2, <1>3, <2>1
    <3>2. QED
      BY <1>3, <2>1, <3>1
  <2>2. CASE ~valid
    <3>1. Len(fifo') <= rdUsed + MaxLag + 0 /\ Len(fifo') <= rdUsed + MaxLag + 1
      BY <1>1, <1>2, <1>3, <2>2
    <3>2. QED
      BY <1>3, <3>1
  <2>3. QED
    BY <2>1, <2>2
<1>8. ASSUME cst' # "BURST"
      PROVE  /\ rdUsed' <= B /\ stall' = 0 /\ Behind' <= 1
             /\ Behind' = 1 => \/ rdUsed' = B /\ Since' <= 1
                               \/ rdUsed' = B - 1 /\ Since' = 0
             /\ Len(fifo') <= B + MaxLag + 1
  <2>1. /\ rdUsed <= B /\ stall = 0 /\ Behind <= 1 /\ beat = 0
        /\ Behind = 1 => \/ rdUsed = B /\ Since <= 1
                         \/ rdUsed = B - 1 /\ Since = 0
    BY <1>2, <1>3, <1>8 DEF InTime
  <2>2. CASE valid
    <3>1. Behind <= 0
      BY <1>1, <1>2, <1>3, <2>1, <2>2
    <3>2. Behind' <= 1 /\ Since' = 0
      BY <1>2, <1>3, <1>5, <2>2, <3>1
    <3>3. Behind' = 1 => Len(fifo) = B + MaxLag - 1
      BY <1>1, <1>2, <1>5, <2>1, <2>2
    <3>4. Behind' = 1 => rdUsed = B \/ rdUsed = B - 1
      BY <1>1, <1>2, <1>3, <2>1, <3>3
    <3>5. Len(fifo') <= B + MaxLag + 1
      BY <1>1, <1>2, <1>3, <1>4, <2>1, <3>2
    <3>6. QED
      BY <1>3, <2>1, <3>2, <3>4, <3>5
  <2>3. CASE ~valid
    <3>1. Len(fifo') <= B + MaxLag + 1
      BY <1>1, <1>2, <1>3, <2>1, <2>3
    <3>2. Since # 0 /\ (Since <= 1 => Since' <= 1)
      BY <1>2, <1>3, <2>3
    <3>3. QED
      BY <1>3, <1>6, <2>1, <2>3, <3>1, <3>2
  <2>4. QED
    BY <2>2, <2>3
<1>9. ASSUME cst' = "BURST"
      PROVE  /\ B <= rdUsed' + beat'
             /\ Behind' >= 1 => P * (Behind' - 1) + Since' <= Q * beat' + stall' + 2
             /\ Len(fifo') <= B + MaxLag + 1
  <2>1. /\ B <= rdUsed + beat
        /\ Behind >= 1 => P * (Behind - 1) + Since <= Q * beat + stall + 2
    BY <1>3, <1>9 DEF InTime
  <2> DEFINE y == Q * beat
  <2>2. y \in Nat /\ stall \in Nat
    BY <1>1, <1>2, PaceNumbers
  <2>3. ASSUME Behind' >= 1
        PROVE  P * (Behind' - 1) + Since' <= y + stall + 2
    <3>1. CASE ~valid
      <4> DEFINE x == P * (Behind - 1)
      <4>1. x + Since <= y + stall + 2 /\ x \in Int
        BY <1>1, <1>2, <1>6, <2>1, <2>3, <3>1
      <4>2. P * (Behind' - 1) = x
        BY <1>6, <3>1
      <4> HIDE DEF x, y
      <4>3. QED
        BY <1>2, <1>3, <2>2, <3>1, <4>1, <4>2
    <3>2. CASE valid /\ Behind >= 1
      <4> DEFINE x == P * (Behind - 1)
      <4>1. x + Since <= y + stall + 2 /\ x \in Int
        BY <1>1, <1>2, <2>1, <3>2
      <4>2. P * (Behind' - 1) = x + P
        <5>1. Behind' - 1 = (Behind - 1) + 1 /\ Behind - 1 \in Int
          BY <1>2, <1>5, <3>2
        <5>2. P * ((Behind - 1) + 1) = P * (Behind - 1) + P
          BY <1>1, <5>1
        <5>3. QED
          BY <5>1, <5>2
      <4>3. Since >= P /\ Since' = 0
        BY <1>3, <3>2
      <4> HIDE DEF x, y
      <4>4. QED
        BY <1>1, <1>2, <2>2, <4>1, <4>2, <4>3
    <3>3. CASE valid /\ ~(Behind >= 1)
      <4>1. Behind' - 1 = 0 /\ Since' = 0
        BY <1>2, <1>3, <1>5, <2>3, <3>3
      <4>2. P * (Behind' - 1) = 0
        BY <1>1, <4>1
      <4> HIDE DEF y
      <4>3. QED
        BY <2>2, <4>1, <4>2
    <3>4. QED
      BY <1>2, <3>1, <3>2, <3>3
  <2>4. Behind' >= 1 => P * (Behind' - 1) + Since' <= Q * beat' + stall' + 2
    BY <1>3, <2>3
  <2>5. Len(fifo') <= B + MaxLag + 1
    <3>1. beat \in Nat
      BY <1>2
    <3>2. Behind' >= 1 => P * (Behind' - 1) + Since' <= Q * beat + stall + 2
      BY <2>3
    <3>3. QED
      BY <1>2, <1>3, <1>4, <3>1, <3>2, LenBound
  <2>6. QED
    BY <1>3, <2>1, <2>4, <2>5
<1>10. Len(fifo') <= B + MaxLag + 1
  BY <1>8, <1>9
<1>11. wrUsed' < FifoDepth
  BY <1>1, <1>3, <1>10
<1>12. QED
  BY <1>7, <1>8, <1>9, <1>10, <1>11 DEF InTime

\* What the queue says of the master's word p.
Follows(p) ==
  /\ \A i \in 1 .. Len(fifo) : fifo[i] = Wrap(p + i - 1)
  /\ p + Len(fifo) \in {sent, sent + Total, sent - Total}

\* Where nothing moves.
LEMMA QueueRests ==
  ASSUME Queue, cst # "IDLE", fifo' = fifo, addr' = addr, Dest' = Dest, sent' = sent
  PROVE  Queue'
BY DEF Queue, Wrap

\* The words that are there stay in their places when one more comes.
LEMMA AppendKeeps ==
  ASSUME NEW s \in Seq(Nat), NEW w \in Nat, NEW i \in 1 .. Len(s)
  PROVE  Append(s, w)[i] = s[i]
OBVIOUS

\* The word at the head is taken and the address goes on.
LEMMA FollowsNext ==
  ASSUME Settings, Pace, fifo \in Seq(Nat), sent \in 0 .. Total,
         fifo # <<>>, fifo' = Tail(fifo), sent' = sent,
         Len(fifo) <= B + MaxLag + 1,
         NEW p \in 0 .. Total - 1, Follows(p),
         NEW m \in 0 .. Total - 1, m = IF p = Total - 1 THEN 0 ELSE p + 1
  PROVE  Follows(m)'
<1>1. /\ Len(fifo) \in Nat \ {0} /\ Len(fifo') = Len(fifo) - 1
      /\ \A i \in 1 .. Len(fifo') : fifo'[i] = fifo[i + 1]
  BY DEF Pace
<1>2. Total \in Nat /\ 2 <= Total /\ Len(fifo) <= Total
  <2>1. /\ Total \in Nat /\ 2 <= Total /\ B + MaxLag + 1 <= Total
        /\ B \in Nat /\ MaxLag \in Nat
    BY PaceNumbers
  <2>2. QED
    BY <1>1, <2>1
<1>3. ASSUME NEW i \in 1 .. Len(fifo') PROVE fifo'[i] = Wrap(m + i - 1)
  <2>1. i \in Nat /\ i + 1 \in 1 .. Len(fifo) /\ i >= 1
    BY <1>1
  <2>2. fifo'[i] = Wrap(p + (i + 1) - 1)
    BY <1>1, <2>1 DEF Follows
  <2>3. CASE p = Total - 1
    <3>1. m + i - 1 = i - 1 /\ i - 1 < Total
      BY <1>1, <1>2, <2>1, <2>3
    <3>2. Wrap(p + (i + 1) - 1) = i - 1
      <4> DEFINE n == p + (i + 1) - 1
      <4>1. ~(n < Total) /\ n - Total = i - 1
        BY <1>2, <2>1, <2>3
      <4> HIDE DEF n
      <4>2. Wrap(n) = i - 1
        BY <4>1 DEF Wrap
      <4>3. QED
        BY <4>2 DEF n
    <3>3. Wrap(m + i - 1) = i - 1
      BY <3>1 DEF Wrap
    <3>4. QED
      BY <2>2, <3>2, <3>3
  <2>4. CASE p # Total - 1
    <3>1. m + i - 1 = p + (i + 1) - 1
      BY <2>1, <2>4
    <3>2. QED
      BY <2>2, <3>1
  <2>5. QED
    BY <2>3, <2>4
<1>4. m + Len(fifo') \in {sent, sent + Total, sent - Total}
  <2>1. p + Len(fifo) \in {sent, sent + Total, sent - Total}
    BY DEF Follows
  <2>2. CASE p = Total - 1
    <3>1. m + Len(fifo') = p + Len(fifo) - Total
      BY <1>1, <1>2, <2>2
    <3>2. p + Len(fifo) # sent - Total
      BY <1>1, <1>2, <2>2
    <3>3. QED
      BY <1>2, <2>1, <3>1, <3>2
  <2>3. CASE p # Total - 1
    <3>1. m + Len(fifo') = p + Len(fifo)
      BY <1>1, <2>3
    <3>2. QED
      BY <2>1, <3>1
  <2>4. QED
    BY <2>2, <2>3
<1>5. \A i \in 1 .. Len(fifo') : fifo'[i] = Wrap(m + i - 1)
  BY <1>3
<1>6. QED
  BY <1>4, <1>5 DEF Follows, Wrap

\* The master's address as a word of the buffer.
LEMMA AtPlace ==
  ASSUME Settings, Pace, IInv, cst # "IDLE"
  PROVE  /\ \E p \in 0 .. Total - 1 : addr = Dest + WordBytes * p
         /\ Dest \in Nat
<1>1. PICK q \in 0 .. Bursts - 1 : AtWord(q)
  BY DEF IInv
<1>2. B * q \in Nat /\ B * q + B <= Total /\ B \in Nat /\ Total \in Nat
  BY BurstStart, PaceNumbers DEF Pace
<1>3. beat \in 0 .. B - 1
  BY Counts
<1>4. B * q + beat \in 0 .. Total - 1
  BY <1>2, <1>3
<1>5. Dest \in Nat
  BY Numbers DEF IInv
<1>6. QED
  BY <1>1, <1>4, <1>5 DEF AtWord

LEMMA QueueClk50 ==
  ASSUME Settings, Pace, PInv, IInv', NEW waitreq \in BOOLEAN, Clk50(waitreq)
  PROVE  Queue'
<1> USE DEF PInv
<1>1. SUFFICES ASSUME cst' # "IDLE" PROVE Queue'
  BY DEF Queue
<1>2. Dest' = Dest /\ sent' = sent
  BY <1>1, CalmKeeps DEF Clk50, sourceVars
<1>3. /\ fifo \in Seq(Nat) /\ sent \in 0 .. Total
      /\ Total \in Nat /\ 2 <= Total /\ Dest \in Nat
  BY Counts, PaceNumbers, Numbers DEF IInv
<1>4. CASE CamIdle(Start, Dest)
  <2>1. cst = "IDLE" /\ addr' = Dest
    BY <1>4 DEF CamIdle
  <2>2. fifo = <<>> /\ sent \in {0, Total}
    BY <2>1 DEF Session, Quiet
  <2>3. fifo' = fifo
    BY <2>1, EdgeFacts
  <2>4. Len(fifo') = 0
    BY <2>2, <2>3
  <2>5. ASSUME NEW p \in 0 .. Total - 1, addr' = Dest' + WordBytes * p
        PROVE  Follows(p)'
    <3>1. p = 0
      BY <1>2, <1>3, <2>1, <2>5 DEF WordBytes
    <3>2. p + Len(fifo') \in {sent, sent + Total, sent - Total}
      BY <1>3, <2>2, <2>4, <3>1
    <3>3. \A i \in 1 .. Len(fifo') : fifo'[i] = Wrap(p + i - 1)
      BY <2>4
    <3>4. QED
      BY <1>2, <3>2, <3>3 DEF Follows, Wrap
  <2>6. QED
    BY <2>5 DEF Queue, Follows, Wrap
<1>5. CASE CamWaitData(Start, RdUsedW, Dest, Leng, Burst)
  <2>1. cst = "WAIT_DATA" /\ addr' = addr
    BY <1>5, WaitDataKeeps DEF CamWaitData
  <2>2. fifo' = fifo
    BY <2>1, EdgeFacts
  <2>3. QED
    BY <1>2, <2>1, <2>2, QueueRests
<1>6. CASE CamBurst(RdUsedW, waitreq, Dest, Leng, Burst) /\ waitreq
  <2>1. cst = "BURST" /\ addr' = addr
    BY <1>6 DEF CamBurst, camMasterVars
  <2>2. fifo' = fifo
    BY <1>6, EdgeFacts
  <2>3. QED
    BY <1>2, <2>1, <2>2, QueueRests
<1>7. CASE CamBurst(RdUsedW, waitreq, Dest, Leng, Burst) /\ ~waitreq
  <2>1. cst = "BURST" /\ CamBurst(RdUsedW, FALSE, Dest, Leng, Burst)
    BY <1>7 DEF CamBurst
  <2>2. addr' = IF addr = Dest + L - WordBytes THEN Dest ELSE addr + WordBytes
    BY <1>2, <2>1, BeatKeeps
  <2>3. rdUsed # 0
    <3>1. B <= rdUsed + beat /\ beat \in 0 .. B - 1 /\ B \in Nat
      BY <2>1, Counts, PaceNumbers DEF InTime
    <3>2. QED
      BY <3>1
  <2>4. fifo # <<>> /\ fifo' = Tail(fifo)
    BY <1>7, <2>1, <2>3, EdgeFacts
  <2>5. PICK p \in 0 .. Total - 1 : addr = Dest + WordBytes * p
    BY <2>1, AtPlace
  <2>6. Follows(p)
    BY <2>1, <2>5 DEF Queue, Follows
  <2>7. L = WordBytes * Total
    BY PaceNumbers
  <2>8. ASSUME NEW m \in 0 .. Total - 1, addr' = Dest' + WordBytes * m
        PROVE  Follows(m)'
    <3>1. m = IF p = Total - 1 THEN 0 ELSE p + 1
      BY <1>2, <1>3, <2>2, <2>5, <2>7, <2>8 DEF WordBytes
    <3>2. Len(fifo) <= B + MaxLag + 1
      BY DEF InTime
    <3>3. QED
      BY <1>2, <1>3, <2>4, <2>6, <3>1, <3>2, FollowsNext
  <2>9. QED
    BY <2>8 DEF Queue, Follows, Wrap
<1>8. QED
  BY <1>4, <1>5, <1>6, <1>7 DEF Clk50, CamMasterClock

\* The count of words that are out begins anew with a picture.
LEMMA OutBegins ==
  ASSUME Settings, Pace, IInv, Session, PixClk, ~GoesOn(Start, Snapshot)
  PROVE  Out \in {0, Total} /\ sent' = 0
<1>1. src = "WAIT" /\ Out % RowLen = 0 /\ sent' = 0
  BY DEF PixClk, SourceClock, PictureStarts
<1>2. sent >= Total - 1 \/ (sent = 0 /\ ~valid)
  BY <1>1 DEF Session
<1>3. sent \in 0 .. Total /\ Total \in Nat /\ (valid => sent < Total)
  BY Counts, PaceNumbers
<1>4. Out \in {0, Total - 1, Total}
  BY <1>2, <1>3 DEF Out
<1>5. Out # Total - 1
  BY <1>1, RowEnd DEF Pace
<1>6. QED
  BY <1>1, <1>4, <1>5

LEMMA QueuePixClk ==
  ASSUME Settings, Pace, PInv, InTime', PixClk
  PROVE  Queue'
<1> USE DEF PInv
<1>1. SUFFICES ASSUME cst' # "IDLE", NEW p \in 0 .. Total - 1,
                      addr' = Dest' + WordBytes * p
               PROVE  Follows(p)'
  BY DEF Queue, Follows, Wrap
<1>2. /\ cst' = cst /\ addr' = addr /\ Dest' = Dest
      /\ fifo' \in Seq(Nat) /\ Len(fifo') \in Nat
      /\ valid => fifo' = Append(fifo, sent) /\ Len(fifo') = Len(fifo) + 1
      /\ ~valid => fifo' = fifo
  BY PixelEdge
<1>3. Follows(p)
  BY <1>1, <1>2 DEF Queue, Follows
<1>4. /\ fifo \in Seq(Nat) /\ Len(fifo) \in Nat
      /\ sent \in 0 .. Total /\ (valid => sent < Total) /\ valid \in BOOLEAN
      /\ Total \in Nat /\ 2 <= Total
  BY Counts, PaceNumbers
<1>5. p + Len(fifo) \in {sent, sent + Total, sent - Total}
  BY <1>3 DEF Follows
<1>6. ASSUME NEW i \in 1 .. Len(fifo') PROVE fifo'[i] = Wrap(p + i - 1)
  <2>1. CASE ~valid
    BY <1>2, <1>3, <2>1 DEF Follows
  <2>2. CASE valid /\ i # Len(fifo) + 1
    <3>1. i \in 1 .. Len(fifo)
      BY <1>2, <1>4, <2>2
    <3>2. fifo'[i] = fifo[i]
      BY <1>2, <1>4, <2>2, <3>1, AppendKeeps
    <3>3. QED
      BY <1>3, <3>1, <3>2 DEF Follows
  <2>3. CASE valid /\ i = Len(fifo) + 1
    <3>1. fifo'[i] = sent
      BY <1>2, <1>4, <2>3
    <3>2. p + i - 1 = p + Len(fifo)
      BY <1>4, <2>3
    <3>3. Wrap(p + Len(fifo)) = sent
      <4>1. p + Len(fifo) \in {sent, sent + Total} /\ sent < Total
        BY <1>4, <1>5, <2>3
      <4>2. QED
        BY <1>4, <4>1 DEF Wrap
    <3>4. QED
      BY <3>1, <3>2, <3>3
  <2>4. QED
    BY <2>1, <2>2, <2>3
<1>7. p + Len(fifo') \in {Out, Out + Total, Out - Total} /\ Out \in Nat
  <2>1. CASE valid
    <3>1. Len(fifo') = Len(fifo) + 1 /\ Out = sent + 1
      BY <1>2, <2>1 DEF Out
    <3>2. QED
      BY <1>4, <1>5, <3>1
  <2>2. CASE ~valid
    <3>1. Len(fifo') = Len(fifo) /\ Out = sent
      BY <1>2, <2>2 DEF Out
    <3>2. QED
      BY <1>4, <1>5, <3>1
  <2>3. QED
    BY <1>4, <2>1, <2>2
<1>8. p + Len(fifo') \in {sent', sent' + Total, sent' - Total}
  <2>1. CASE GoesOn(Start, Snapshot)
    <3>1. sent' = Out
      BY <2>1 DEF GoesOn
    <3>2. QED
      BY <1>7, <3>1
  <2>2. CASE ~GoesOn(Start, Snapshot)
    <3>1. Out \in {0, Total} /\ sent' = 0
      BY <2>2, OutBegins
    <3>2. Len(fifo') <= Total
      <4>1. B + MaxLag + 1 <= Total /\ B \in Nat /\ MaxLag \in Nat
        BY PaceNumbers
      <4>2. Len(fifo') <= B + MaxLag + 1
        BY DEF InTime
      <4>3. QED
        BY <1>2, <1>4, <4>1, <4>2
    <3>3. QED
      BY <1>2, <1>4, <1>7, <3>1, <3>2
  <2>3. QED
    BY <2>1, <2>2
<1>9. \A i \in 1 .. Len(fifo') : fifo'[i] = Wrap(p + i - 1)
  BY <1>6
<1>10. QED
  BY <1>8, <1>9 DEF Follows, Wrap

LEMMA InitPace == ASSUME Settings, Pace, Init PROVE PInv
<1>1. IInv
  BY InitInv
<1>2. /\ src = "IDLE" /\ sent = 0 /\ valid = FALSE /\ cst = "IDLE" /\ beat = 0
      /\ fifo = <<>> /\ wrUsed = 0 /\ rdUsed = 0 /\ ticks = 0 /\ stall = 0
  BY DEF Init, SourceInit, CamMasterInit, FifoInit
<1>3. Len(fifo) = 0
  BY <1>2
<1>4. /\ B \in Nat /\ MaxLag \in Nat /\ 2 <= B /\ FifoDepth \in Nat
      /\ B + 2 * MaxLag + 2 <= FifoDepth
  BY PaceNumbers
<1>5. Behind <= 0 /\ Behind \in Int
  BY <1>2, <1>3, <1>4 DEF Behind
<1>6. Session
  BY <1>2 DEF Session, Quiet
<1>7. InTime
  <2>1. Len(fifo) <= rdUsed + MaxLag + 1 /\ Len(fifo) <= B + MaxLag + 1
        /\ wrUsed < FifoDepth /\ rdUsed <= B /\ Behind <= 1 /\ Behind # 1
    BY <1>2, <1>3, <1>4, <1>5
  <2>2. QED
    BY <1>2, <2>1 DEF InTime
<1>8. Queue
  BY <1>2 DEF Queue
<1>9. QED
  BY <1>1, <1>6, <1>7, <1>8 DEF PInv

LEMMA NextPace == ASSUME Settings, Pace, PInv, [Next]_vars PROVE PInv'
<1>1. IInv'
  BY NextKeeps DEF PInv
<1>2. ASSUME NEW waitreq \in BOOLEAN, Clk50(waitreq) PROVE PInv'
  BY <1>1, <1>2, SessionClk50, TimeClk50, QueueClk50 DEF PInv
<1>3. CASE PixClk
  BY <1>1, <1>3, SessionPixClk, TimePixClk, QueuePixClk DEF PInv
<1>4. CASE UNCHANGED vars
  <2>1. /\ UNCHANGED <<src, sent, valid, cst, addr, beat, creg, stat,
                       fifo, wrUsed, rdUsed, ticks, stall, base>>
    BY <1>4 DEF vars, sourceVars, camMasterVars, camSlaveVars
  <2>2. Session'
    BY <2>1 DEF PInv, Session, Quiet, Start
  <2>3. InTime'
    BY <2>1 DEF PInv, InTime, Behind, Since
  <2>4. Queue'
    BY <2>1 DEF PInv, Queue, Wrap, Dest
  <2>5. QED
    BY <1>1, <2>2, <2>3, <2>4 DEF PInv
<1>5. QED
  BY <1>2, <1>3, <1>4 DEF Next

\* The word at the head of the FIFO is the one of the master's address.
LEMMA InPlace == ASSUME Settings, Pace, PInv PROVE WordInPlace
<1> USE DEF PInv
<1>1. SUFFICES ASSUME cst = "BURST" PROVE WordInPlace
  BY DEF WordInPlace, Writing
<1>2. ~RdEmpty /\ Len(fifo) \in Nat \ {0} /\ fifo \in Seq(Nat)
  <2>1. /\ B <= rdUsed + beat /\ beat \in 0 .. B - 1 /\ B \in Nat
        /\ rdUsed \in Nat /\ Len(fifo) \in Nat /\ rdUsed <= Len(fifo)
        /\ fifo \in Seq(Nat)
    BY <1>1, Counts, PaceNumbers DEF InTime
  <2>2. rdUsed # 0 /\ Len(fifo) # 0
    BY <2>1
  <2>3. QED
    BY <2>1, <2>2 DEF RdEmpty
<1>3. PICK p \in 0 .. Total - 1 : addr = Dest + WordBytes * p
  BY <1>1, AtPlace
<1>4. Head(fifo) = p
  <2>1. fifo[1] = Wrap(p + 1 - 1)
    <3>1. 1 \in 1 .. Len(fifo)
      BY <1>2
    <3>2. QED
      BY <1>1, <1>3, <3>1 DEF Queue
  <2>2. Wrap(p + 1 - 1) = p
    BY PaceNumbers DEF Wrap
  <2>3. Head(fifo) = fifo[1]
    BY <1>2
  <2>4. QED
    BY <2>1, <2>2, <2>3
<1>5. WriteAddr = addr
  BY <1>1, InvImplies DEF BurstInBuffer, Writing
<1>6. QED
  BY <1>2, <1>3, <1>4, <1>5 DEF WordInPlace

(***************************************************************************)
(* At the pace of a memory that takes a burst in less time than the camera *)
(* takes to bring the next one: the word that is due on the bus is there,  *)
(* and it goes to its place in the buffer of patient software, picture     *)
(* after picture, whatever the lag of the FIFO and the stalls.             *)
(***************************************************************************)
THEOREM WordsInPlace == ASSUME Settings, Pace PROVE Spec => []WordInPlace
<1>1. Init => PInv
  BY InitPace
<1>2. PInv /\ [Next]_vars => PInv'
  BY NextPace
<1>3. PInv => WordInPlace
  BY InPlace
<1>4. QED
  BY <1>1, <1>2, <1>3, PTL DEF Spec

(***************************************************************************)
(* At the same pace the sampler never meets a full FIFO.                   *)
(***************************************************************************)
THEOREM NoWordLost == ASSUME Settings, Pace PROVE Spec => []NothingLost
<1>1. Init => PInv
  BY InitPace
<1>2. PInv /\ [Next]_vars => PInv'
  BY NextPace
<1>3. PInv => NothingLost
  <2>1. ASSUME InTime PROVE ~WrFull
    <3>1. wrUsed < FifoDepth
      BY <2>1 DEF InTime
    <3>2. FifoDepth \in Nat
      BY FifoAssumption
    <3>3. QED
      BY <3>1, <3>2 DEF WrFull
  <2>2. QED
    BY <2>1 DEF PInv, NothingLost
<1>4. QED
  BY <1>1, <1>2, <1>3, PTL DEF Spec
=============================================================================
