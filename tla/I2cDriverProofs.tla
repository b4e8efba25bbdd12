--------------------------- MODULE I2cDriverProofs ---------------------------
(***************************************************************************)
(* The driver of i2c.c over the core of i2c_core.vhd: no register write is *)
(* dropped by the register file, every register keeps to its type, the bus *)
(* carries the bytes of each call in order and nothing else, and a call    *)
(* returns what went over the bus.                                         *)
(*                                                                         *)
(* The last two rest on one invariant, Carry. Engine says of a command the *)
(* core works on, state by state of the core, how much of its events the   *)
(* device has heard, what the device is doing and where the lines stand;   *)
(* Between says so of the steps the driver takes from one command to the   *)
(* next; Placed says where the events of each command of a call stand in   *)
(* the message of the call; Gathered and Returned relate the bytes read    *)
(* and the result to what was heard.                                       *)
(***************************************************************************)
EXTENDS I2cDriver, TLAPS, WellFoundedInduction

\* A transfer is in progress only while the driver polls for its end, however
\* long the core takes and whatever the device does.
Polled == Tip => pc = "finish"

\* The register file by itself never begins a transfer: without a write of
\* the control word TIP can only fall.
LEMMA TipFalls ==
  ASSUME NEW a, Clock(a), a.op # "write" \/ a.adr # "CR", Tip'
  PROVE  Tip
BY DEF Clock, RegIdle, RegBusy, RegDone, Tip

\* While no transfer is in progress a control word is taken as it is.
LEMMA ControlTaken ==
  ASSUME NEW v, Clock(Write("CR", v)), ~Tip
  PROVE  cr' = v
BY DEF Clock, RegIdle, RegBusy, RegDone, Write

\* A control word without WR and RD, STOP or the interrupt enable alone, begins none.
LEMMA NoTransfer ==
  ASSUME NEW bits, "WR" \notin bits, "RD" \notin bits
  PROVE  ~Control(bits).wr /\ ~Control(bits).rd
<1>1. Control(bits).wr = ("WR" \in bits) /\ Control(bits).rd = ("RD" \in bits)
  BY DEF Control
<1> QED
  BY <1>1

\* Init and each step keep it: only WriteControl raises TIP, and it goes on
\* to the poll, which ends when TIP is down.
LEMMA PolledInvariant == Spec => []Polled
<1>1. Init => Polled
  BY NoTransfer DEF Init, BusInit, Polled, Tip
<1>2. Polled /\ [Next]_vars => Polled'
  <2> SUFFICES ASSUME Polled, [Next]_vars PROVE Polled'
    OBVIOUS
  <2> USE DEF Polled
  <2>1. CASE Tick
    BY <2>1, TipFalls DEF Tick, NoAccess, drvVars
  <2>2. CASE I2cInit
    BY <2>2, TipFalls DEF I2cInit, Write
  <2>3. CASE Call
    BY <2>3 DEF Call, regVars, Tip
  <2>4. CASE WaitEndOfTransfer
    BY <2>4, TipFalls DEF WaitEndOfTransfer, Read, PollDone
  <2>5. CASE WriteData
    BY <2>5, TipFalls DEF WriteData, Write
  <2>6. CASE WriteControl
    BY <2>6 DEF WriteControl
  <2>7. CASE CheckAck
    BY <2>7, TipFalls DEF CheckAck, Read
  <2>8. CASE GiveUp
    BY <2>8, ControlTaken, NoTransfer DEF GiveUp, Tip
  <2>9. CASE FetchByte
    BY <2>9, TipFalls DEF FetchByte, Read
  <2>10. CASE ConfigureStop
    BY <2>10, ControlTaken, NoTransfer DEF ConfigureStop, Tip
  <2>11. CASE ConfigureIrq
    <3> DEFINE bits == IF call.irq THEN {"IEN"} ELSE {}
    <3>1. CASE Tip
      BY <3>1, <2>11 DEF ConfigureIrq
    <3>2. CASE ~Tip
      <4>1. cr' = Control(bits)
        BY <3>2, <2>11, ControlTaken DEF ConfigureIrq
      <4> QED
        BY <4>1, NoTransfer DEF Tip
    <3> QED
      BY <3>1, <3>2
  <2>12. CASE UNCHANGED vars
    BY <2>12 DEF vars, busVars, regVars, drvVars, Tip
  <2> QED
    BY <2>1, <2>2, <2>3, <2>4, <2>5, <2>6, <2>7, <2>8, <2>9, <2>10, <2>11, <2>12 DEF Next, Driver
<1> QED
  BY <1>1, <1>2, PTL DEF Spec

\* No register write of any program of calls is dropped by the register file
\* (i2c_interface.vhd:291), for every byte width, clock divisor, device and program.
THEOREM WritesTaken == Spec => []NoWriteLost
<1>1. Polled => NoWriteLost
  BY DEF Polled, NoWriteLost
<1> QED
  BY <1>1, PolledInvariant, PTL
-----------------------------------------------------------------------------
(* Types                                                                   *)

Controls == [wr : BOOLEAN, rd : BOOLEAN, sta : BOOLEAN, stp : BOOLEAN, ack : BOOLEAN,
             ien : BOOLEAN]
Modes == {"off", "recv", "ack", "send", "wait", "more"}
Devices == [mode : Modes, n : 0..LastBit + 1, byte : Byte, drive : Bit, addr : BOOLEAN]
Errors == {"none", "ENODEV", "EBADACK"}

\* The commands of a script: only a byte to be written is one.
ScriptCommands ==
  {k \in [byte : Byte \cup {ANY}, ctl : Controls, err : Errors] : k.ctl.wr => k.byte \in Byte}

LinesTyped == {ackOut, sclOut, sdaOut, sclIn, sdaIn} \subseteq Bit

ClockTyped == /\ clkdiv \in {ResetDiv, ClkCnt} /\ clkCtr \in (0..ResetDiv) \cup (0..ClkCnt)
              /\ {cmdDone, sclk, ipe, cmdDoneAck} \subseteq BOOLEAN

\* A device that has a whole byte saw the clock line high.
DevTyped == /\ dev \in Devices /\ seen \in Bit \X Bit
            /\ dev.mode = "recv" /\ dev.n = LastBit + 1 => seen[1] = 1

BusTyped == /\ ctr \in 0..LastBit /\ dout \in Byte /\ dr \in Byte /\ cr \in Controls
            /\ LinesTyped /\ ClockTyped /\ DevTyped

\* The driver is at a command of its script, and at a byte to be written when
\* it writes the data register.
InScript == pc \in {"wait", "data", "control", "finish", "status", "error", "fetch"}

DrvTyped ==
  /\ pc \in {"init", "idle", "wait", "data", "control", "finish", "status", "error", "fetch",
             "configure", "config"}
  /\ result \in Errors \cup {"SUCCESS"} /\ got \in Seq(Byte)
  /\ calls \in Seq(Calls) /\ word[1] \in Byte /\ word[2] \in Byte
  /\ Script(call) \in Seq(ScriptCommands)
  /\ InScript => pos \in 1..Len(Script(call))
  /\ pc = "data" => Command1.ctl.wr

\* A control word has its bits and no others.
LEMMA ControlType ==
  ASSUME NEW bits
  PROVE  /\ Control(bits) \in Controls
         /\ Control(bits).wr <=> "WR" \in bits
<1>1. ("WR" \in bits) \in BOOLEAN /\ ("RD" \in bits) \in BOOLEAN
      /\ ("STA" \in bits) \in BOOLEAN /\ ("STP" \in bits) \in BOOLEAN
      /\ ("ACK" \in bits) \in BOOLEAN /\ ("IEN" \in bits) \in BOOLEAN
  OBVIOUS
<1>2. Control(bits) \in Controls
  BY <1>1, Zenon DEF Control, Controls
<1>3. Control(bits).wr = ("WR" \in bits)
  BY DEF Control
<1>4. QED
  BY <1>2, <1>3

\* A finite function from 1 is a sequence.
LEMMA IsSequence ==
  ASSUME NEW S, NEW n \in Nat, NEW f \in [1..n -> S]
  PROVE  f \in Seq(S) /\ Len(f) = n
OBVIOUS

\* Two sequences one after the other.
LEMMA ConcatType ==
  ASSUME NEW S, NEW s \in Seq(S), NEW t \in Seq(S)
  PROVE  s \o t \in Seq(S) /\ Len(s \o t) = Len(s) + Len(t)
OBVIOUS

\* The bytes of an address with the direction bit.
LEMMA DirectionByte == ASSUME NEW b \in Byte PROVE ToWrite(b) \in Byte /\ ToRead(b) \in Byte
BY BusAssumption DEF Byte, Bit, ToWrite, ToRead

\* A command that writes a byte, and one that reads one.
LEMMA WriteCommand1 ==
  ASSUME NEW b \in Byte, NEW bits, NEW err \in Errors
  PROVE  Cmd(b, bits, err) \in ScriptCommands
BY ControlType DEF Cmd, ScriptCommands

LEMMA ReadCommand1 ==
  ASSUME NEW bits, "WR" \notin bits, NEW err \in Errors
  PROVE  Cmd(ANY, bits, err) \in ScriptCommands
BY ControlType DEF Cmd, ScriptCommands

\* The script of a call is one of commands, the two of the address first.
LEMMA ScriptType ==
  ASSUME NEW c, \/ /\ c.op = "write" /\ c.device \in Byte /\ c.index \in Byte
                   /\ c.data \in Seq(Byte)
                \/ /\ c.op = "read" /\ c.device \in Byte /\ c.index \in Byte
                   /\ c.size \in Nat
                \/ c.op = "configure"
  PROVE  /\ Script(c) \in Seq(ScriptCommands)
         /\ c.op # "configure" => Len(Script(c)) >= 2
<1> DEFINE address == <<Cmd(ToWrite(c.device), {"STA", "WR"}, "ENODEV"),
                        Cmd(c.index, {"WR"}, "EBADACK")>>
           turn == <<Cmd(ToRead(c.device), {"STA", "WR"}, "ENODEV")>>
<1>1. /\ c.op = "write" => Script(c) = address \o WriteBytes(c.data)
      /\ c.op = "read" => Script(c) = address \o turn \o ReadBytes(c.size)
      /\ c.op = "configure" => Script(c) = <<>>
  BY DEF Script
<1>2. ASSUME c.device \in Byte, c.index \in Byte
      PROVE  /\ address \in Seq(ScriptCommands) /\ Len(address) = 2
             /\ turn \in Seq(ScriptCommands) /\ Len(turn) = 1
  <2>1. "ENODEV" \in Errors /\ "EBADACK" \in Errors
    BY DEF Errors
  <2>2. /\ Cmd(ToWrite(c.device), {"STA", "WR"}, "ENODEV") \in ScriptCommands
        /\ Cmd(c.index, {"WR"}, "EBADACK") \in ScriptCommands
        /\ Cmd(ToRead(c.device), {"STA", "WR"}, "ENODEV") \in ScriptCommands
    BY <1>2, <2>1, DirectionByte, WriteCommand1
  <2>3. QED
    BY <2>2
<1>3. CASE c.op = "write"
  <2>1. c.device \in Byte /\ c.index \in Byte /\ c.data \in Seq(Byte)
    BY <1>3
  <2>2. WriteBytes(c.data) \in Seq(ScriptCommands)
    <3> DEFINE d == c.data
    <3>1. Len(d) \in Nat /\ \A i \in 1..Len(d) : d[i] \in Byte
      BY <2>1
    <3> HIDE DEF d
    <3>2. "EBADACK" \in Errors
      BY DEF Errors
    <3>3. \A i \in 1..Len(d) :
            Cmd(d[i], IF i < Len(d) THEN {"WR"} ELSE {"STP", "WR"}, "EBADACK")
              \in ScriptCommands
      BY <3>1, <3>2, WriteCommand1
    <3>4. WriteBytes(d) \in [1..Len(d) -> ScriptCommands]
      BY <3>3 DEF WriteBytes
    <3>5. QED
      BY <3>1, <3>4, IsSequence DEF d
  <2>3. QED
    <3> HIDE DEF address
    <3> DEFINE w == WriteBytes(c.data)
    <3>1. w \in Seq(ScriptCommands) /\ address \in Seq(ScriptCommands) /\ Len(address) = 2
      BY <1>2, <2>1, <2>2
    <3>2. Script(c) = address \o w
      BY <1>1, <1>3
    <3> HIDE DEF w
    <3>3. address \o w \in Seq(ScriptCommands) /\ Len(address \o w) = Len(address) + Len(w)
      BY <3>1, ConcatType, Zenon
    <3>4. Len(w) \in Nat
      BY <3>1
    <3>5. Len(Script(c)) = 2 + Len(w)
      BY <3>1, <3>2, <3>3, Zenon
    <3>6. Len(Script(c)) >= 2
      BY <3>4, <3>5
    <3>7. QED
      BY <3>2, <3>3, <3>6, Zenon
<1>4. CASE c.op = "read"
  <2>1. c.device \in Byte /\ c.index \in Byte /\ c.size \in Nat
    BY <1>4
  <2>2. ReadBytes(c.size) \in Seq(ScriptCommands)
    <3> DEFINE n == c.size
    <3>1. n \in Nat
      BY <2>1
    <3> HIDE DEF n
    <3>2. "none" \in Errors
      BY DEF Errors
    <3>3. \A i \in 1..n :
            Cmd(ANY, IF i < n THEN {"RD"} ELSE {"STP", "RD", "ACK"}, "none")
              \in ScriptCommands
      BY <3>2, ReadCommand1
    <3>4. ReadBytes(n) \in [1..n -> ScriptCommands]
      BY <3>3 DEF ReadBytes
    <3>5. QED
      BY <3>1, <3>4, IsSequence DEF n
  <2>3. QED
    <3> HIDE DEF address, turn
    <3> DEFINE t == address \o turn
               r == ReadBytes(c.size)
    <3>1. /\ r \in Seq(ScriptCommands)
          /\ address \in Seq(ScriptCommands) /\ Len(address) = 2
          /\ turn \in Seq(ScriptCommands) /\ Len(turn) = 1
      BY <1>2, <2>1, <2>2
    <3>2. Script(c) = t \o r
      BY <1>1, <1>4
    <3> HIDE DEF r
    <3>3. t \in Seq(ScriptCommands) /\ Len(t) = Len(address) + Len(turn)
      BY <3>1, ConcatType, Zenon
    <3> HIDE DEF t
    <3>4. t \o r \in Seq(ScriptCommands) /\ Len(t \o r) = Len(t) + Len(r)
      BY <3>1, <3>3, ConcatType, Zenon
    <3>5. Len(r) \in Nat /\ Len(t) = 3
      BY <3>1, <3>3
    <3>6. Len(Script(c)) = 3 + Len(r)
      BY <3>2, <3>4, <3>5, Zenon
    <3>7. Len(Script(c)) >= 2
      BY <3>5, <3>6
    <3>8. QED
      BY <3>2, <3>4, <3>7, Zenon
<1>5. CASE c.op = "configure"
  BY <1>1, <1>5
<1>6. QED
  BY <1>3, <1>4, <1>5

\* The lines are at one of two levels.
LEMMA LineLevels ==
  ASSUME LinesTyped, DevTyped
  PROVE  Scl \in Bit /\ Sda \in Bit /\ sclIn \in Bit /\ sdaIn \in Bit /\ ackOut \in Bit
<1>1. dev.drive \in Bit
  BY DEF DevTyped, Devices
<1>2. sclOut \in Bit /\ sdaOut \in Bit /\ sclIn \in Bit /\ sdaIn \in Bit /\ ackOut \in Bit
  BY DEF LinesTyped
<1>3. sdaOut * dev.drive \in Bit
  BY <1>1, <1>2 DEF Bit
<1>4. QED
  BY <1>2, <1>3 DEF Scl, Sda

\* The core keeps its bit counter in the byte and its lines at a level.
LEMMA CoreType ==
  ASSUME BusTyped, Core
  PROVE  /\ ctr' \in 0..LastBit /\ dout' \in Byte /\ LinesTyped'
         /\ cmdDone' \in BOOLEAN
<1>1. LastBit \in Nat \ {0} /\ ctr \in 0..LastBit /\ dout \in Byte /\ dr \in Byte
  BY BusAssumption DEF BusTyped
<1>2. Scl \in Bit /\ Sda \in Bit /\ sclIn \in Bit /\ sdaIn \in Bit /\ ackOut \in Bit
  BY LineLevels DEF BusTyped
<1>3. ctr' \in 0..LastBit
  <2>1. (ctr + 1) % (LastBit + 1) \in 0..LastBit
    BY <1>1
  <2>2. Counting \in 0..LastBit
    BY <1>1, <2>1 DEF Counting
  <2>3. QED
    BY <1>1, <2>2 DEF Core, BitCounter
<1>4. dout' \in Byte
  BY <1>1, <1>2 DEF Core, Byte
<1>5. ackOut' \in Bit /\ sclIn' \in Bit /\ sdaIn' \in Bit
  BY <1>2 DEF Core
<1>6. 0 \in Bit /\ 1 \in Bit
  BY DEF Bit
<1>7. sclOut' \in Bit
  BY <1>2, <1>6 DEF Core, SclLevel
<1>8. sdaOut' \in Bit
  <2>1. dr[ctr] \in Bit
    BY <1>1 DEF Byte
  <2>2. SdaLevel \in Bit
    BY <1>2, <1>6, <2>1 DEF SdaLevel
  <2>3. QED
    BY <2>2 DEF Core
<1>9. cmdDone' \in BOOLEAN
  BY DEF Core
<1>10. QED
  BY <1>3, <1>4, <1>5, <1>7, <1>8, <1>9 DEF LinesTyped

\* The clock divider never counts past the greater of the divisors it is given.
LEMMA ClkGenType ==
  ASSUME ClockTyped, ClkGen
  PROVE  clkCtr' \in (0..ResetDiv) \cup (0..ClkCnt) /\ sclk' \in BOOLEAN
<1>1. ClkCnt \in Nat /\ ResetDiv \in Nat /\ clkdiv \in {ResetDiv, ClkCnt}
      /\ clkCtr \in (0..ResetDiv) \cup (0..ClkCnt)
  BY BusAssumption DEF ClockTyped
<1>2. clkCtr' = IF clkCtr >= clkdiv THEN 0 ELSE clkCtr + 1
  BY DEF ClkGen
<1>0. sclk' \in BOOLEAN
  BY DEF ClkGen
<1>3. CASE clkCtr >= clkdiv
  <2>1. clkCtr' = 0 /\ 0 \in 0..ClkCnt
    BY <1>1, <1>2, <1>3
  <2>2. QED
    BY <1>0, <2>1
<1>4. CASE ~(clkCtr >= clkdiv)
  <2>1. clkCtr \in Nat /\ clkCtr' = clkCtr + 1 /\ clkCtr' <= clkdiv
    BY <1>1, <1>2, <1>4
  <2>2. clkCtr' \in (0..ResetDiv) \cup (0..ClkCnt)
    BY <1>1, <2>1
  <2>3. QED
    BY <1>0, <2>2
<1>5. QED
  BY <1>3, <1>4

\* The device as it begins to listen.
LEMMA ListenType ==
  ASSUME NEW first \in BOOLEAN
  PROVE  Off \in Devices /\ Listen(first) \in Devices /\ Listen(first).n = 0
         /\ Off.mode = "off"
<1>1. LastBit \in Nat \ {0}
  BY BusAssumption
<1>2. [i \in 0..LastBit |-> 0] \in Byte
  BY DEF Byte, Bit
<1>3. 0 \in 0..LastBit + 1 /\ 1 \in Bit /\ "off" \in Modes /\ "recv" \in Modes
  BY <1>1 DEF Bit, Modes
<1>4. Off \in Devices
  BY <1>2, <1>3 DEF Off, Devices
<1>5. Off.n = 0 /\ Off.mode = "off"
  BY DEF Off
<1>6. Listen(first) \in Devices /\ Listen(first).n = Off.n
  BY <1>3, <1>4 DEF Devices, Listen
<1>7. QED
  BY <1>4, <1>5, <1>6

\* So it is as it begins to send a byte.
LEMMA SendType == ASSUME NEW b \in Byte PROVE Send(b) \in Devices /\ Send(b).mode = "send"
<1>1. LastBit \in Nat \ {0}
  BY BusAssumption
<1>2. b[0] \in Bit /\ 1 \in 0..LastBit + 1 /\ "send" \in Modes
  BY <1>1 DEF Byte, Modes
<1>3. Off \in Devices
  BY ListenType
<1>4. QED
  BY <1>2, <1>3 DEF Devices, Send

\* The device takes no more bits than a byte has.
LEMMA DeviceType ==
  ASSUME LinesTyped, DevTyped, Device
  PROVE  DevTyped'
<1>1. /\ dev \in Devices /\ seen \in Bit \X Bit /\ LastBit \in Nat \ {0}
      /\ dev.mode = "recv" /\ dev.n = LastBit + 1 => seen[1] = 1
  BY BusAssumption DEF DevTyped
<1>2. Scl \in Bit /\ Sda \in Bit /\ seen' = <<Scl, Sda>>
  BY LineLevels DEF Device
<1>3. seen' \in Bit \X Bit /\ seen'[1] = Scl
  BY <1>2
<1>4. /\ dev.mode \in Modes /\ dev.n \in 0..LastBit + 1 /\ dev.byte \in Byte
      /\ dev.drive \in Bit /\ dev.addr \in BOOLEAN
  BY <1>1 DEF Devices
<1> DEFINE Good == dev' \in Devices
                   /\ (dev'.mode = "recv" /\ dev'.n = LastBit + 1 => Scl = 1)
<1>5. SUFFICES Good
  BY <1>3 DEF DevTyped
<1>6. ASSUME dev' = Off PROVE Good
  BY <1>6, ListenType
<1>7. ASSUME NEW first \in BOOLEAN, dev' = Listen(first) PROVE Good
  BY <1>1, <1>7, ListenType
<1>8. ASSUME NEW b \in Byte, dev' = Send(b) PROVE Good
  BY <1>8, SendType
<1>9. CASE DevStart
  BY <1>7, <1>9 DEF DevStart
<1>10. CASE DevStop
  BY <1>6, <1>10 DEF DevStop
<1>11. CASE DevTakeBit
  <2>1. seen[1] = 0 /\ Scl = 1 /\ dev.mode = "recv"
    BY <1>11 DEF DevTakeBit, Rising
  <2>2. dev.n \in 0..LastBit
    BY <1>1, <1>4, <2>1
  <2>3. dev' = [dev EXCEPT !.byte[dev.n] = Sda, !.n = dev.n + 1]
    BY <1>11 DEF DevTakeBit
  <2>4. dev.n + 1 \in 0..LastBit + 1 /\ [dev.byte EXCEPT ![dev.n] = Sda] \in Byte
    BY <1>1, <1>2, <1>4, <2>2 DEF Byte
  <2>5. dev' \in Devices
    BY <1>1, <2>3, <2>4 DEF Devices
  <2>6. QED
    BY <2>1, <2>5
<1>12. CASE DevAck
  <2>1. dev' = [dev EXCEPT !.mode = "ack", !.drive = 0] \/ dev' = Off
    BY <1>12 DEF DevAck
  <2>2. ASSUME dev' = [dev EXCEPT !.mode = "ack", !.drive = 0] PROVE Good
    BY <1>1, <2>2 DEF Devices, Modes, Bit
  <2>3. QED
    BY <1>6, <2>1, <2>2
<1>13. CASE DevAckEnd
  BY <1>7, <1>8, <1>13 DEF DevAckEnd
<1>14. CASE DevSendBit
  <2>1. CASE dev.n <= LastBit
    <3>1. dev' = [dev EXCEPT !.n = dev.n + 1, !.drive = dev.byte[dev.n]] /\ dev.mode = "send"
      BY <1>14, <2>1 DEF DevSendBit
    <3>2. dev.n + 1 \in 0..LastBit + 1 /\ dev.byte[dev.n] \in Bit
      BY <1>1, <1>4, <2>1 DEF Byte
    <3>3. dev' \in Devices /\ dev'.mode = "send"
      BY <1>1, <3>1, <3>2 DEF Devices
    <3>4. QED
      BY <3>3
  <2>2. CASE ~(dev.n <= LastBit)
    <3>1. dev' = [dev EXCEPT !.mode = "wait", !.drive = 1]
      BY <1>14, <2>2 DEF DevSendBit
    <3>2. dev' \in Devices /\ dev'.mode = "wait"
      BY <1>1, <3>1 DEF Devices, Modes, Bit
    <3>3. QED
      BY <3>2
  <2>3. QED
    BY <2>1, <2>2
<1>15. CASE DevMasterAck
  <2>1. dev' = [dev EXCEPT !.mode = "more"] \/ dev' = Off
    BY <1>15 DEF DevMasterAck
  <2>2. ASSUME dev' = [dev EXCEPT !.mode = "more"] PROVE Good
    BY <1>1, <2>2 DEF Devices, Modes
  <2>3. QED
    BY <1>6, <2>1, <2>2
<1>16. CASE DevSendMore
  BY <1>8, <1>16 DEF DevSendMore
<1>17. CASE DevQuiet
  <2>1. dev' = dev
    BY <1>17 DEF DevQuiet
  <2>2. ASSUME dev.mode = "recv", dev.n = LastBit + 1 PROVE Scl = 1
    <3>1. seen[1] = 1
      BY <1>1, <2>2
    <3>2. ~(dev.n <= LastBit)
      BY <1>1, <2>2
    <3>3. seen = <<Scl, Sda>> \/ Scl = 1
      BY <1>2, <1>17, <2>2, <3>1, <3>2 DEF DevQuiet, Falling, Bit
    <3>4. QED
      BY <3>1, <3>3
  <2>3. QED
    BY <1>1, <2>1, <2>2
<1>18. QED
  BY <1>9, <1>10, <1>11, <1>12, <1>13, <1>14, <1>15, <1>16, <1>17 DEF Device

\* An access the driver makes.
Proper(a) ==
  a.op = "write" => /\ a.adr = "DR" => a.val \in Byte
                    /\ a.adr = "CR" => a.val \in Controls
                    /\ a.adr = "CD" => a.val = ClkCnt

\* An edge keeps the types of the core, the registers and the device.
LEMMA ClockType ==
  ASSUME BusTyped, NEW a, Proper(a), Clock(a)
  PROVE  BusTyped'
<1>1. ctr' \in 0..LastBit /\ dout' \in Byte /\ LinesTyped' /\ cmdDone' \in BOOLEAN
  BY CoreType DEF Clock
<1>2. clkCtr' \in (0..ResetDiv) \cup (0..ClkCnt) /\ sclk' \in BOOLEAN
  BY ClkGenType DEF Clock, BusTyped
<1>3. DevTyped'
  BY DeviceType DEF Clock, BusTyped
<1>4. dr \in Byte /\ cr \in Controls /\ clkdiv \in {ResetDiv, ClkCnt} /\ ipe \in BOOLEAN
  BY DEF BusTyped, ClockTyped
<1>5. /\ dr' \in Byte /\ cr' \in Controls /\ clkdiv' \in {ResetDiv, ClkCnt}
      /\ ipe' \in BOOLEAN /\ cmdDoneAck' \in BOOLEAN
  <2>1. CASE RegIdle(a)
    <3>1. dr' \in Byte
      BY <1>4, <2>1 DEF RegIdle, Proper
    <3>2. cr' \in Controls
      BY <1>4, <2>1 DEF RegIdle, Proper
    <3>3. clkdiv' \in {ResetDiv, ClkCnt}
      BY <1>4, <2>1 DEF RegIdle, Proper
    <3>4. ipe' \in BOOLEAN /\ cmdDoneAck' \in BOOLEAN
      BY <2>1 DEF RegIdle
    <3>5. QED
      BY <3>1, <3>2, <3>3, <3>4
  <2>2. CASE RegBusy
    BY <1>4, <2>2 DEF RegBusy
  <2>3. CASE RegDone
    BY <1>4, <2>3 DEF RegDone, Controls
  <2>4. QED
    BY <2>1, <2>2, <2>3 DEF Clock
<1>6. QED
  BY <1>1, <1>2, <1>3, <1>5 DEF BusTyped, ClockTyped

\* The accesses the driver makes are proper ones.
LEMMA Accesses ==
  /\ Proper(NoAccess) /\ \A a : Proper(Read(a))
  /\ \A v \in Byte : Proper(Write("DR", v))
  /\ \A bits : Proper(Write("CR", Control(bits)))
  /\ \A v \in Controls : Proper(Write("CR", v))
  /\ Proper(Write("CD", ClkCnt))
BY ControlType DEF Proper, NoAccess, Read, Write

\* A command of the driver's script.
LEMMA Command1Type ==
  ASSUME DrvTyped, InScript
  PROVE  /\ Command1.ctl \in Controls /\ Command1.err \in Errors
         /\ Command1.ctl.wr => Command1.byte \in Byte
         /\ Command1.ctl.wr \in BOOLEAN
<1>1. Command1 \in ScriptCommands
  BY DEF DrvTyped, Command1
<1>2. QED
  BY <1>1 DEF ScriptCommands, Controls

\* A new call of the program has a script of its own.
LEMMA CallType ==
  ASSUME DrvTyped, Call
  PROVE  DrvTyped'
<1> DEFINE c == Head(calls)
<1>1. /\ pc = "idle" /\ calls # <<>>
      /\ call' = IF c.op = "write" /\ c.data = "word|1"
                 THEN [c EXCEPT !.data = <<word[1], ToRead(word[2])>>] ELSE c
      /\ pc' = IF c.op = "configure" THEN "configure" ELSE "wait"
      /\ calls' = Tail(calls) /\ pos' = 1 /\ got' = <<>> /\ result' = "none" /\ word' = word
  BY DEF Call
<1>2. c \in Calls /\ calls' \in Seq(Calls)
  BY <1>1 DEF DrvTyped
<1> HIDE DEF c
<1>3. \/ /\ call'.op = "write" /\ call'.device \in Byte /\ call'.index \in Byte
         /\ call'.data \in Seq(Byte)
      \/ /\ call'.op = "read" /\ call'.device \in Byte /\ call'.index \in Byte
         /\ call'.size \in Nat
      \/ call'.op = "configure"
  <2>1. CASE c.op = "write" /\ c.data = "word|1"
    <3>1. c.device \in Byte /\ c.index \in Byte
          /\ c \in [op : {"write"}, device : Byte, index : Byte,
                    data : {"word|1"} \cup Seq(Byte)]
      BY <1>2, <2>1 DEF Calls
    <3>2. <<word[1], ToRead(word[2])>> \in Seq(Byte)
      <4>1. word[1] \in Byte /\ ToRead(word[2]) \in Byte
        BY DirectionByte DEF DrvTyped
      <4>2. QED
        BY <4>1
    <3>3. call' = [c EXCEPT !.data = <<word[1], ToRead(word[2])>>]
      BY <1>1, <2>1
    <3>4. /\ call'.op = c.op /\ call'.device = c.device /\ call'.index = c.index
          /\ call'.data = <<word[1], ToRead(word[2])>>
      BY <3>1, <3>3
    <3>5. QED
      BY <2>1, <3>1, <3>2, <3>4
  <2>2. CASE ~(c.op = "write" /\ c.data = "word|1")
    <3>1. call' = c
      BY <1>1, <2>2
    <3>2. \/ c \in [op : {"write"}, device : Byte, index : Byte,
                    data : {"word|1"} \cup Seq(Byte)]
          \/ c \in [op : {"read"}, device : Byte, index : Byte, size : Nat]
          \/ c \in [op : {"configure"}, irq : BOOLEAN]
      BY <1>2 DEF Calls
    <3>3. QED
      BY <2>2, <3>1, <3>2
  <2>3. QED
    BY <2>1, <2>2
<1>4. /\ Script(call') \in Seq(ScriptCommands)
      /\ call'.op # "configure" => Len(Script(call')) >= 2
  BY <1>3, ScriptType
<1>5. call'.op = c.op
  <2>1. CASE c.op = "write" /\ c.data = "word|1"
    <3>1. call' = [c EXCEPT !.data = <<word[1], ToRead(word[2])>>]
          /\ c \in [op : {"write"}, device : Byte, index : Byte,
                    data : {"word|1"} \cup Seq(Byte)]
      BY <1>1, <1>2, <2>1 DEF Calls
    <3>2. QED
      BY <3>1
  <2>2. QED
    BY <1>1, <2>1
<1>6. InScript' => pos' \in 1..Len(Script(call'))
  <2>1. SUFFICES ASSUME InScript' PROVE 1 \in 1..Len(Script(call'))
    BY <1>1
  <2>2. call'.op # "configure"
    BY <1>1, <1>5, <2>1 DEF InScript
  <2>3. Len(Script(call')) \in Nat /\ Len(Script(call')) >= 2
    BY <1>4, <2>2
  <2>4. QED
    BY <2>3
<1>7. got' \in Seq(Byte)
  BY <1>1
<1>8. pc' \in {"configure", "wait"} /\ result' \in Errors
  BY <1>1 DEF Errors
<1>9. QED
  BY <1>1, <1>2, <1>4, <1>6, <1>7, <1>8 DEF DrvTyped

\* A script that stays where it is.
LEMMA SameScript ==
  ASSUME call' = call, Script(call) \in Seq(ScriptCommands)
  PROVE  Script(call)' = Script(call) /\ Script(call') \in Seq(ScriptCommands)
<1>1. Script(call') = Script(call)
  OBVIOUS
<1>2. QED
  BY <1>1

\* Going on to the next command, or out of the call, keeps the driver in its script.
LEMMA AdvanceType ==
  ASSUME DrvTyped, InScript, NEW bytes \in Seq(Byte), Advance(bytes),
         call' = call, calls' = calls
  PROVE  DrvTyped'
<1>1. /\ got' = bytes /\ pos \in 1..Len(Script(call))
      /\ Script(call) \in Seq(ScriptCommands) /\ Len(Script(call)) \in Nat
      /\ Script(call') = Script(call)
  BY DEF Advance, DrvTyped
<1>2. CASE pos < Len(Script(call))
  <2>1. pc' = "wait" /\ pos' = pos + 1 /\ result' = result /\ word' = word
    BY <1>2 DEF Advance
  <2>2. pos + 1 \in 1..Len(Script(call))
    BY <1>1, <1>2
  <2>3. QED
    BY <1>1, <2>1, <2>2 DEF DrvTyped
<1>3. CASE ~(pos < Len(Script(call)))
  <2>1. /\ pc' = "idle" /\ result' = "SUCCESS"
        /\ word' = IF Len(bytes) = 2 THEN bytes ELSE word
    BY <1>3 DEF Advance
  <2>2. word'[1] \in Byte /\ word'[2] \in Byte
    BY <2>1 DEF DrvTyped
  <2>3. ~InScript' /\ pc' # "data"
    BY <2>1 DEF InScript
  <2>4. QED
    BY <1>1, <2>1, <2>2, <2>3 DEF DrvTyped
<1>4. QED
  BY <1>2, <1>3

\* The steps that stay in their script.
LEMMA StepsOn ==
  ASSUME DrvTyped, call' = call, calls' = calls, pos' = pos, got' = got, word' = word,
         result' \in Errors \cup {"SUCCESS"},
         pc' \in {"init", "idle", "wait", "data", "control", "finish", "status", "error",
                  "fetch", "configure", "config"},
         InScript' => InScript, pc' = "data" => Command1.ctl.wr
  PROVE  DrvTyped'
<1>1. Script(call') = Script(call) /\ Command1' = Command1
  BY DEF Command1
<1>2. QED
  BY <1>1 DEF DrvTyped

\* Each step keeps the types.
LEMMA DrvStep ==
  ASSUME BusTyped, DrvTyped, [Next]_vars
  PROVE  BusTyped' /\ DrvTyped'
<1>1. result \in Errors \cup {"SUCCESS"}
  BY DEF DrvTyped
<1>2. CASE Tick
  <2>1. UNCHANGED drvVars /\ Clock(NoAccess)
    BY <1>2 DEF Tick
  <2>2. BusTyped'
    BY <2>1, ClockType, Accesses
  <2>3. DrvTyped'
    BY <2>1, StepsOn DEF drvVars, DrvTyped, InScript, Command1
  <2>4. QED
    BY <2>2, <2>3
<1>3. CASE I2cInit
  <2>1. BusTyped'
    BY <1>3, ClockType, Accesses DEF I2cInit
  <2>2. DrvTyped'
    BY <1>1, <1>3, StepsOn DEF I2cInit, InScript
  <2>3. QED
    BY <2>1, <2>2
<1>4. CASE Call
  <2>1. BusTyped'
    BY <1>4 DEF Call, coreVars, regVars, BusTyped, LinesTyped, ClockTyped, DevTyped
  <2>2. QED
    BY <1>4, <2>1, CallType
<1>5. CASE WaitEndOfTransfer
  <2>1. BusTyped'
    BY <1>5, ClockType, Accesses DEF WaitEndOfTransfer
  <2>2. InScript
    BY <1>5 DEF WaitEndOfTransfer, InScript
  <2>3. /\ UNCHANGED <<calls, call, pos, result, got, word>>
        /\ pc' \in {"wait", "finish", "data", "control", "status", "fetch"}
        /\ pc' = "data" => Command1.ctl.wr
    BY <1>5 DEF WaitEndOfTransfer
  <2>4. DrvTyped'
    BY <1>1, <2>2, <2>3, StepsOn
  <2>5. QED
    BY <2>1, <2>4
<1>6. CASE WriteData
  <2>1. pc = "data" /\ InScript /\ Clock(Write("DR", Command1.byte))
    BY <1>6 DEF WriteData, InScript
  <2>2. Command1.byte \in Byte
    BY <2>1, Command1Type DEF DrvTyped
  <2>3. BusTyped'
    BY <2>1, <2>2, ClockType, Accesses
  <2>4. DrvTyped'
    BY <1>1, <1>6, <2>1, StepsOn DEF WriteData
  <2>5. QED
    BY <2>3, <2>4
<1>7. CASE WriteControl
  <2>1. InScript /\ Clock(Write("CR", Command1.ctl))
    BY <1>7 DEF WriteControl, InScript
  <2>2. Command1.ctl \in Controls
    BY <2>1, Command1Type
  <2>3. BusTyped'
    BY <2>1, <2>2, ClockType, Accesses
  <2>4. DrvTyped'
    BY <1>1, <1>7, <2>1, StepsOn DEF WriteControl
  <2>5. QED
    BY <2>3, <2>4
<1>8. CASE CheckAck
  <2>1. InScript /\ Clock(Read("SR")) /\ call' = call /\ calls' = calls
    BY <1>8 DEF CheckAck, InScript
  <2>2. BusTyped'
    BY <2>1, ClockType, Accesses
  <2>3. CASE Advance(got)
    BY <2>1, <2>2, <2>3, AdvanceType DEF DrvTyped
  <2>4. CASE pc' = "error" /\ UNCHANGED <<pos, got, result, word>>
    <3>1. DrvTyped'
      BY <1>1, <2>1, <2>4, StepsOn
    <3>2. QED
      BY <2>2, <3>1
  <2>5. QED
    BY <1>8, <2>3, <2>4 DEF CheckAck
<1>9. CASE GiveUp
  <2>1. InScript /\ Clock(Write("CR", Control({"STP"})))
    BY <1>9 DEF GiveUp, InScript
  <2>2. BusTyped'
    BY <2>1, ClockType, Accesses
  <2>3. Command1.err \in Errors
    BY <2>1, Command1Type
  <2>4. DrvTyped'
    BY <1>9, <2>1, <2>3, StepsOn DEF GiveUp
  <2>5. QED
    BY <2>2, <2>4
<1>10. CASE FetchByte
  <2>1. /\ InScript /\ Clock(Read("DR")) /\ call' = call /\ calls' = calls
        /\ Advance(Append(got, dout))
    BY <1>10 DEF FetchByte, InScript
  <2>2. BusTyped'
    BY <2>1, ClockType, Accesses
  <2>3. Append(got, dout) \in Seq(Byte)
    BY DEF DrvTyped, BusTyped
  <2>4. QED
    BY <2>1, <2>2, <2>3, AdvanceType
<1>11. CASE ConfigureStop
  <2>1. BusTyped'
    BY <1>11, ClockType, Accesses DEF ConfigureStop
  <2>2. DrvTyped'
    BY <1>1, <1>11, StepsOn DEF ConfigureStop, InScript
  <2>3. QED
    BY <2>1, <2>2
<1>12. CASE ConfigureIrq
  <2>1. BusTyped'
    BY <1>12, ClockType, Accesses DEF ConfigureIrq
  <2>2. DrvTyped'
    BY <1>1, <1>12, StepsOn DEF ConfigureIrq, InScript
  <2>3. QED
    BY <2>1, <2>2
<1>13. CASE UNCHANGED vars
  <2>1. BusTyped'
    BY <1>13 DEF vars, busVars, coreVars, regVars, BusTyped, LinesTyped, ClockTyped, DevTyped
  <2>2. UNCHANGED drvVars
    BY <1>13 DEF vars
  <2>3. DrvTyped'
    BY <2>2, StepsOn DEF drvVars, DrvTyped, InScript, Command1
  <2>4. QED
    BY <2>1, <2>3
<1>14. QED
  BY <1>2, <1>3, <1>4, <1>5, <1>6, <1>7, <1>8, <1>9, <1>10, <1>11, <1>12, <1>13
  DEF Next, Driver

\* The initial state has them.
LEMMA DrvInit == ASSUME Init PROVE BusTyped /\ DrvTyped
<1>1. LastBit \in Nat \ {0} /\ ClkCnt \in Nat /\ ResetDiv \in Nat /\ DevAddr \in Byte
  BY BusAssumption
<1>2. [i \in 0..LastBit |-> 0] \in Byte /\ 0 \in Bit /\ 1 \in Bit
  BY DEF Byte, Bit
<1>3. /\ ctr \in 0..LastBit /\ dout \in Byte /\ dr \in Byte /\ cr \in Controls
  BY <1>1, <1>2, ControlType DEF Init, BusInit
<1>4. LinesTyped
  BY <1>2 DEF Init, BusInit, LinesTyped
<1>5. ClockTyped
  BY <1>1 DEF Init, BusInit, ClockTyped
<1>6. DevTyped
  <2>1. seen \in Bit \X Bit
    BY <1>2 DEF Init, BusInit
  <2>2. dev = Off /\ Off \in Devices /\ Off.mode = "off"
    BY ListenType DEF Init, BusInit
  <2>3. QED
    BY <2>1, <2>2 DEF DevTyped
<1>7. DrvTyped
  <2>1. word[1] \in Byte /\ word[2] \in Byte /\ got \in Seq(Byte)
    BY <1>2 DEF Init, ZeroByte
  <2>2. Script(call) \in Seq(ScriptCommands)
    <3>1. call.op = "configure"
      BY DEF Init
    <3>2. QED
      BY <3>1, ScriptType
  <2>3. calls \in Seq(Calls) /\ pc = "init" /\ result = "none"
    BY ProgramsAssumption DEF Init
  <2>4. QED
    BY <2>1, <2>2, <2>3 DEF DrvTyped, InScript, Errors
<1>8. QED
  BY <1>3, <1>4, <1>5, <1>6, <1>7 DEF BusTyped

\* For every width of a byte, clock divisors, device and program of calls: the
\* bit counters of the core and the device never leave their byte, the lines
\* are at one of two levels, and the driver is at a command of its script.
THEOREM TypeCorrect == Spec => []TypeOK
<1>1. Init => BusTyped /\ DrvTyped
  BY DrvInit
<1>2. BusTyped /\ DrvTyped /\ [Next]_vars => (BusTyped /\ DrvTyped)'
  BY DrvStep
<1>3. BusTyped /\ DrvTyped => TypeOK
  <2>1. BusTyped /\ DrvTyped => dev.mode \in Modes /\ dev.n \in 0..LastBit + 1
    BY DEF BusTyped, DevTyped, Devices
  <2>2. QED
    BY <2>1 DEF BusTyped, LinesTyped, ClockTyped, DrvTyped, TypeOK, Modes, Errors
<1>4. QED
  BY <1>1, <1>2, <1>3, PTL DEF Spec

-----------------------------------------------------------------------------
(* What the device does at an edge                                         *)

Quiet == dev' = dev /\ heard' = heard

\* The lines as the device sees them.
LEMMA Seen ==
  ASSUME BusTyped, Device
  PROVE  /\ sclOut \in {0, 1} /\ sdaOut \in {0, 1} /\ Sda \in {0, 1} /\ Scl = sclOut
         /\ seen = <<seen[1], seen[2]>> /\ seen[1] \in {0, 1} /\ seen[2] \in {0, 1}
         /\ seen' = <<sclOut, Sda>> /\ seen'[1] = sclOut /\ seen'[2] = Sda
         /\ Sda = sdaOut * dev.drive /\ (dev.drive = 1 => Sda = sdaOut)
         /\ (sdaOut = 1 => Sda = dev.drive)
         /\ dev.n \in 0..LastBit + 1 /\ dev.byte \in Byte /\ dev.drive \in {0, 1}
         /\ dev \in Devices /\ LastBit \in Nat
<1>1. /\ sclOut \in Bit /\ sdaOut \in Bit /\ seen \in Bit \X Bit /\ dev \in Devices
      /\ Scl \in Bit /\ Sda \in Bit
  BY LineLevels DEF BusTyped, LinesTyped, DevTyped
<1>2. dev.drive \in {0, 1} /\ dev.n \in 0..LastBit + 1 /\ dev.byte \in Byte
  BY <1>1 DEF Devices, Bit
<1>3. Sda = sdaOut * dev.drive /\ Scl = sclOut
  BY DEF Sda, Scl
<1>4. (dev.drive = 1 => Sda = sdaOut) /\ (sdaOut = 1 => Sda = dev.drive)
  BY <1>1, <1>2, <1>3 DEF Bit
<1>5. seen' = <<Scl, Sda>>
  BY DEF Device
<1> QED
  BY <1>1, <1>2, <1>3, <1>4, <1>5, BusAssumption DEF Bit

\* Of the device's reactions those that fit a steady low line, a steady high
\* one, a rising and a falling one.
LEMMA Reactions ==
  ASSUME BusTyped, Device
  PROVE  /\ sclOut = 0 /\ seen[1] = 0 => Quiet
         /\ sclOut = 1 /\ seen[1] = 1 => DevStart \/ DevStop \/ (Quiet /\ seen[2] = Sda)
         /\ sclOut = 1 /\ seen[1] = 0 =>
              DevTakeBit \/ DevMasterAck \/ (Quiet /\ dev.mode \notin {"recv", "wait"})
         /\ sclOut = 0 /\ seen[1] = 1 =>
              \/ DevAck \/ DevAckEnd \/ DevSendBit \/ DevSendMore
              \/ Quiet /\ dev.mode = "recv" /\ dev.n <= LastBit
              \/ Quiet /\ dev.mode \in {"off", "wait"}
<1> DEFINE s == seen[1]
           t == seen[2]
<1>0. Scl = sclOut /\ sclOut \in {0, 1} /\ s \in {0, 1} /\ seen = <<s, t>>
  BY Seen
<1>1. DevQuiet =>
        /\ Quiet
        /\ \/ s = sclOut /\ t = Sda
           \/ s = 0 /\ sclOut = 0
           \/ s = 0 /\ sclOut = 1 /\ dev.mode \notin {"recv", "wait"}
           \/ s = 1 /\ sclOut = 0 /\ dev.mode = "recv" /\ dev.n <= LastBit
           \/ s = 1 /\ sclOut = 0 /\ dev.mode \in {"off", "wait"}
  BY <1>0 DEF DevQuiet, Quiet, Rising, Falling
<1>2. DevStart \/ DevStop => s = 1 /\ sclOut = 1
  BY <1>0 DEF DevStart, DevStop, Steady
<1>3. DevTakeBit \/ DevMasterAck => s = 0 /\ sclOut = 1
  BY <1>0 DEF DevTakeBit, DevMasterAck, Rising
<1>4. DevAck \/ DevAckEnd \/ DevSendBit \/ DevSendMore => s = 1 /\ sclOut = 0
  BY <1>0 DEF DevAck, DevAckEnd, DevSendBit, DevSendMore, Falling
<1>5. \/ DevStart \/ DevStop \/ DevTakeBit \/ DevAck \/ DevAckEnd
      \/ DevSendBit \/ DevMasterAck \/ DevSendMore \/ DevQuiet
  BY DEF Device
<1> HIDE DEF s, t
<1>6. /\ sclOut = 0 /\ s = 0 => Quiet
      /\ sclOut = 1 /\ s = 1 => DevStart \/ DevStop \/ (Quiet /\ t = Sda)
  BY <1>0, <1>1, <1>2, <1>3, <1>4, <1>5
<1>7. sclOut = 1 /\ s = 0 =>
              DevTakeBit \/ DevMasterAck \/ (Quiet /\ dev.mode \notin {"recv", "wait"})
  BY <1>0, <1>1, <1>2, <1>3, <1>4, <1>5
<1>8. sclOut = 0 /\ s = 1 =>
              \/ DevAck \/ DevAckEnd \/ DevSendBit \/ DevSendMore
              \/ Quiet /\ dev.mode = "recv" /\ dev.n <= LastBit
              \/ Quiet /\ dev.mode \in {"off", "wait"}
  BY <1>0, <1>1, <1>2, <1>3, <1>4, <1>5
<1> QED
  BY <1>6, <1>7, <1>8 DEF s, t

\* The device does nothing while SCL is low.
LEMMA LowQuiet ==
  ASSUME BusTyped, Device, sclOut = 0, seen[1] = 0
  PROVE  Quiet
BY Reactions

\* It does nothing while the lines stay as it saw them.
LEMMA SteadyQuiet ==
  ASSUME BusTyped, Device, sclOut = 1, seen[1] = 1, seen[2] = Sda
  PROVE  Quiet
BY Reactions DEF DevStart, DevStop

\* A rising SCL means nothing to a device that neither takes nor sent a byte.
LEMMA RiseQuiet ==
  ASSUME BusTyped, Device, sclOut = 1, seen[1] = 0, dev.mode \notin {"recv", "wait"}
  PROVE  Quiet
BY Reactions DEF DevTakeBit, DevMasterAck

\* A falling one means nothing to it before the byte is complete.
LEMMA FallQuiet ==
  ASSUME BusTyped, Device, sclOut = 0, seen[1] = 1,
         dev.mode = "off" \/ (dev.mode = "recv" /\ dev.n <= LastBit)
  PROVE  Quiet
<1>1. dev.n <= LastBit => dev.n # LastBit + 1
  BY Seen
<1> QED
  BY <1>1, Reactions DEF DevAck, DevAckEnd, DevSendBit, DevSendMore

\* On a rising SCL it takes the bit on the line, with the last bit the byte.
LEMMA RiseTakes ==
  ASSUME BusTyped, Device, sclOut = 1, seen[1] = 0, dev.mode = "recv", dev.drive = 1
  PROVE  /\ dev'.mode = "recv" /\ dev'.n = dev.n + 1 /\ dev'.drive = 1 /\ dev'.addr = dev.addr
         /\ dev'.byte \in Byte /\ dev'.byte[dev.n] = sdaOut
         /\ \A j \in 0..LastBit : j # dev.n => dev'.byte[j] = dev.byte[j]
         /\ heard' = IF dev.n = LastBit THEN Append(heard, dev'.byte) ELSE heard
         /\ dev.n \in 0..LastBit
<1>1. DevTakeBit
  BY Reactions DEF DevMasterAck
<1>2. dev.n \in 0..LastBit
  BY Seen, BusAssumption DEF BusTyped, DevTyped
<1>3. /\ dev' = [dev EXCEPT !.byte[dev.n] = Sda, !.n = dev.n + 1] /\ Sda = sdaOut
      /\ heard' = IF dev.n = LastBit THEN Append(heard, dev'.byte) ELSE heard
  BY <1>1, Seen DEF DevTakeBit
<1>4. dev \in Devices /\ dev.byte \in [0..LastBit -> Bit] /\ Sda \in Bit
  BY Seen DEF BusTyped, DevTyped, Byte, Bit
<1>5. /\ dev'.byte = [dev.byte EXCEPT ![dev.n] = Sda]
      /\ dev'.mode = dev.mode /\ dev'.n = dev.n + 1 /\ dev'.drive = dev.drive /\ dev'.addr = dev.addr
  BY <1>3, <1>4 DEF Devices
<1>6. dev'.byte \in [0..LastBit -> Bit] /\ dev'.byte[dev.n] = Sda
      /\ \A j \in 0..LastBit : j # dev.n => dev'.byte[j] = dev.byte[j]
  BY <1>2, <1>4, <1>5
<1> QED
  BY <1>2, <1>3, <1>5, <1>6 DEF Byte

\* After its byte it takes the acknowledge of the master.
LEMMA RiseAcked ==
  ASSUME BusTyped, Device, sclOut = 1, seen[1] = 0, dev.mode = "wait", dev.drive = 1
  PROVE  /\ heard' = heard /\ dev'.drive = 1
         /\ dev'.mode = IF sdaOut = 0 THEN "more" ELSE "off"
<1>1. DevMasterAck
  BY Reactions DEF DevTakeBit
<1>2. heard' = heard /\ dev' = IF sdaOut = 0 THEN [dev EXCEPT !.mode = "more"] ELSE Off
  BY <1>1, Seen DEF DevMasterAck
<1>3. dev \in Devices
  BY Seen
<1> QED
  BY <1>2, <1>3 DEF Off, Devices

\* On the falling SCL after a whole byte it acknowledges, or refuses and goes away.
LEMMA FallAnswers ==
  ASSUME BusTyped, Device, sclOut = 0, seen[1] = 1, dev.mode = "recv", dev.n = LastBit + 1
  PROVE  \/ /\ dev'.mode = "ack" /\ dev'.drive = 0 /\ dev'.byte = dev.byte /\ dev'.addr = dev.addr
            /\ heard' = heard
         \/ dev'.mode = "off" /\ dev'.drive = 1 /\ heard' = Append(heard, NACK)
<1>0. ~(dev.n <= LastBit) /\ dev \in Devices
  BY Seen
<1>1. DevAck
  BY <1>0, Reactions DEF DevAckEnd, DevSendBit, DevSendMore
<1>2. \/ dev' = [dev EXCEPT !.mode = "ack", !.drive = 0] /\ heard' = heard
      \/ dev' = Off /\ heard' = Append(heard, NACK)
  BY <1>1 DEF DevAck
<1>3. ASSUME dev' = [dev EXCEPT !.mode = "ack", !.drive = 0]
      PROVE  dev'.mode = "ack" /\ dev'.drive = 0 /\ dev'.byte = dev.byte /\ dev'.addr = dev.addr
  BY <1>0, <1>3 DEF Devices
<1>4. Off.mode = "off" /\ Off.drive = 1
  BY DEF Off
<1> QED
  BY <1>2, <1>3, <1>4

\* On the falling SCL after its acknowledge it listens again, or sends.
LEMMA FallReleases ==
  ASSUME BusTyped, Device, sclOut = 0, seen[1] = 1, dev.mode = "ack"
  PROVE  /\ heard' = heard
         /\ IF dev.addr /\ dev.byte[LastBit] = 1
            THEN dev'.mode = "send" /\ dev'.n = 1 /\ dev'.drive = dev'.byte[0]
            ELSE dev'.mode = "recv" /\ dev'.n = 0 /\ dev'.drive = 1 /\ dev'.addr = FALSE
<1>1. DevAckEnd
  BY Reactions DEF DevAck, DevSendBit, DevSendMore
<1> QED
  BY <1>1 DEF DevAckEnd, Listen, Send, Off

\* On a falling SCL it sends the next bit, or has sent its byte.
LEMMA FallSends ==
  ASSUME BusTyped, Device, sclOut = 0, seen[1] = 1, dev.mode = "send"
  PROVE  /\ dev.n <= LastBit => /\ dev'.mode = "send" /\ dev'.n = dev.n + 1 /\ dev'.byte = dev.byte
                                /\ dev'.drive = dev.byte[dev.n] /\ heard' = heard
         /\ ~(dev.n <= LastBit) => /\ dev'.mode = "wait" /\ dev'.drive = 1
                                   /\ heard' = Append(heard, dev.byte)
<1>1. DevSendBit
  BY Reactions DEF DevAck, DevAckEnd, DevSendMore
<1>2. dev \in Devices
  BY Seen
<1> QED
  BY <1>1, <1>2 DEF DevSendBit, Devices

\* After an acknowledged byte it sends another.
LEMMA FallSendsMore ==
  ASSUME BusTyped, Device, sclOut = 0, seen[1] = 1, dev.mode = "more"
  PROVE  heard' = heard /\ dev'.mode = "send" /\ dev'.n = 1 /\ dev'.drive = dev'.byte[0]
<1>1. DevSendMore
  BY Reactions DEF DevAck, DevAckEnd, DevSendBit
<1> QED
  BY <1>1 DEF DevSendMore, Send, Off

\* SDA falling while SCL is high is a START.
LEMMA StartSeen ==
  ASSUME BusTyped, Device, sclOut = 1, sdaOut = 0, seen = <<1, 1>>
  PROVE  /\ dev'.mode = "recv" /\ dev'.n = 0 /\ dev'.drive = 1 /\ dev'.addr = TRUE
         /\ heard' = Append(heard, START)
<1>1. Sda = 0 /\ seen[1] = 1 /\ seen[2] = 1
  BY Seen
<1>2. DevStart
  BY <1>1, Reactions DEF DevStop
<1> QED
  BY <1>2 DEF DevStart, Listen, Off

\* SDA rising while SCL is high is a STOP.
LEMMA StopSeen ==
  ASSUME BusTyped, Device, sclOut = 1, sdaOut = 1, dev.drive = 1, seen = <<1, 0>>
  PROVE  dev'.mode = "off" /\ dev'.drive = 1 /\ heard' = Append(heard, STOP)
<1>1. Sda = 1 /\ seen[1] = 1 /\ seen[2] = 0
  BY Seen
<1>2. DevStop
  BY <1>1, Reactions DEF DevStart
<1> QED
  BY <1>2 DEF DevStop, Off

-----------------------------------------------------------------------------
(* What the core does at an edge                                           *)

\* The successor of each state.
LEMMA Successor ==
  /\ st = "StartA" => NextState = "StartB"
  /\ st = "StartB" => NextState = "StartC"
  /\ st = "StartC" => NextState = "StartD"
  /\ st = "WrA" => NextState = "WrB"
  /\ st = "WrB" => NextState = "WrC"
  /\ st = "WrC" => NextState = "WrD"
  /\ st = "WrD" => NextState = IF ctr = LastBit THEN "RdAckA" ELSE "WrE"
  /\ st = "WrE" => NextState = "WrA"
  /\ st = "RdAckA" => NextState = "RdAckB"
  /\ st = "RdAckB" => NextState = "RdAckC"
  /\ st = "RdAckC" => NextState = "RdAckD"
  /\ st = "RdAckD" => NextState = "RdAckE"
  /\ st = "RdAckE" => NextState = IF cr.stp THEN "StopA" ELSE "Done"
  /\ st = "RdA" => NextState = "RdB"
  /\ st = "RdB" => NextState = "RdC"
  /\ st = "RdC" => NextState = "RdD"
  /\ st = "RdD" => NextState = "RdE"
  /\ st = "RdE" => NextState = IF ctr = LastBit THEN "WrAckA" ELSE "RdF"
  /\ st = "RdF" => NextState = "RdA"
  /\ st = "WrAckA" => NextState = "WrAckB"
  /\ st = "WrAckB" => NextState = "WrAckC"
  /\ st = "WrAckC" => NextState = "WrAckD"
  /\ st = "WrAckD" => NextState = IF cr.stp THEN "StopA" ELSE "Done"
  /\ st = "StopA" => NextState = "StopB"
  /\ st = "StopB" => NextState = "StopC"
  /\ st = "StopC" => NextState = "Done"
  /\ st = "Done" => NextState = "DoneAck"
  /\ st = "Reset" => NextState = "Idle"
  /\ st = "DoneAck" => NextState = IF cmdDoneAck THEN "Idle" ELSE "DoneAck"
  /\ st = "StartD" => NextState = IF cr.wr THEN "WrA" ELSE IF cr.rd THEN "RdA" ELSE "StartD"
  /\ st = "Idle" => NextState = IF Tip /\ cr.sta THEN "StartA"
                                ELSE IF cr.wr THEN "WrA" ELSE IF cr.rd THEN "RdA" ELSE "Idle"
BY DEF NextState, Straight, Command, ByteEnd, AfterByte, AfterDone

\* The states that wait for the bit clock and those that last one clock.
LEMMA Successors ==
  ASSUME Core
  PROVE  /\ st \in Quick => st' = NextState
         /\ st \notin Quick => st' = IF sclk THEN NextState ELSE st
BY DEF Core

\* The levels the core puts on the lines.
Puts(scl, sda) == sclOut' = scl /\ sdaOut' = sda /\ sclIn' = sclOut /\ sdaIn' = Sda

\* What each state of the core puts on the lines.
LEMMA Levels ==
  ASSUME Core
  PROVE  /\ st \in {"Idle", "Done", "DoneAck"} => Puts(sclIn, sdaIn)
         /\ st = "StartA" => Puts(sclIn, 1)
         /\ st \in {"Reset", "StartB", "RdB", "RdC", "RdD", "RdAckB", "RdAckC", "RdAckD", "StopC"}
              => Puts(1, 1)
         /\ st \in {"StartC", "StopB"} => Puts(1, 0)
         /\ st \in {"StartD", "StopA"} => Puts(0, 0)
         /\ st \in {"WrB", "WrC"} => Puts(1, dr[ctr])
         /\ st \in {"WrA", "WrD", "WrE"} => Puts(0, dr[ctr])
         /\ st \in {"RdA", "RdE", "RdF", "RdAckA", "RdAckE"} => Puts(0, 1)
         /\ st \in {"WrAckA", "WrAckD"} => Puts(0, IF cr.ack THEN 1 ELSE 0)
         /\ st \in {"WrAckB", "WrAckC"} => Puts(1, IF cr.ack THEN 1 ELSE 0)
BY DEF Core, SclLevel, SdaLevel, SclHigh, Hold, Puts, Scl

\* What it counts and stores.
LEMMA Stores ==
  ASSUME Core
  PROVE  /\ st \notin {"Idle", "RdF", "WrE"} => ctr' = ctr
         /\ st = "Idle" => ctr' = 0
         /\ st # "RdC" => dout' = dout
         /\ st = "RdC" => dout' = [dout EXCEPT ![ctr] = sdaIn]
         /\ st # "RdAckC" => ackOut' = ackOut
         /\ st = "RdAckC" => ackOut' = sdaIn
         /\ cmdDone' = (st \in {"Done", "DoneAck"})
BY DEF Core, BitCounter, Counting

\* The bit counter goes on to the next bit.
LEMMA Counts ==
  ASSUME Core, BusTyped, st \in {"RdF", "WrE"}, ctr < LastBit
  PROVE  ctr' = ctr + 1
<1>1. ctr \in 0..LastBit /\ LastBit \in Nat
  BY BusAssumption DEF BusTyped
<1>2. ctr' = (ctr + 1) % (LastBit + 1)
  BY DEF Core, BitCounter, Counting
<1>3. ctr + 1 \in 0..LastBit
  BY <1>1
<1> QED
  BY <1>1, <1>2, <1>3

-----------------------------------------------------------------------------
(* A command on its way over the bus. k is the command, w what its call    *)
(* puts on the bus, b how much of it the commands before k stand for.      *)

HeardTyped == heard \in Seq(Byte \cup {START, STOP, NACK})

\* The first n events of w were heard and no other; the same, and then a NACK.
Told(w, n) == Len(heard) = n /\ \A i \in 1..n : Carried(heard[i], w[i])
Refused(w, n) == Len(heard) = n + 1 /\ heard[n + 1] = NACK /\ \A i \in 1..n : Carried(heard[i], w[i])

Place(k, b) == IF k.ctl.sta THEN b + 1 ELSE b
Fits(k, w, b) ==
  /\ b \in Nat /\ Len(w) \in Nat /\ k.ctl \in Controls
  /\ k.ctl.sta => b + 1 <= Len(w) /\ w[b + 1] = START /\ k.ctl.wr
  /\ Place(k, b) + 1 <= Len(w) /\ w[Place(k, b) + 1] = k.byte
  /\ k.ctl.stp => Place(k, b) + 2 <= Len(w) /\ w[Place(k, b) + 2] = STOP /\ ~k.ctl.sta
  /\ IF k.ctl.wr THEN k.byte \in Byte ELSE k.byte = ANY /\ k.ctl.rd
  /\ k.ctl.stp /\ ~k.ctl.wr => k.ctl.ack
  /\ k.ctl.ack => k.ctl.stp

\* What the device sees on its lines.
Low     == sclOut = 0 /\ seen[1] = 0
Fall    == sclOut = 0 /\ seen[1] = 1
Rise(v) == sclOut = 1 /\ sdaOut = v /\ seen[1] = 0
High(v) == sclOut = 1 /\ sdaOut = v /\ seen = <<1, v * dev.drive>>

\* What the device is doing.
Away == dev.mode = "off" /\ dev.drive = 1
Listening == dev.mode = "recv" /\ dev.n = 0 /\ dev.drive = 1 /\ ~dev.addr
Free == Away \/ Listening
Loose == dev.drive = 1 /\ (dev.mode = "off" \/ (dev.mode = "recv" /\ dev.n <= 1))
Taking(n, first) == /\ dev.mode = "recv" /\ dev.n = n /\ dev.drive = 1 /\ dev.addr = first
                    /\ \A j \in 0..n - 1 : dev.byte[j] = dr[j]
Sending(n) == dev.mode = "send" /\ dev.n = n /\ dev.drive = dev.byte[n - 1]

HoldLow  == sclOut = 0 /\ sclIn = 0 /\ seen[1] = 0
HoldHigh == sclOut = 1 /\ sclIn = 1 /\ sdaOut = 1 /\ sdaIn = 1 /\ seen = <<1, 1>> /\ Away

Moves == /\ BusTyped /\ HeardTyped /\ Core /\ Device /\ dr' = dr /\ cr' = cr
         /\ sclk => ~sclk'

\* What was heard of a message stays heard while nothing more is.
LEMMA HeardKept ==
  ASSUME heard' = heard, NEW w, NEW n
  PROVE  (Told(w, n)' <=> Told(w, n)) /\ (Refused(w, n)' <=> Refused(w, n))
BY DEF Told, Refused

\* One more event of the message is heard.
LEMMA ToldMore ==
  ASSUME HeardTyped, NEW w, NEW n \in Nat, NEW e, heard' = Append(heard, e),
         Told(w, n), Carried(e, w[n + 1])
  PROVE  Told(w, n + 1)'
BY DEF HeardTyped, Told

\* A refusal is heard.
LEMMA ToldRefused ==
  ASSUME HeardTyped, NEW w, NEW n \in Nat, heard' = Append(heard, NACK), Told(w, n)
  PROVE  Refused(w, n)'
BY DEF HeardTyped, Told, Refused

InStartA(k, w, b) == ctr = 0 /\ Told(w, b) /\ (HoldHigh \/ (HoldLow /\ Free))
InStartB(k, w, b) ==
  /\ ctr = 0 /\ Told(w, b) /\ (sclk => sclOut = 1) /\ sdaOut = 1
  /\ ((Low \/ Rise(1)) /\ Free) \/ (High(1) /\ Loose)
InStartC(k, w, b) ==
  /\ ctr = 0 /\ (sclk => sdaOut = 0)
  /\ \/ High(1) /\ Loose /\ Told(w, b)
     \/ sclOut = 1 /\ sdaOut = 0 /\ seen = <<1, 1>> /\ Loose /\ Told(w, b)
     \/ High(0) /\ Taking(0, TRUE) /\ Told(w, b + 1)
InStartD(k, w, b) ==
  /\ ctr = 0 /\ Taking(0, TRUE) /\ Told(w, b + 1)
  /\ (sclk => sclOut = 0) /\ (High(0) \/ Fall \/ Low)
InWrA(k, w, b) == Low /\ Taking(ctr, k.ctl.sta) /\ Told(w, Place(k, b))

\* The START condition, state by state of the core.
LEMMA StartAStep ==
  ASSUME Moves, NEW k, NEW w, NEW b, Fits(k, w, b), cr = k.ctl, k.ctl.sta,
         st = "StartA", InStartA(k, w, b)
  PROVE  \/ st' = "StartA" /\ InStartA(k, w, b)'
         \/ st' = "StartB" /\ InStartB(k, w, b)'
<1>1. Puts(sclIn, 1) /\ ctr' = 0 /\ st' = IF sclk THEN "StartB" ELSE "StartA"
  BY Levels, Stores, Successor, Successors DEF Moves, InStartA, Quick
<1>2. CASE HoldHigh
  <2>1. Quiet /\ Sda = 1
    BY <1>2, SteadyQuiet, Seen DEF Moves, HoldHigh, Away
  <2>2. Told(w, b)' /\ Away' /\ seen' = <<1, 1>>
    BY <1>2, <2>1, HeardKept, Seen DEF Quiet, InStartA, Moves, HoldHigh, Away
  <2> QED
    BY <1>1, <1>2, <2>1, <2>2, Seen DEF Moves, Puts, Quiet, HoldHigh, Away, High, Loose, InStartA, InStartB
<1>3. CASE HoldLow /\ Free
  <2>1. Quiet
    BY <1>3, LowQuiet DEF Moves, HoldLow
  <2>2. Told(w, b)' /\ Free' /\ seen'[1] = 0
    BY <1>3, <2>1, HeardKept, Seen DEF Quiet, InStartA, Moves, HoldLow, Free, Away, Listening
  <2> QED
    BY <1>1, <1>3, <2>1, <2>2 DEF Moves, Puts, HoldLow, Low, InStartA, InStartB
<1> QED
  BY <1>2, <1>3 DEF InStartA

\* SDA and SCL go high.
LEMMA StartBStep ==
  ASSUME Moves, NEW k, NEW w, NEW b, Fits(k, w, b), cr = k.ctl, k.ctl.sta,
         st = "StartB", InStartB(k, w, b)
  PROVE  \/ st' = "StartB" /\ InStartB(k, w, b)'
         \/ st' = "StartC" /\ InStartC(k, w, b)'
<1>1. Puts(1, 1) /\ ctr' = 0 /\ st' = IF sclk THEN "StartC" ELSE "StartB"
  BY Levels, Stores, Successor, Successors DEF Moves, InStartB, Quick
<1>2. CASE Low /\ Free
  <2>1. Quiet
    BY <1>2, LowQuiet DEF Moves, Low
  <2>2. Told(w, b)' /\ Free' /\ seen'[1] = 0 /\ ~sclk
    BY <1>2, <2>1, HeardKept, Seen DEF Quiet, InStartB, Moves, Low, Free, Away, Listening
  <2> QED
    BY <1>1, <2>2 DEF Puts, Rise, InStartB
<1>3. CASE Rise(1) /\ Free
  <2>1. Told(w, b)' /\ Loose'
    <3>1. CASE Away
      BY <1>3, <3>1, RiseQuiet, HeardKept DEF Moves, Rise, Away, Loose, Quiet, InStartB
    <3>2. CASE Listening
      BY <1>3, <3>2, RiseTakes, HeardKept, BusAssumption DEF Moves, Rise, Listening, Loose, InStartB
    <3> QED
      BY <1>3, <3>1, <3>2 DEF Free
  <2>2. seen' = <<1, 1>>
    BY <1>3, Seen DEF Moves, Rise, Free, Away, Listening
  <2> QED
    BY <1>1, <2>1, <2>2 DEF Moves, Puts, High, Loose, InStartB, InStartC
<1>4. CASE High(1) /\ Loose
  <2>1. Quiet
    BY <1>4, SteadyQuiet, Seen DEF Moves, High, Loose
  <2>2. Told(w, b)' /\ Loose' /\ seen' = <<1, 1>>
    BY <1>4, <2>1, HeardKept, Seen DEF Quiet, InStartB, Moves, High, Loose
  <2> QED
    BY <1>1, <2>2 DEF Moves, Puts, High, Loose, InStartB, InStartC
<1> QED
  BY <1>2, <1>3, <1>4 DEF InStartB

\* SDA falls while SCL is high: the device hears a START.
LEMMA StartCStep ==
  ASSUME Moves, NEW k, NEW w, NEW b, Fits(k, w, b), cr = k.ctl, k.ctl.sta,
         st = "StartC", InStartC(k, w, b)
  PROVE  \/ st' = "StartC" /\ InStartC(k, w, b)'
         \/ st' = "StartD" /\ InStartD(k, w, b)'
<1>1. Puts(1, 0) /\ ctr' = 0 /\ st' = IF sclk THEN "StartD" ELSE "StartC"
  BY Levels, Stores, Successor, Successors DEF Moves, InStartC, Quick
<1>2. CASE High(1) /\ Loose /\ Told(w, b)
  <2>1. Quiet
    BY <1>2, SteadyQuiet, Seen DEF Moves, High, Loose
  <2>2. Told(w, b)' /\ Loose' /\ seen' = <<1, 1>> /\ ~sclk
    BY <1>2, <2>1, HeardKept, Seen DEF Quiet, InStartC, Moves, High, Loose
  <2> QED
    BY <1>1, <2>2 DEF Puts, InStartC
<1>3. CASE sclOut = 1 /\ sdaOut = 0 /\ seen = <<1, 1>> /\ Loose /\ Told(w, b)
  <2>1. Taking(0, TRUE)' /\ heard' = Append(heard, START)
    <3>1. /\ dev'.mode = "recv" /\ dev'.n = 0 /\ dev'.drive = 1 /\ dev'.addr = TRUE
          /\ heard' = Append(heard, START)
      BY <1>3, StartSeen DEF Moves
    <3>2. \A j \in 0..0 - 1 : dev'.byte[j] = dr'[j]
      OBVIOUS
    <3> QED
      BY <3>1, <3>2 DEF Taking
  <2>2. Told(w, b + 1)'
    BY <1>3, <2>1, ToldMore DEF Fits, Moves, Carried
  <2>3. High(0)'
    BY <1>1, <1>3, <2>1, Seen DEF Moves, Puts, Loose, High, Taking
  <2> QED
    BY <1>1, <2>1, <2>2, <2>3 DEF Moves, Puts, InStartC, InStartD
<1>4. CASE High(0) /\ Taking(0, TRUE) /\ Told(w, b + 1)
  <2>1. Quiet
    BY <1>4, SteadyQuiet, Seen DEF Moves, High, Taking
  <2>2. Told(w, b + 1)' /\ Taking(0, TRUE)'
    BY <1>4, <2>1, HeardKept, Seen DEF Quiet, Moves, Taking
  <2>3. High(0)'
    BY <1>1, <1>4, <2>2, Seen DEF Moves, Puts, High, Taking
  <2> QED
    BY <1>1, <2>2, <2>3 DEF Moves, Puts, InStartC, InStartD
<1> QED
  BY <1>2, <1>3, <1>4 DEF InStartC

\* SCL falls.
LEMMA StartDStep ==
  ASSUME Moves, NEW k, NEW w, NEW b, Fits(k, w, b), cr = k.ctl, k.ctl.sta,
         st = "StartD", InStartD(k, w, b)
  PROVE  \/ st' = "StartD" /\ InStartD(k, w, b)'
         \/ st' = "WrA" /\ InWrA(k, w, b)'
<1>1. Puts(0, 0) /\ ctr' = 0 /\ st' = IF sclk THEN "WrA" ELSE "StartD"
  BY Levels, Stores, Successor, Successors DEF Moves, InStartD, Quick, Fits
<1>2. Quiet
  <2>1. CASE High(0)
    BY <2>1, SteadyQuiet, Seen DEF Moves, High, Taking, InStartD
  <2>2. CASE Fall
    BY <2>2, FallQuiet, BusAssumption DEF Moves, Fall, Taking, InStartD
  <2>3. CASE Low
    BY <2>3, LowQuiet DEF Moves, Low
  <2> QED
    BY <2>1, <2>2, <2>3 DEF InStartD
<1>3. Told(w, b + 1)' /\ Taking(0, TRUE)'
  BY <1>2, HeardKept DEF Quiet, Moves, Taking, InStartD
<1>4. (Fall \/ Low)' /\ (sclk => Low')
  BY <1>1, Seen DEF Moves, Puts, Fall, Low, High, InStartD
<1>5. CASE sclk
  BY <1>1, <1>3, <1>4, <1>5 DEF InWrA, Place
<1>6. CASE ~sclk
  BY <1>1, <1>3, <1>4, <1>6 DEF InStartD, Puts
<1> QED
  BY <1>5, <1>6

\* The device has taken the bit the core is at; it has answered the byte; the
\* core knows the answer.
Took(k, w, b) == /\ Taking(ctr + 1, k.ctl.sta)
                 /\ Told(w, IF ctr = LastBit THEN Place(k, b) + 1 ELSE Place(k, b))
Answered(k, w, b) ==
  \/ /\ dev.mode = "ack" /\ dev.drive = 0 /\ dev.byte = dr /\ dev.addr = k.ctl.sta
     /\ Told(w, Place(k, b) + 1)
  \/ Away /\ Refused(w, Place(k, b) + 1)
ToSend(k) == k.ctl.sta /\ dr[LastBit] = 1
Settled(k, w, b) ==
  \/ /\ ackOut = 0 /\ Told(w, Place(k, b) + 1)
     /\ IF ToSend(k) THEN Sending(1) ELSE Listening
  \/ ackOut = 1 /\ Away /\ Refused(w, Place(k, b) + 1)

InWrB(k, w, b) ==
  /\ sclk => sclOut = 1
  /\ \/ (Low \/ Rise(dr[ctr])) /\ Taking(ctr, k.ctl.sta) /\ Told(w, Place(k, b))
     \/ High(dr[ctr]) /\ Took(k, w, b)
InWrC(k, w, b) == High(dr[ctr]) /\ Took(k, w, b)
InWrD(k, w, b) ==
  /\ sclk => sclOut = 0
  /\ \/ (High(dr[ctr]) \/ Fall) /\ Took(k, w, b)
     \/ Low /\ IF ctr = LastBit THEN Answered(k, w, b) ELSE Took(k, w, b)
InWrE(k, w, b) == ctr < LastBit /\ Low /\ Took(k, w, b)
InRdAckA(k, w, b) == ctr = LastBit /\ Low /\ Answered(k, w, b) /\ (sclk => sdaOut = 1)
InRdAckB(k, w, b) == /\ ctr = LastBit /\ sdaOut = 1 /\ (sclk => sclOut = 1)
                     /\ Answered(k, w, b) /\ (Low \/ Rise(1) \/ High(1))
InRdAckC(k, w, b) == ctr = LastBit /\ High(1) /\ Answered(k, w, b) /\ sdaIn = dev.drive
InRdAckD(k, w, b) == ctr = LastBit /\ High(1) /\ Answered(k, w, b) /\ ackOut = dev.drive
InRdAckE(k, w, b) ==
  /\ ctr = LastBit /\ (sclk => sclOut = 0)
  /\ \/ (High(1) \/ Fall) /\ Answered(k, w, b) /\ ackOut = dev.drive
     \/ Low /\ Settled(k, w, b)

\* The bit the core is at.
LEMMA CtrRange ==
  ASSUME Moves
  PROVE  ctr \in 0..LastBit /\ LastBit \in Nat /\ dr \in Byte /\ dr[ctr] \in {0, 1} /\ ctr \in Int
BY BusAssumption DEF Moves, BusTyped, Byte, Bit

\* Two bytes with the same bits are the same byte.
LEMMA SameByte ==
  ASSUME NEW x \in Byte, NEW y \in Byte, \A j \in 0..LastBit : x[j] = y[j]
  PROVE  x = y
<1>1. x = [j \in 0..LastBit |-> x[j]] /\ y = [j \in 0..LastBit |-> y[j]]
  BY DEF Byte
<1>2. [j \in 0..LastBit |-> x[j]] = [j \in 0..LastBit |-> y[j]]
  OBVIOUS
<1> QED
  BY <1>1, <1>2

\* The device goes on taking the byte while it sees nothing.
LEMMA TakingKept ==
  ASSUME Quiet, dr' = dr, NEW n, NEW first
  PROVE  Taking(n, first)' <=> Taking(n, first)
BY DEF Quiet, Taking

\* What the device took it has while it sees nothing.
LEMMA TookKept ==
  ASSUME Quiet, dr' = dr, ctr' = ctr, NEW k, NEW w, NEW b
  PROVE  Took(k, w, b)' <=> Took(k, w, b)
BY HeardKept, TakingKept DEF Quiet, Took

\* Its answer stays while it sees nothing.
LEMMA AnsweredKept ==
  ASSUME Quiet, dr' = dr, NEW k, NEW w, NEW b
  PROVE  Answered(k, w, b)' <=> Answered(k, w, b)
BY HeardKept DEF Quiet, Answered, Away

\* A byte written, state by state: the bit is on SDA.
LEMMA WrAStep ==
  ASSUME Moves, NEW k, NEW w, NEW b, Fits(k, w, b), cr = k.ctl, k.ctl.wr,
         st = "WrA", InWrA(k, w, b)
  PROVE  \/ st' = "WrA" /\ InWrA(k, w, b)'
         \/ st' = "WrB" /\ InWrB(k, w, b)'
<1>1. Puts(0, dr[ctr]) /\ ctr' = ctr /\ st' = IF sclk THEN "WrB" ELSE "WrA"
  BY Levels, Stores, Successor, Successors DEF Moves, Quick
<1>2. Quiet
  BY LowQuiet DEF Moves, Low, InWrA
<1>3. Told(w, Place(k, b))' /\ Taking(ctr, k.ctl.sta)'
  BY <1>1, <1>2, HeardKept DEF Quiet, Moves, Taking, InWrA
<1>4. Low'
  BY <1>1, Seen DEF Moves, Puts, Low, InWrA
<1> QED
  BY <1>1, <1>3, <1>4 DEF InWrA, InWrB, Moves

\* SCL rises and the device takes the bit.
LEMMA WrBStep ==
  ASSUME Moves, NEW k, NEW w, NEW b, Fits(k, w, b), cr = k.ctl, k.ctl.wr, dr = k.byte,
         st = "WrB", InWrB(k, w, b)
  PROVE  \/ st' = "WrB" /\ InWrB(k, w, b)'
         \/ st' = "WrC" /\ InWrC(k, w, b)'
<1>1. Puts(1, dr[ctr]) /\ ctr' = ctr /\ dr' = dr /\ st' = IF sclk THEN "WrC" ELSE "WrB"
  BY Levels, Stores, Successor, Successors DEF Moves, Quick
<1>2. CASE Low /\ Taking(ctr, k.ctl.sta) /\ Told(w, Place(k, b))
  <2>1. Quiet
    BY <1>2, LowQuiet DEF Moves, Low
  <2>2. Told(w, Place(k, b))' /\ Taking(ctr, k.ctl.sta)'
    BY <1>1, <1>2, <2>1, HeardKept DEF Quiet, Taking
  <2>3. Rise(dr[ctr])' /\ ~sclk
    BY <1>1, <1>2, Seen DEF Moves, Puts, Low, Rise, InWrB
  <2> QED
    BY <1>1, <2>2, <2>3 DEF InWrB, Rise
<1>3. CASE Rise(dr[ctr]) /\ Taking(ctr, k.ctl.sta) /\ Told(w, Place(k, b))
  <2>1. /\ dev'.mode = "recv" /\ dev'.n = ctr + 1 /\ dev'.drive = 1 /\ dev'.addr = dev.addr
        /\ dev'.byte \in Byte /\ dev'.byte[ctr] = dr[ctr]
        /\ \A j \in 0..LastBit : j # ctr => dev'.byte[j] = dev.byte[j]
        /\ heard' = IF ctr = LastBit THEN Append(heard, dev'.byte) ELSE heard
    BY <1>3, RiseTakes DEF Moves, Rise, Taking
  <2>2. \A j \in 0..ctr : dev'.byte[j] = dr[j]
    BY <1>3, <2>1, CtrRange DEF Taking
  <2>3. Taking(ctr + 1, k.ctl.sta)'
    <3>1. dev'.addr = k.ctl.sta
      BY <1>3, <2>1 DEF Taking
    <3>2. \A j \in 0..(ctr + 1) - 1 : dev'.byte[j] = dr'[j]
      BY <1>1, <2>2, CtrRange
    <3> QED
      BY <1>1, <2>1, <3>1, <3>2 DEF Taking
  <2>4. Told(w, IF ctr = LastBit THEN Place(k, b) + 1 ELSE Place(k, b))'
    <3>1. CASE ctr = LastBit
      <4>1. dev'.byte = dr
        BY <2>1, <2>2, <3>1, CtrRange, SameByte
      <4>2. Carried(dr, w[Place(k, b) + 1]) /\ Place(k, b) \in Nat
        BY DEF Fits, Carried, Place
      <4>3. heard' = Append(heard, dr)
        BY <2>1, <3>1, <4>1
      <4> QED
        BY <1>1, <1>3, <3>1, <4>2, <4>3, ToldMore DEF Moves
    <3>2. CASE ctr # LastBit
      BY <1>1, <1>3, <2>1, <3>2, HeardKept
    <3> QED
      BY <3>1, <3>2
  <2>5. Took(k, w, b)'
    BY <1>1, <2>3, <2>4 DEF Took
  <2>6. High(dr[ctr])'
    BY <1>1, <1>3, <2>1, Seen, CtrRange DEF Moves, Puts, Rise, High, Taking
  <2> QED
    BY <1>1, <2>5, <2>6 DEF Moves, InWrB, InWrC, Puts
<1>4. CASE High(dr[ctr]) /\ Took(k, w, b)
  <2>1. Quiet
    BY <1>4, SteadyQuiet, Seen DEF Moves, High, Took, Taking
  <2>2. Took(k, w, b)'
    BY <1>1, <1>4, <2>1, TookKept
  <2>3. High(dr[ctr])'
    BY <1>1, <1>4, <2>1, Seen, CtrRange DEF Moves, Puts, Rise, High, Took, Taking, Quiet
  <2> QED
    BY <1>1, <2>2, <2>3 DEF Moves, InWrB, InWrC, Puts
<1> QED
  BY <1>2, <1>3, <1>4 DEF InWrB

\* SCL stays high.
LEMMA WrCStep ==
  ASSUME Moves, NEW k, NEW w, NEW b, Fits(k, w, b), cr = k.ctl, k.ctl.wr,
         st = "WrC", InWrC(k, w, b)
  PROVE  \/ st' = "WrC" /\ InWrC(k, w, b)'
         \/ st' = "WrD" /\ InWrD(k, w, b)'
<1>1. Puts(1, dr[ctr]) /\ ctr' = ctr /\ dr' = dr /\ st' = IF sclk THEN "WrD" ELSE "WrC"
  BY Levels, Stores, Successor, Successors DEF Moves, Quick
<1>2. Quiet
  BY SteadyQuiet, Seen DEF Moves, High, Took, Taking, InWrC
<1>3. Took(k, w, b)'
  BY <1>1, <1>2, TookKept DEF InWrC
<1>4. High(dr[ctr])'
  BY <1>1, <1>2, Seen, CtrRange DEF Moves, Puts, Rise, High, Took, Taking, Quiet, InWrC
<1> QED
  BY <1>1, <1>3, <1>4 DEF Moves, InWrC, InWrD

\* SCL falls; after the last bit the device answers.
LEMMA WrDStep ==
  ASSUME Moves, NEW k, NEW w, NEW b, Fits(k, w, b), cr = k.ctl, k.ctl.wr,
         st = "WrD", InWrD(k, w, b)
  PROVE  \/ st' = "WrD" /\ InWrD(k, w, b)'
         \/ st' = "RdAckA" /\ InRdAckA(k, w, b)'
         \/ st' = "WrE" /\ InWrE(k, w, b)'
<1>1. /\ Puts(0, dr[ctr]) /\ ctr' = ctr /\ dr' = dr
      /\ st' = IF sclk THEN (IF ctr = LastBit THEN "RdAckA" ELSE "WrE") ELSE "WrD"
  BY Levels, Stores, Successor, Successors DEF Moves, Quick
<1>2. CASE High(dr[ctr]) /\ Took(k, w, b)
  <2>1. Quiet
    BY <1>2, SteadyQuiet, Seen DEF Moves, High, Took, Taking
  <2>2. Took(k, w, b)' /\ Fall' /\ ~sclk
    BY <1>1, <1>2, <2>1, TookKept, Seen DEF Moves, High, Puts, Fall, InWrD
  <2> QED
    BY <1>1, <2>2 DEF InWrD, Fall
<1>3. CASE Fall /\ Took(k, w, b)
  <2>1. Low' /\ (sclk => ~sclk') /\ sclOut' = 0
    BY <1>1, <1>3, Seen DEF Moves, Fall, Low, Puts
  <2>2. CASE ctr = LastBit
    <3>1. /\ dev.mode = "recv" /\ dev.n = LastBit + 1 /\ dev.addr = k.ctl.sta
          /\ Told(w, Place(k, b) + 1)
      BY <1>3, <2>2 DEF Took, Taking
    <3>2. dev.byte = dr
      <4>1. dev.byte \in Byte /\ dr \in Byte
        BY Seen, CtrRange DEF Moves
      <4>2. \A j \in 0..LastBit : dev.byte[j] = dr[j]
        BY <1>3, <2>2, CtrRange DEF Took, Taking
      <4> QED
        BY <4>1, <4>2, SameByte
    <3>3. \/ /\ dev'.mode = "ack" /\ dev'.drive = 0 /\ dev'.byte = dev.byte /\ dev'.addr = dev.addr
             /\ heard' = heard
          \/ dev'.mode = "off" /\ dev'.drive = 1 /\ heard' = Append(heard, NACK)
      BY <1>3, <3>1, FallAnswers DEF Moves, Fall
    <3>4. Place(k, b) + 1 \in Nat
      BY DEF Fits, Place
    <3>5. Answered(k, w, b)'
      BY <1>1, <3>1, <3>2, <3>3, <3>4, HeardKept, ToldRefused DEF Answered, Away, Moves
    <3> QED
      BY <1>1, <2>1, <2>2, <3>5 DEF InWrD, InRdAckA
  <2>3. CASE ctr # LastBit
    <3>1. Quiet
      BY <1>3, <2>3, FallQuiet, CtrRange DEF Moves, Fall, Took, Taking
    <3>2. Took(k, w, b)' /\ ctr' < LastBit
      BY <1>1, <1>3, <2>3, <3>1, TookKept, CtrRange
    <3> QED
      BY <1>1, <2>1, <2>3, <3>2 DEF InWrD, InWrE
  <2> QED
    BY <2>2, <2>3
<1>4. CASE Low /\ IF ctr = LastBit THEN Answered(k, w, b) ELSE Took(k, w, b)
  <2>1. Quiet
    BY <1>4, LowQuiet DEF Moves, Low
  <2>2. Low' /\ (sclk => ~sclk') /\ sclOut' = 0
    BY <1>1, <1>4, Seen DEF Moves, Low, Puts
  <2>3. IF ctr = LastBit THEN Answered(k, w, b)' ELSE Took(k, w, b)' /\ ctr' < LastBit
    BY <1>1, <1>4, <2>1, TookKept, AnsweredKept, CtrRange
  <2> QED
    BY <1>1, <2>2, <2>3 DEF InWrD, InWrE, InRdAckA
<1> QED
  BY <1>2, <1>3, <1>4 DEF InWrD

\* On to the next bit.
LEMMA WrEStep ==
  ASSUME Moves, NEW k, NEW w, NEW b, Fits(k, w, b), cr = k.ctl, k.ctl.wr,
         st = "WrE", InWrE(k, w, b)
  PROVE  st' = "WrA" /\ InWrA(k, w, b)'
<1>1. Puts(0, dr[ctr]) /\ dr' = dr /\ st' = "WrA"
  BY Levels, Stores, Successor, Successors DEF Moves, Quick
<1>2. ctr' = ctr + 1
  BY Counts DEF Moves, InWrE
<1>3. Quiet
  BY LowQuiet DEF Moves, Low, InWrE
<1>4. Told(w, Place(k, b))'
  BY <1>3, HeardKept, CtrRange DEF Quiet, Took, InWrE
<1>6. Taking(ctr, k.ctl.sta)'
  BY <1>1, <1>2, <1>3, CtrRange DEF Quiet, Took, InWrE, Taking
<1>5. Low'
  BY <1>1, Seen DEF Moves, Puts, Low, InWrE
<1> QED
  BY <1>1, <1>4, <1>5, <1>6 DEF InWrA

\* A byte read: the core has what the device sent.
ReadAll(k, w, b) == Told(w, Place(k, b) + 1) /\ dout = heard[Place(k, b) + 1]
Given(k, w, b) == ReadAll(k, w, b) /\ IF k.ctl.ack THEN Away ELSE Sending(1)

\* What came of the byte, before a STOP and after it.
Outcome(k, w, b) ==
  IF k.ctl.wr THEN \/ ackOut = 0 /\ Told(w, Place(k, b) + 1)
                   \/ ackOut = 1 /\ Refused(w, Place(k, b) + 1)
  ELSE ReadAll(k, w, b)
RefusedEnd(w, n) == /\ Len(heard) = n + 2 /\ heard[n + 1] = NACK /\ heard[n + 2] = STOP
                    /\ \A i \in 1..n : Carried(heard[i], w[i])
Stopped(k, w, b) ==
  /\ Away
  /\ IF k.ctl.wr THEN \/ ackOut = 0 /\ Told(w, Place(k, b) + 2)
                      \/ ackOut = 1 /\ RefusedEnd(w, Place(k, b) + 1)
     ELSE Told(w, Place(k, b) + 2) /\ dout = heard[Place(k, b) + 1]
Ended(k, w, b) ==
  IF k.ctl.stp THEN HoldHigh /\ Stopped(k, w, b)
  ELSE HoldLow /\ IF k.ctl.wr THEN Settled(k, w, b) ELSE Given(k, w, b)

InStopA(k, w, b) == Low /\ Free /\ Outcome(k, w, b) /\ (sclk => sdaOut = 0)
InStopB(k, w, b) == /\ sdaOut = 0 /\ (sclk => sclOut = 1) /\ Outcome(k, w, b)
                    /\ ((Low \/ Rise(0)) /\ Free) \/ (High(0) /\ Loose)
InStopC(k, w, b) ==
  /\ sclk => sdaOut = 1
  /\ \/ High(0) /\ Loose /\ Outcome(k, w, b)
     \/ sclOut = 1 /\ sdaOut = 1 /\ seen = <<1, 0>> /\ Loose /\ Outcome(k, w, b)
     \/ High(1) /\ Stopped(k, w, b)

\* The outcome of a byte stays while nothing is heard.
LEMMA OutcomeKept ==
  ASSUME heard' = heard, ackOut' = ackOut, dout' = dout, NEW k, NEW w, NEW b
  PROVE  Outcome(k, w, b)' <=> Outcome(k, w, b)
BY HeardKept DEF Outcome, ReadAll

\* What a STOP left stays.
LEMMA StoppedKept ==
  ASSUME Quiet, ackOut' = ackOut, dout' = dout, NEW k, NEW w, NEW b
  PROVE  Stopped(k, w, b)' <=> Stopped(k, w, b)
<1>1. RefusedEnd(w, Place(k, b) + 1)' <=> RefusedEnd(w, Place(k, b) + 1)
  BY DEF RefusedEnd, Quiet
<1> QED
  BY <1>1, HeardKept DEF Stopped, Quiet, Away

\* What a byte left stays.
LEMMA SettledKept ==
  ASSUME Quiet, ackOut' = ackOut, dr' = dr, NEW k, NEW w, NEW b
  PROVE  Settled(k, w, b)' <=> Settled(k, w, b)
BY HeardKept DEF Settled, Quiet, Away, ToSend, Sending, Listening

\* The device sees nothing happen while the lines hold.
LEMMA HighQuiet ==
  ASSUME BusTyped, Device, sclOut = 1, sdaOut = 1, seen = <<1, dev.drive>>
  PROVE  Quiet
BY SteadyQuiet, Seen

\* Both lines released: the device decides SDA.
LEMMA High1 ==
  ASSUME BusTyped, Device
  PROVE  High(1) <=> sclOut = 1 /\ sdaOut = 1 /\ seen = <<1, dev.drive>>
<1>1. 1 * dev.drive = dev.drive
  BY Seen
<1> QED
  BY <1>1 DEF High

\* They stay so.
LEMMA StaysHigh1 ==
  ASSUME BusTyped, Device, Puts(1, 1), Quiet, sclOut = 1, sdaOut = 1
  PROVE  High(1)' /\ sdaIn' = dev'.drive
<1>1. seen' = <<1, dev.drive>> /\ dev' = dev /\ sclOut' = 1 /\ sdaOut' = 1 /\ sdaIn' = Sda
  BY Seen DEF Puts, Quiet
<1>2. 1 * dev.drive = dev.drive /\ Sda = dev.drive
  BY Seen
<1> QED
  BY <1>1, <1>2 DEF High

\* The acknowledge of the device, state by state: SDA is released.
LEMMA RdAckAStep ==
  ASSUME Moves, NEW k, NEW w, NEW b, Fits(k, w, b), cr = k.ctl, k.ctl.wr,
         st = "RdAckA", InRdAckA(k, w, b)
  PROVE  \/ st' = "RdAckA" /\ InRdAckA(k, w, b)'
         \/ st' = "RdAckB" /\ InRdAckB(k, w, b)'
<1>1. Puts(0, 1) /\ ctr' = ctr /\ st' = IF sclk THEN "RdAckB" ELSE "RdAckA"
  BY Levels, Stores, Successor, Successors DEF Moves, Quick
<1>2. Quiet
  BY LowQuiet DEF Moves, Low, InRdAckA
<1>3. Answered(k, w, b)'
  BY <1>2, AnsweredKept DEF Moves, InRdAckA
<1>4. Low'
  BY <1>1, Seen DEF Moves, Puts, Low, InRdAckA
<1> QED
  BY <1>1, <1>3, <1>4 DEF InRdAckA, InRdAckB, Moves, Puts

\* SCL rises.
LEMMA RdAckBStep ==
  ASSUME Moves, NEW k, NEW w, NEW b, Fits(k, w, b), cr = k.ctl, k.ctl.wr,
         st = "RdAckB", InRdAckB(k, w, b)
  PROVE  \/ st' = "RdAckB" /\ InRdAckB(k, w, b)'
         \/ st' = "RdAckC" /\ InRdAckC(k, w, b)'
<1>1. Puts(1, 1) /\ ctr' = ctr /\ st' = IF sclk THEN "RdAckC" ELSE "RdAckB"
  BY Levels, Stores, Successor, Successors DEF Moves, Quick
<1>2. CASE Low
  <2>1. Quiet
    BY <1>2, LowQuiet DEF Moves, Low
  <2>2. Answered(k, w, b)'
    BY <2>1, AnsweredKept DEF Moves, InRdAckB
  <2>3. Rise(1)' /\ ~sclk
    BY <1>1, <1>2, Seen DEF Moves, Puts, Low, Rise, InRdAckB
  <2> QED
    BY <1>1, <2>2, <2>3 DEF InRdAckB, Puts
<1>3. CASE Rise(1) \/ High(1)
  <2>1. Quiet
    <3>1. CASE Rise(1)
      <4>1. dev.mode \in {"ack", "off"}
        BY DEF InRdAckB, Answered, Away
      <4> QED
        BY <3>1, <4>1, RiseQuiet DEF Moves, Rise
    <3>2. CASE High(1)
      BY <3>2, HighQuiet, High1 DEF Moves
    <3> QED
      BY <1>3, <3>1, <3>2
  <2>2. Answered(k, w, b)'
    BY <2>1, AnsweredKept DEF Moves, InRdAckB
  <2>3. High(1)' /\ sdaIn' = dev'.drive
    BY <1>1, <1>3, <2>1, StaysHigh1 DEF Moves, High, Rise
  <2> QED
    BY <1>1, <2>2, <2>3 DEF InRdAckB, InRdAckC, Puts, Moves
<1> QED
  BY <1>2, <1>3 DEF InRdAckB

\* The core takes the acknowledge.
LEMMA RdAckCStep ==
  ASSUME Moves, NEW k, NEW w, NEW b, Fits(k, w, b), cr = k.ctl, k.ctl.wr,
         st = "RdAckC", InRdAckC(k, w, b)
  PROVE  st' = "RdAckD" /\ InRdAckD(k, w, b)'
<1>1. Puts(1, 1) /\ ctr' = ctr /\ ackOut' = sdaIn /\ st' = "RdAckD"
  BY Levels, Stores, Successor, Successors DEF Moves, Quick
<1>2. Quiet /\ sclOut = 1 /\ sdaOut = 1
  BY HighQuiet, High1 DEF Moves, InRdAckC
<1>3. Answered(k, w, b)' /\ High(1)' /\ dev' = dev
  BY <1>1, <1>2, AnsweredKept, StaysHigh1 DEF Moves, InRdAckC, Quiet
<1> QED
  BY <1>1, <1>3 DEF InRdAckC, InRdAckD

\* SCL stays high.
LEMMA RdAckDStep ==
  ASSUME Moves, NEW k, NEW w, NEW b, Fits(k, w, b), cr = k.ctl, k.ctl.wr,
         st = "RdAckD", InRdAckD(k, w, b)
  PROVE  \/ st' = "RdAckD" /\ InRdAckD(k, w, b)'
         \/ st' = "RdAckE" /\ InRdAckE(k, w, b)'
<1>1. Puts(1, 1) /\ ctr' = ctr /\ ackOut' = ackOut /\ st' = IF sclk THEN "RdAckE" ELSE "RdAckD"
  BY Levels, Stores, Successor, Successors DEF Moves, Quick
<1>2. Quiet /\ sclOut = 1 /\ sdaOut = 1
  BY HighQuiet, High1 DEF Moves, InRdAckD
<1>3. Answered(k, w, b)' /\ High(1)' /\ dev' = dev
  BY <1>1, <1>2, AnsweredKept, StaysHigh1 DEF Moves, InRdAckD, Quiet
<1> QED
  BY <1>1, <1>3 DEF InRdAckD, InRdAckE, Moves

\* SCL falls: the device listens again, sends, or has gone away.
LEMMA RdAckEStep ==
  ASSUME Moves, NEW k, NEW w, NEW b, Fits(k, w, b), cr = k.ctl, k.ctl.wr,
         st = "RdAckE", InRdAckE(k, w, b)
  PROVE  \/ st' = "RdAckE" /\ InRdAckE(k, w, b)'
         \/ st' = "StopA" /\ k.ctl.stp /\ InStopA(k, w, b)'
         \/ st' = "Done" /\ Ended(k, w, b)'
<1>1. /\ Puts(0, 1) /\ ctr' = ctr /\ ackOut' = ackOut /\ dout' = dout
      /\ st' = IF sclk THEN (IF k.ctl.stp THEN "StopA" ELSE "Done") ELSE "RdAckE"
  BY Levels, Stores, Successor, Successors DEF Moves, Quick
<1>2. ctr = LastBit /\ LastBit \in Nat
  BY BusAssumption DEF InRdAckE
<1>3. CASE High(1) /\ Answered(k, w, b) /\ ackOut = dev.drive
  <2>1. Quiet
    BY <1>3, HighQuiet, High1 DEF Moves
  <2>2. Answered(k, w, b)' /\ Fall' /\ ~sclk /\ dev' = dev
    BY <1>1, <1>3, <2>1, AnsweredKept, Seen DEF Moves, High, Puts, Fall, InRdAckE, Quiet
  <2> QED
    BY <1>1, <1>2, <1>3, <2>2 DEF InRdAckE, Fall
<1>4. ASSUME Low', sclOut = 0, Settled(k, w, b)'
      PROVE  \/ st' = "RdAckE" /\ InRdAckE(k, w, b)'
             \/ st' = "StopA" /\ k.ctl.stp /\ InStopA(k, w, b)'
             \/ st' = "Done" /\ Ended(k, w, b)'
  <2>1. CASE ~sclk
    BY <1>1, <1>2, <1>4, <2>1 DEF InRdAckE, Low
  <2>2. CASE sclk /\ k.ctl.stp
    <3>1. Free'
      BY <1>4, <2>2 DEF Fits, Settled, ToSend, Free
    <3>2. Outcome(k, w, b)'
      BY <1>4 DEF Settled, Outcome
    <3> QED
      BY <1>1, <1>4, <2>2, <3>1, <3>2 DEF InStopA, Moves
  <2>3. CASE sclk /\ ~k.ctl.stp
    BY <1>1, <1>4, <2>3 DEF Ended, Puts, HoldLow, Low
  <2> QED
    BY <2>1, <2>2, <2>3
<1>5. CASE Fall /\ Answered(k, w, b) /\ ackOut = dev.drive
  <2>1. Low' /\ sclOut = 0
    BY <1>1, <1>5, Seen DEF Moves, Fall, Low, Puts
  <2>2. Settled(k, w, b)'
    <3>1. CASE dev.mode = "ack" /\ dev.drive = 0 /\ dev.byte = dr /\ dev.addr = k.ctl.sta
               /\ Told(w, Place(k, b) + 1)
      <4>1. /\ heard' = heard
            /\ IF ToSend(k)
               THEN dev'.mode = "send" /\ dev'.n = 1 /\ dev'.drive = dev'.byte[0]
               ELSE dev'.mode = "recv" /\ dev'.n = 0 /\ dev'.drive = 1 /\ dev'.addr = FALSE
        BY <1>5, <3>1, FallReleases DEF Moves, Fall, ToSend
      <4>2. ToSend(k)' <=> ToSend(k)
        BY DEF Moves, ToSend
      <4>3. IF ToSend(k)' THEN Sending(1)' ELSE Listening'
        BY <4>1, <4>2 DEF Sending, Listening
      <4> QED
        BY <1>1, <1>5, <3>1, <4>1, <4>3, HeardKept DEF Settled
    <3>2. CASE Away /\ Refused(w, Place(k, b) + 1)
      <4>1. Quiet
        BY <1>5, <3>2, FallQuiet DEF Moves, Fall, Away
      <4> QED
        BY <1>1, <1>5, <3>2, <4>1, HeardKept DEF Settled, Quiet, Away
    <3> QED
      BY <1>5, <3>1, <3>2 DEF Answered
  <2> QED
    BY <1>4, <2>1, <2>2
<1>6. CASE Low /\ Settled(k, w, b)
  <2>1. Quiet
    BY <1>6, LowQuiet DEF Moves, Low
  <2>2. Low' /\ sclOut = 0 /\ Settled(k, w, b)'
    BY <1>1, <1>6, <2>1, Seen, SettledKept DEF Moves, Low, Puts
  <2> QED
    BY <1>4, <2>2
<1> QED
  BY <1>3, <1>5, <1>6 DEF InRdAckE

\* A free device stays free while it sees nothing.
LEMMA FreeKept ==
  ASSUME Quiet
  PROVE  (Free' <=> Free) /\ (Loose' <=> Loose) /\ (Away' <=> Away)
BY DEF Quiet, Free, Loose, Away, Listening

\* A device that is free to take a bit takes it as no more than that.
LEMMA RiseLoose ==
  ASSUME BusTyped, Device, sclOut = 1, seen[1] = 0, Free
  PROVE  Loose' /\ heard' = heard
<1>1. CASE Away
  BY <1>1, RiseQuiet DEF Away, Loose, Quiet
<1>2. CASE Listening
  BY <1>2, RiseTakes, BusAssumption DEF Listening, Loose
<1> QED
  BY <1>1, <1>2 DEF Free

\* The STOP condition, state by state: SDA goes low.
LEMMA StopAStep ==
  ASSUME Moves, NEW k, NEW w, NEW b, Fits(k, w, b), cr = k.ctl, k.ctl.stp,
         st = "StopA", InStopA(k, w, b)
  PROVE  \/ st' = "StopA" /\ InStopA(k, w, b)'
         \/ st' = "StopB" /\ InStopB(k, w, b)'
<1>1. /\ Puts(0, 0) /\ ackOut' = ackOut /\ dout' = dout
      /\ st' = IF sclk THEN "StopB" ELSE "StopA"
  BY Levels, Stores, Successor, Successors DEF Moves, Quick
<1>2. Quiet
  BY LowQuiet DEF Moves, Low, InStopA
<1>3. Outcome(k, w, b)' /\ Free'
  BY <1>1, <1>2, FreeKept, OutcomeKept DEF Moves, InStopA, Quiet
<1>4. Low'
  BY <1>1, Seen DEF Moves, Puts, Low, InStopA
<1> QED
  BY <1>1, <1>3, <1>4 DEF InStopA, InStopB, Moves, Puts

\* SCL rises.
LEMMA StopBStep ==
  ASSUME Moves, NEW k, NEW w, NEW b, Fits(k, w, b), cr = k.ctl, k.ctl.stp,
         st = "StopB", InStopB(k, w, b)
  PROVE  \/ st' = "StopB" /\ InStopB(k, w, b)'
         \/ st' = "StopC" /\ InStopC(k, w, b)'
<1>1. /\ Puts(1, 0) /\ ackOut' = ackOut /\ dout' = dout
      /\ st' = IF sclk THEN "StopC" ELSE "StopB"
  BY Levels, Stores, Successor, Successors DEF Moves, Quick
<1>2. CASE Low /\ Free
  <2>1. Quiet
    BY <1>2, LowQuiet DEF Moves, Low
  <2>2. Outcome(k, w, b)' /\ Free'
    BY <1>1, <1>2, <2>1, FreeKept, OutcomeKept DEF InStopB, Quiet
  <2>3. Rise(0)' /\ ~sclk
    BY <1>1, <1>2, Seen DEF Moves, Puts, Low, Rise, InStopB
  <2> QED
    BY <1>1, <2>2, <2>3 DEF InStopB, Puts
<1>3. CASE (Rise(0) /\ Free) \/ (High(0) /\ Loose)
  <2>1. Loose' /\ heard' = heard
    <3>1. CASE Rise(0) /\ Free
      BY <3>1, RiseLoose DEF Moves, Rise
    <3>2. CASE High(0) /\ Loose
      <4>1. Quiet
        BY <3>2, SteadyQuiet, Seen DEF Moves, High, Loose
      <4> QED
        BY <3>2, <4>1, FreeKept DEF Quiet
    <3> QED
      BY <1>3, <3>1, <3>2
  <2>2. Outcome(k, w, b)'
    BY <1>1, <2>1, OutcomeKept DEF InStopB
  <2>3. High(0)'
    <3>1. Sda = 0 /\ sclOut = 1
      BY <1>3, Seen DEF Moves, High, Rise, Loose, Free, Away, Listening
    <3> QED
      BY <1>1, <2>1, <3>1, Seen DEF Moves, Puts, High, Loose
  <2> QED
    BY <1>1, <2>1, <2>2, <2>3 DEF InStopB, InStopC, Puts, Moves
<1> QED
  BY <1>2, <1>3 DEF InStopB

\* SDA rises while SCL is high: the device hears a STOP.
LEMMA StopCStep ==
  ASSUME Moves, NEW k, NEW w, NEW b, Fits(k, w, b), cr = k.ctl, k.ctl.stp,
         st = "StopC", InStopC(k, w, b)
  PROVE  \/ st' = "StopC" /\ InStopC(k, w, b)'
         \/ st' = "Done" /\ Ended(k, w, b)'
<1>1. /\ Puts(1, 1) /\ ackOut' = ackOut /\ dout' = dout
      /\ st' = IF sclk THEN "Done" ELSE "StopC"
  BY Levels, Stores, Successor, Successors DEF Moves, Quick
<1>2. CASE High(0) /\ Loose /\ Outcome(k, w, b)
  <2>1. Quiet
    BY <1>2, SteadyQuiet, Seen DEF Moves, High, Loose
  <2>2. Outcome(k, w, b)' /\ Loose'
    BY <1>1, <1>2, <2>1, FreeKept, OutcomeKept DEF Quiet
  <2>3. seen' = <<1, 0>> /\ ~sclk
    BY <1>2, Seen DEF Moves, High, Loose, InStopC
  <2> QED
    BY <1>1, <2>2, <2>3 DEF InStopC, Puts
<1>3. ASSUME Stopped(k, w, b)', sclOut = 1, Sda = 1
      PROVE  \/ st' = "StopC" /\ InStopC(k, w, b)'
             \/ st' = "Done" /\ Ended(k, w, b)'
  <2>1. seen' = <<1, 1>> /\ Away'
    BY <1>3, Seen DEF Moves, Stopped
  <2>2. HoldHigh' /\ High(1)'
    BY <1>1, <1>3, <2>1 DEF Puts, HoldHigh, High, Away
  <2> QED
    BY <1>1, <1>3, <2>2 DEF InStopC, Ended, Puts
<1>4. CASE sclOut = 1 /\ sdaOut = 1 /\ seen = <<1, 0>> /\ Loose /\ Outcome(k, w, b)
  <2> DEFINE p == Place(k, b)
  <2>1. Away' /\ heard' = Append(heard, STOP) /\ Sda = 1
    BY <1>4, StopSeen, Seen DEF Moves, Loose, Away
  <2>2. p + 1 \in Nat /\ p \in Nat /\ w[p + 2] = STOP
    BY DEF Fits, Place
  <2> HIDE DEF p
  <2>3. Told(w, p + 1) => Told(w, p + 2)'
    <3>1. Carried(STOP, w[(p + 1) + 1]) /\ p + 2 = (p + 1) + 1
      BY <2>2 DEF Carried
    <3> QED
      BY <2>1, <2>2, <3>1, ToldMore DEF Moves
  <2>4. Refused(w, p + 1) => RefusedEnd(w, p + 1)'
    BY <2>1, <2>2 DEF Moves, HeardTyped, Refused, RefusedEnd
  <2>5. Told(w, p + 1) => heard'[p + 1] = heard[p + 1]
    BY <2>1, <2>2 DEF Moves, HeardTyped, Told
  <2>6. Outcome(k, w, b)
    BY <1>4
  <2>7. Stopped(k, w, b)'
    <3>1. CASE k.ctl.wr
      BY <1>1, <2>1, <2>3, <2>4, <2>6, <3>1 DEF Stopped, Outcome, p
    <3>2. CASE ~k.ctl.wr
      BY <1>1, <2>1, <2>3, <2>5, <2>6, <3>2 DEF Stopped, Outcome, ReadAll, p
    <3> QED
      BY <3>1, <3>2
  <2> QED
    BY <1>3, <1>4, <2>1, <2>7
<1>5. CASE High(1) /\ Stopped(k, w, b)
  <2>1. Quiet /\ sclOut = 1
    BY <1>5, HighQuiet, High1 DEF Moves
  <2>2. Stopped(k, w, b)'
    BY <1>1, <1>5, <2>1, StoppedKept
  <2>3. Sda = 1
    BY <1>5, Seen DEF Moves, High, Stopped, Away
  <2> QED
    BY <1>3, <2>1, <2>2, <2>3
<1> QED
  BY <1>2, <1>4, <1>5 DEF InStopC

\* Between two commands the lines stay where the last one left them.
LEMMA HoldStays ==
  ASSUME BusTyped, Core, Device, st \in {"Idle", "Done", "DoneAck"}
  PROVE  /\ HoldHigh => HoldHigh' /\ Quiet
         /\ HoldLow => HoldLow' /\ Quiet
         /\ ackOut' = ackOut /\ dout' = dout
<1>1. Puts(sclIn, sdaIn) /\ ackOut' = ackOut /\ dout' = dout
  BY Levels, Stores
<1>2. ASSUME HoldHigh PROVE HoldHigh' /\ Quiet
  <2>1. Quiet /\ Sda = 1 /\ seen' = <<1, 1>>
    BY <1>2, HighQuiet, Seen DEF HoldHigh, Away
  <2> QED
    BY <1>1, <1>2, <2>1 DEF HoldHigh, Puts, Quiet, Away
<1>3. ASSUME HoldLow PROVE HoldLow' /\ Quiet
  <2>1. Quiet
    BY <1>3, LowQuiet DEF HoldLow
  <2> QED
    BY <1>1, <1>3, <2>1, Seen DEF HoldLow, Puts
<1> QED
  BY <1>1, <1>2, <1>3

\* The outcome of a command stays while the core holds the lines.
LEMMA EndedStays ==
  ASSUME BusTyped, Core, Device, dr' = dr, st \in {"Idle", "Done", "DoneAck"},
         NEW k, NEW w, NEW b, Ended(k, w, b)
  PROVE  Ended(k, w, b)'
<1>1. Quiet /\ ackOut' = ackOut /\ dout' = dout
  BY HoldStays DEF Ended
<1>2. /\ Stopped(k, w, b)' <=> Stopped(k, w, b)
      /\ Settled(k, w, b)' <=> Settled(k, w, b)
      /\ Given(k, w, b)' <=> Given(k, w, b)
  BY <1>1, StoppedKept, SettledKept, HeardKept DEF Given, ReadAll, Quiet, Away, Sending
<1> QED
  BY <1>2, HoldStays DEF Ended

\* The first n bits of the byte are in dout; the device drives bit n, counted from 0.
Copied(n) == \A j \in 0..n - 1 : dout[j] = dev.byte[j]
Fetching(k, w, b, n) == Sending(n + 1) /\ Told(w, Place(k, b))
Waiting(k, w, b) == dev.mode = "wait" /\ dev.drive = 1 /\ ReadAll(k, w, b)
AckBit == IF cr.ack THEN 1 ELSE 0
Acked(k, w, b) == /\ ReadAll(k, w, b) /\ dev.drive = 1
                  /\ dev.mode = IF cr.ack THEN "off" ELSE "more"

InRdA(k, w, b) == Low /\ Fetching(k, w, b, ctr) /\ Copied(ctr)
InRdB(k, w, b) == /\ sdaOut = 1 /\ (sclk => sclOut = 1) /\ Fetching(k, w, b, ctr) /\ Copied(ctr)
                  /\ Low \/ Rise(1) \/ High(1)
InRdC(k, w, b) == High(1) /\ sdaIn = dev.drive /\ Fetching(k, w, b, ctr) /\ Copied(ctr)
InRdD(k, w, b) == High(1) /\ Fetching(k, w, b, ctr) /\ Copied(ctr + 1)
InRdE(k, w, b) ==
  /\ sclk => sclOut = 0
  /\ \/ (High(1) \/ Fall) /\ Fetching(k, w, b, ctr) /\ Copied(ctr + 1)
     \/ Low /\ IF ctr = LastBit THEN Waiting(k, w, b)
               ELSE Fetching(k, w, b, ctr + 1) /\ Copied(ctr + 1)
InRdF(k, w, b) == ctr < LastBit /\ Low /\ Fetching(k, w, b, ctr + 1) /\ Copied(ctr + 1)
InWrAckA(k, w, b) == Low /\ Waiting(k, w, b) /\ (sclk => sdaOut = AckBit)
InWrAckB(k, w, b) == /\ sdaOut = AckBit /\ (sclk => sclOut = 1)
                     /\ \/ (Low \/ Rise(AckBit)) /\ Waiting(k, w, b)
                        \/ High(AckBit) /\ Acked(k, w, b)
InWrAckC(k, w, b) == High(AckBit) /\ Acked(k, w, b)
InWrAckD(k, w, b) ==
  /\ sclk => sclOut = 0
  /\ ((High(AckBit) \/ Fall) /\ Acked(k, w, b)) \/ (Low /\ Given(k, w, b))

\* The device goes on sending while it sees nothing.
LEMMA FetchingKept ==
  ASSUME Quiet, ctr' = ctr, NEW k, NEW w, NEW b
  PROVE  /\ Fetching(k, w, b, ctr)' <=> Fetching(k, w, b, ctr)
         /\ Fetching(k, w, b, ctr + 1)' <=> Fetching(k, w, b, ctr + 1)
BY HeardKept DEF Quiet, Fetching, Sending

\* The bits the core has copied it keeps.
LEMMA CopiedKept ==
  ASSUME Quiet, ctr' = ctr, dout' = dout
  PROVE  (Copied(ctr)' <=> Copied(ctr)) /\ (Copied(ctr + 1)' <=> Copied(ctr + 1))
BY DEF Quiet, Copied

\* A byte the core has it keeps.
LEMMA ReadAllKept ==
  ASSUME Quiet, dout' = dout, cr' = cr, NEW k, NEW w, NEW b
  PROVE  /\ ReadAll(k, w, b)' <=> ReadAll(k, w, b)
         /\ Waiting(k, w, b)' <=> Waiting(k, w, b)
         /\ Acked(k, w, b)' <=> Acked(k, w, b)
         /\ Given(k, w, b)' <=> Given(k, w, b)
BY HeardKept DEF Quiet, ReadAll, Waiting, Acked, Given, Away, Sending

\* A byte read, state by state: SDA is released.
LEMMA RdAStep ==
  ASSUME Moves, NEW k, NEW w, NEW b, Fits(k, w, b), cr = k.ctl, ~k.ctl.wr,
         st = "RdA", InRdA(k, w, b)
  PROVE  \/ st' = "RdA" /\ InRdA(k, w, b)'
         \/ st' = "RdB" /\ InRdB(k, w, b)'
<1>1. Puts(0, 1) /\ ctr' = ctr /\ dout' = dout /\ st' = IF sclk THEN "RdB" ELSE "RdA"
  BY Levels, Stores, Successor, Successors DEF Moves, Quick
<1>2. Quiet
  BY LowQuiet DEF Moves, Low, InRdA
<1>3. Fetching(k, w, b, ctr)' /\ Copied(ctr)'
  BY <1>1, <1>2, FetchingKept, CopiedKept DEF InRdA
<1>4. Low'
  BY <1>1, Seen DEF Moves, Puts, Low, InRdA
<1> QED
  BY <1>1, <1>3, <1>4 DEF InRdA, InRdB, Moves, Puts

\* SCL rises.
LEMMA RdBStep ==
  ASSUME Moves, NEW k, NEW w, NEW b, Fits(k, w, b), cr = k.ctl, ~k.ctl.wr,
         st = "RdB", InRdB(k, w, b)
  PROVE  \/ st' = "RdB" /\ InRdB(k, w, b)'
         \/ st' = "RdC" /\ InRdC(k, w, b)'
<1>1. Puts(1, 1) /\ ctr' = ctr /\ dout' = dout /\ st' = IF sclk THEN "RdC" ELSE "RdB"
  BY Levels, Stores, Successor, Successors DEF Moves, Quick
<1>2. Quiet
  <2>1. CASE Low
    BY <2>1, LowQuiet DEF Moves, Low
  <2>2. CASE Rise(1)
    BY <2>2, RiseQuiet DEF Moves, Rise, InRdB, Fetching, Sending
  <2>3. CASE High(1)
    BY <2>3, HighQuiet, High1 DEF Moves
  <2> QED
    BY <2>1, <2>2, <2>3 DEF InRdB
<1>3. Fetching(k, w, b, ctr)' /\ Copied(ctr)'
  BY <1>1, <1>2, FetchingKept, CopiedKept DEF InRdB
<1>4. CASE Low
  <2>1. Rise(1)' /\ ~sclk
    BY <1>1, <1>4, Seen DEF Moves, Puts, Low, Rise, InRdB
  <2> QED
    BY <1>1, <1>3, <2>1 DEF InRdB, Puts
<1>5. CASE Rise(1) \/ High(1)
  <2>1. High(1)' /\ sdaIn' = dev'.drive
    BY <1>1, <1>2, <1>5, StaysHigh1 DEF Moves, High, Rise
  <2> QED
    BY <1>1, <1>3, <2>1 DEF InRdB, InRdC, Puts, Moves
<1> QED
  BY <1>4, <1>5 DEF InRdB

\* The core takes the bit the device drives.
LEMMA RdCStep ==
  ASSUME Moves, NEW k, NEW w, NEW b, Fits(k, w, b), cr = k.ctl, ~k.ctl.wr,
         st = "RdC", InRdC(k, w, b)
  PROVE  st' = "RdD" /\ InRdD(k, w, b)'
<1>1. Puts(1, 1) /\ ctr' = ctr /\ dout' = [dout EXCEPT ![ctr] = sdaIn] /\ st' = "RdD"
  BY Levels, Stores, Successor, Successors DEF Moves, Quick
<1>2. Quiet /\ sclOut = 1 /\ sdaOut = 1
  BY HighQuiet, High1 DEF Moves, InRdC
<1>3. High(1)' /\ dev' = dev /\ Fetching(k, w, b, ctr)'
  BY <1>1, <1>2, StaysHigh1, FetchingKept DEF Moves, InRdC, Quiet
<1>4. Copied(ctr + 1)'
  <2>1. ctr \in 0..LastBit /\ LastBit \in Nat /\ dout \in [0..LastBit -> Bit]
    BY CtrRange DEF Moves, BusTyped, Byte
  <2>2. sdaIn = dev.byte[ctr]
    BY <2>1 DEF InRdC, Fetching, Sending
  <2>3. \A j \in 0..ctr : dout'[j] = dev.byte[j]
    BY <1>1, <2>1, <2>2 DEF InRdC, Copied
  <2> QED
    BY <1>1, <1>3, <2>1, <2>3 DEF Copied
<1> QED
  BY <1>1, <1>3, <1>4 DEF InRdD

\* SCL stays high.
LEMMA RdDStep ==
  ASSUME Moves, NEW k, NEW w, NEW b, Fits(k, w, b), cr = k.ctl, ~k.ctl.wr,
         st = "RdD", InRdD(k, w, b)
  PROVE  \/ st' = "RdD" /\ InRdD(k, w, b)'
         \/ st' = "RdE" /\ InRdE(k, w, b)'
<1>1. Puts(1, 1) /\ ctr' = ctr /\ dout' = dout /\ st' = IF sclk THEN "RdE" ELSE "RdD"
  BY Levels, Stores, Successor, Successors DEF Moves, Quick
<1>2. Quiet /\ sclOut = 1 /\ sdaOut = 1
  BY HighQuiet, High1 DEF Moves, InRdD
<1>3. High(1)' /\ Fetching(k, w, b, ctr)' /\ Copied(ctr + 1)'
  BY <1>1, <1>2, StaysHigh1, FetchingKept, CopiedKept DEF Moves, InRdD
<1> QED
  BY <1>1, <1>3 DEF InRdD, InRdE, Moves

\* SCL falls: the device drives its next bit, or has sent its byte.
LEMMA RdEStep ==
  ASSUME Moves, NEW k, NEW w, NEW b, Fits(k, w, b), cr = k.ctl, ~k.ctl.wr,
         st = "RdE", InRdE(k, w, b)
  PROVE  \/ st' = "RdE" /\ InRdE(k, w, b)'
         \/ st' = "WrAckA" /\ ctr' = LastBit /\ InWrAckA(k, w, b)'
         \/ st' = "RdF" /\ InRdF(k, w, b)'
<1>1. /\ Puts(0, 1) /\ ctr' = ctr /\ dout' = dout
      /\ st' = IF sclk THEN (IF ctr = LastBit THEN "WrAckA" ELSE "RdF") ELSE "RdE"
  BY Levels, Stores, Successor, Successors DEF Moves, Quick
<1>2. CASE High(1) /\ Fetching(k, w, b, ctr) /\ Copied(ctr + 1)
  <2>1. Quiet
    BY <1>2, HighQuiet, High1 DEF Moves
  <2>2. Fetching(k, w, b, ctr)' /\ Copied(ctr + 1)' /\ Fall' /\ ~sclk
    BY <1>1, <1>2, <2>1, FetchingKept, CopiedKept, Seen DEF Moves, High, Puts, Fall, InRdE
  <2> QED
    BY <1>1, <2>2 DEF InRdE, Fall
<1>3. ASSUME Low',
             IF ctr = LastBit THEN Waiting(k, w, b)'
             ELSE Fetching(k, w, b, ctr + 1)' /\ Copied(ctr + 1)'
      PROVE  \/ st' = "RdE" /\ InRdE(k, w, b)'
             \/ st' = "WrAckA" /\ ctr' = LastBit /\ InWrAckA(k, w, b)'
             \/ st' = "RdF" /\ InRdF(k, w, b)'
  <2>1. CASE ~sclk
    BY <1>1, <1>3, <2>1 DEF InRdE, Low
  <2>2. CASE sclk /\ ctr = LastBit
    BY <1>1, <1>3, <2>2 DEF InWrAckA, Moves
  <2>3. CASE sclk /\ ctr # LastBit
    BY <1>1, <1>3, <2>3, CtrRange DEF InRdF
  <2> QED
    BY <2>1, <2>2, <2>3
<1>4. CASE Fall /\ Fetching(k, w, b, ctr) /\ Copied(ctr + 1)
  <2>1. Low'
    BY <1>1, <1>4, Seen DEF Moves, Fall, Low, Puts
  <2>2. /\ dev.n = ctr + 1 /\ dev.mode = "send" /\ Told(w, Place(k, b))
        /\ ctr \in 0..LastBit /\ LastBit \in Nat
    BY <1>4, CtrRange DEF Fetching, Sending
  <2>3. CASE ctr = LastBit
    <3>1. dev'.mode = "wait" /\ dev'.drive = 1 /\ heard' = Append(heard, dev.byte)
      BY <1>4, <2>2, <2>3, FallSends DEF Moves, Fall
    <3>2. dev.byte \in Byte /\ dout \in Byte
      BY Seen DEF Moves, BusTyped
    <3>3. dout = dev.byte
      BY <1>4, <2>2, <2>3, <3>2, SameByte DEF Copied
    <3>4. Carried(dev.byte, w[Place(k, b) + 1]) /\ Place(k, b) \in Nat
      BY <3>2 DEF Fits, Carried, Place
    <3>5. Told(w, Place(k, b) + 1)'
      BY <2>2, <3>1, <3>4, ToldMore DEF Moves
    <3>6. heard'[Place(k, b) + 1] = dev.byte
      BY <2>2, <3>1, <3>4 DEF Told, Moves, HeardTyped
    <3> QED
      BY <1>1, <1>3, <2>1, <2>3, <3>1, <3>3, <3>5, <3>6 DEF Waiting, ReadAll
  <2>4. CASE ctr # LastBit
    <3>1. /\ dev'.mode = "send" /\ dev'.n = ctr + 2 /\ dev'.byte = dev.byte
          /\ dev'.drive = dev.byte[ctr + 1] /\ heard' = heard
      BY <1>4, <2>2, <2>4, FallSends DEF Moves, Fall
    <3>2. Copied(ctr + 1)'
      BY <1>1, <1>4, <3>1 DEF Copied
    <3>3. Told(w, Place(k, b))'
      BY <2>2, <3>1, HeardKept
    <3>4. Sending((ctr + 1) + 1)'
      BY <1>1, <2>2, <3>1 DEF Sending
    <3> QED
      BY <1>3, <2>1, <2>4, <3>2, <3>3, <3>4 DEF Fetching
  <2> QED
    BY <2>3, <2>4
<1>5. CASE Low /\ IF ctr = LastBit THEN Waiting(k, w, b)
                  ELSE Fetching(k, w, b, ctr + 1) /\ Copied(ctr + 1)
  <2>1. Quiet /\ cr' = cr
    BY <1>5, LowQuiet DEF Moves, Low
  <2>2. Low'
    BY <1>1, <1>5, Seen DEF Moves, Low, Puts
  <2> QED
    BY <1>1, <1>3, <1>5, <2>1, <2>2, ReadAllKept, FetchingKept, CopiedKept
<1> QED
  BY <1>2, <1>4, <1>5 DEF InRdE

\* On to the next bit.
LEMMA RdFStep ==
  ASSUME Moves, NEW k, NEW w, NEW b, Fits(k, w, b), cr = k.ctl, ~k.ctl.wr,
         st = "RdF", InRdF(k, w, b)
  PROVE  st' = "RdA" /\ InRdA(k, w, b)'
<1>1. Puts(0, 1) /\ dout' = dout /\ st' = "RdA"
  BY Levels, Stores, Successor, Successors DEF Moves, Quick
<1>2. ctr' = ctr + 1
  BY Counts DEF Moves, InRdF
<1>3. Quiet
  BY LowQuiet DEF Moves, Low, InRdF
<1>4. Fetching(k, w, b, ctr)'
  BY <1>1, <1>2, <1>3, HeardKept DEF Quiet, InRdF, Fetching, Sending
<1>5. Copied(ctr)'
  BY <1>1, <1>2, <1>3 DEF Quiet, InRdF, Copied
<1>6. Low'
  BY <1>1, Seen DEF Moves, Puts, Low, InRdF
<1> QED
  BY <1>1, <1>4, <1>5, <1>6 DEF InRdA

\* The level of the acknowledge the core sends.
LEMMA AckLevel ==
  ASSUME Moves
  PROVE  AckBit' = AckBit /\ AckBit \in {0, 1} /\ AckBit * 1 = AckBit
         /\ (AckBit = 0 <=> ~cr.ack)
BY DEF Moves, AckBit

\* The acknowledge of the core, state by state: SDA is at it.
LEMMA WrAckAStep ==
  ASSUME Moves, NEW k, NEW w, NEW b, Fits(k, w, b), cr = k.ctl, ~k.ctl.wr,
         st = "WrAckA", InWrAckA(k, w, b)
  PROVE  \/ st' = "WrAckA" /\ InWrAckA(k, w, b)'
         \/ st' = "WrAckB" /\ InWrAckB(k, w, b)'
<1>1. Puts(0, AckBit) /\ dout' = dout /\ st' = IF sclk THEN "WrAckB" ELSE "WrAckA"
  BY Levels, Stores, Successor, Successors DEF Moves, Quick, AckBit
<1>2. Quiet
  BY LowQuiet DEF Moves, Low, InWrAckA
<1>3. Waiting(k, w, b)'
  BY <1>1, <1>2, ReadAllKept DEF Moves, InWrAckA
<1>4. Low' /\ sdaOut' = AckBit'
  BY <1>1, Seen, AckLevel DEF Moves, Puts, Low, InWrAckA
<1> QED
  BY <1>1, <1>3, <1>4 DEF InWrAckA, InWrAckB, Moves

\* SCL rises and the device takes it.
LEMMA WrAckBStep ==
  ASSUME Moves, NEW k, NEW w, NEW b, Fits(k, w, b), cr = k.ctl, ~k.ctl.wr,
         st = "WrAckB", InWrAckB(k, w, b)
  PROVE  \/ st' = "WrAckB" /\ InWrAckB(k, w, b)'
         \/ st' = "WrAckC" /\ InWrAckC(k, w, b)'
<1>1. Puts(1, AckBit) /\ dout' = dout /\ cr' = cr /\ st' = IF sclk THEN "WrAckC" ELSE "WrAckB"
  BY Levels, Stores, Successor, Successors DEF Moves, Quick, AckBit
<1>2. CASE Low /\ Waiting(k, w, b)
  <2>1. Quiet
    BY <1>2, LowQuiet DEF Moves, Low
  <2>2. Waiting(k, w, b)'
    BY <1>1, <1>2, <2>1, ReadAllKept
  <2>3. Rise(AckBit)' /\ ~sclk
    BY <1>1, <1>2, Seen, AckLevel DEF Moves, Puts, Low, Rise, InWrAckB
  <2> QED
    BY <1>1, <2>2, <2>3 DEF InWrAckB, Rise
<1>3. ASSUME Acked(k, w, b)', sclOut = 1, dev.drive = 1
      PROVE  \/ st' = "WrAckB" /\ InWrAckB(k, w, b)'
             \/ st' = "WrAckC" /\ InWrAckC(k, w, b)'
  <2>1. seen' = <<1, AckBit>> /\ dev'.drive = 1
    BY <1>3, Seen DEF Moves, Acked, InWrAckB
  <2>2. High(AckBit)'
    BY <1>1, <2>1, AckLevel DEF High, Puts
  <2> QED
    BY <1>1, <1>3, <2>2, AckLevel DEF InWrAckB, InWrAckC, Puts, Moves
<1>4. CASE Rise(AckBit) /\ Waiting(k, w, b)
  <2>1. heard' = heard /\ dev'.drive = 1 /\ dev'.mode = IF sdaOut = 0 THEN "more" ELSE "off"
    BY <1>4, RiseAcked DEF Moves, Rise, Waiting
  <2>2. ReadAll(k, w, b)'
    BY <1>1, <1>4, <2>1, HeardKept DEF Waiting, ReadAll
  <2>3. Acked(k, w, b)'
    BY <1>1, <1>4, <2>1, <2>2, AckLevel DEF Acked, Rise
  <2> QED
    BY <1>3, <1>4, <2>3 DEF Rise, Waiting
<1>5. CASE High(AckBit) /\ Acked(k, w, b)
  <2>1. Quiet
    BY <1>5, SteadyQuiet, Seen DEF Moves, High, Acked
  <2> QED
    BY <1>1, <1>3, <1>5, <2>1, ReadAllKept DEF High, Acked
<1> QED
  BY <1>2, <1>4, <1>5 DEF InWrAckB

\* SCL stays high.
LEMMA WrAckCStep ==
  ASSUME Moves, NEW k, NEW w, NEW b, Fits(k, w, b), cr = k.ctl, ~k.ctl.wr,
         st = "WrAckC", InWrAckC(k, w, b)
  PROVE  \/ st' = "WrAckC" /\ InWrAckC(k, w, b)'
         \/ st' = "WrAckD" /\ InWrAckD(k, w, b)'
<1>1. Puts(1, AckBit) /\ dout' = dout /\ cr' = cr /\ st' = IF sclk THEN "WrAckD" ELSE "WrAckC"
  BY Levels, Stores, Successor, Successors DEF Moves, Quick, AckBit
<1>2. Quiet
  BY SteadyQuiet, Seen DEF Moves, High, Acked, InWrAckC
<1>3. Acked(k, w, b)'
  BY <1>1, <1>2, ReadAllKept DEF InWrAckC
<1>4. High(AckBit)'
  <2>1. seen' = <<1, AckBit>> /\ dev'.drive = 1
    BY <1>3, Seen DEF Moves, Acked, InWrAckC, High
  <2> QED
    BY <1>1, <2>1, AckLevel DEF High, Puts
<1> QED
  BY <1>1, <1>3, <1>4 DEF InWrAckC, InWrAckD, Moves

\* SCL falls: the device sends more, or has gone away.
LEMMA WrAckDStep ==
  ASSUME Moves, NEW k, NEW w, NEW b, Fits(k, w, b), cr = k.ctl, ~k.ctl.wr,
         st = "WrAckD", InWrAckD(k, w, b)
  PROVE  \/ st' = "WrAckD" /\ InWrAckD(k, w, b)'
         \/ st' = "StopA" /\ k.ctl.stp /\ InStopA(k, w, b)'
         \/ st' = "Done" /\ Ended(k, w, b)'
<1>1. /\ Puts(0, AckBit) /\ dout' = dout /\ cr' = cr
      /\ st' = IF sclk THEN (IF k.ctl.stp THEN "StopA" ELSE "Done") ELSE "WrAckD"
  BY Levels, Stores, Successor, Successors DEF Moves, Quick, AckBit
<1>2. CASE High(AckBit) /\ Acked(k, w, b)
  <2>1. Quiet
    BY <1>2, SteadyQuiet, Seen DEF Moves, High, Acked
  <2>2. Acked(k, w, b)' /\ Fall' /\ ~sclk
    BY <1>1, <1>2, <2>1, ReadAllKept, Seen DEF Moves, High, Puts, Fall, InWrAckD
  <2> QED
    BY <1>1, <2>2 DEF InWrAckD, Fall
<1>3. ASSUME Low', sclOut = 0, Given(k, w, b)'
      PROVE  \/ st' = "WrAckD" /\ InWrAckD(k, w, b)'
             \/ st' = "StopA" /\ k.ctl.stp /\ InStopA(k, w, b)'
             \/ st' = "Done" /\ Ended(k, w, b)'
  <2>1. CASE ~sclk
    BY <1>1, <1>3, <2>1 DEF InWrAckD, Low
  <2>2. CASE sclk /\ k.ctl.stp
    <3>1. Free' /\ Outcome(k, w, b)'
      BY <1>3, <2>2 DEF Fits, Given, Free, Outcome
    <3> QED
      BY <1>1, <1>3, <2>2, <3>1 DEF InStopA, Moves
  <2>3. CASE sclk /\ ~k.ctl.stp
    BY <1>1, <1>3, <2>3 DEF Ended, Puts, HoldLow, Low
  <2> QED
    BY <2>1, <2>2, <2>3
<1>4. CASE Fall /\ Acked(k, w, b)
  <2>1. Low' /\ sclOut = 0
    BY <1>1, <1>4, Seen DEF Moves, Fall, Low, Puts
  <2>2. Given(k, w, b)'
    <3>1. CASE k.ctl.ack
      <4>1. Quiet
        BY <1>4, <3>1, FallQuiet DEF Moves, Fall, Acked
      <4> QED
        BY <1>1, <1>4, <3>1, <4>1, ReadAllKept DEF Given, Acked, Away, Quiet
    <3>2. CASE ~k.ctl.ack
      <4>1. heard' = heard /\ dev'.mode = "send" /\ dev'.n = 1 /\ dev'.drive = dev'.byte[0]
        BY <1>4, <3>2, FallSendsMore DEF Moves, Fall, Acked
      <4>2. ReadAll(k, w, b)'
        BY <1>1, <1>4, <4>1, HeardKept DEF ReadAll, Acked
      <4> QED
        BY <3>2, <4>1, <4>2 DEF Given, Sending
    <3> QED
      BY <3>1, <3>2
  <2> QED
    BY <1>3, <2>1, <2>2
<1>5. CASE Low /\ Given(k, w, b)
  <2>1. Quiet
    BY <1>5, LowQuiet DEF Moves, Low
  <2>2. Low' /\ sclOut = 0 /\ Given(k, w, b)'
    BY <1>1, <1>5, <2>1, Seen, ReadAllKept DEF Moves, Low, Puts
  <2> QED
    BY <1>3, <2>2
<1> QED
  BY <1>2, <1>4, <1>5 DEF InWrAckD

-----------------------------------------------------------------------------
(* The commands of a call and where their events stand on the bus          *)

IsCall(c) ==
  \/ c.op = "write" /\ c.device \in Byte /\ c.index \in Byte /\ c.data \in Seq(Byte)
  \/ c.op = "read" /\ c.device \in Byte /\ c.index \in Byte /\ c.size \in Nat \ {0}
  \/ c.op = "configure"

\* Command p of n of a write or of a read.
Common(k, p, n) ==
  /\ k.ctl \in Controls /\ (k.ctl.rd <=> ~k.ctl.wr)
  /\ k.ctl.wr => k.byte \in Byte /\ k.err \in {"ENODEV", "EBADACK"}
  /\ ~k.ctl.wr => k.byte = ANY
WriteCommand(k, p, n) ==
  /\ Common(k, p, n) /\ k.ctl.wr /\ ~k.ctl.ack
  /\ (k.ctl.sta <=> p = 1) /\ (k.ctl.stp <=> p = n /\ n > 2)
  /\ k.ctl.sta => k.byte[LastBit] = 0
ReadCommand(k, p, n) ==
  /\ Common(k, p, n) /\ (k.ctl.wr <=> p <= 3) /\ (k.ctl.ack <=> p = n)
  /\ (k.ctl.sta <=> p \in {1, 3}) /\ (k.ctl.stp <=> p = n)
  /\ k.ctl.sta => k.byte[LastBit] = IF p = 3 THEN 1 ELSE 0

\* The fields of a command.
LEMMA CmdFields ==
  ASSUME NEW byte, NEW bits, NEW err
  PROVE  LET k == Cmd(byte, bits, err) IN
         /\ k.byte = byte /\ k.err = err /\ k.ctl \in Controls
         /\ (k.ctl.wr <=> "WR" \in bits) /\ (k.ctl.rd <=> "RD" \in bits)
         /\ (k.ctl.sta <=> "STA" \in bits) /\ (k.ctl.stp <=> "STP" \in bits)
         /\ (k.ctl.ack <=> "ACK" \in bits)
<1>1. Control(bits) \in Controls
  BY ControlType
<1>2. /\ (Control(bits).wr <=> "WR" \in bits) /\ (Control(bits).rd <=> "RD" \in bits)
      /\ (Control(bits).sta <=> "STA" \in bits) /\ (Control(bits).stp <=> "STP" \in bits)
      /\ (Control(bits).ack <=> "ACK" \in bits)
  BY DEF Control
<1>3. LET k == Cmd(byte, bits, err) IN k.byte = byte /\ k.err = err /\ k.ctl = Control(bits)
  BY DEF Cmd
<1> QED
  BY <1>1, <1>2, <1>3, Zenon

\* The direction bit of an address.
LEMMA LowBit ==
  ASSUME NEW b \in Byte
  PROVE  /\ ToWrite(b) \in Byte /\ ToWrite(b)[LastBit] = 0
         /\ ToRead(b) \in Byte /\ ToRead(b)[LastBit] = 1
<1>1. LastBit \in 0..LastBit
  BY BusAssumption
<1>2. b \in [0..LastBit -> Bit]
  BY DEF Byte
<1> QED
  BY <1>1, <1>2, DirectionByte DEF ToWrite, ToRead

\* The elements of two sequences one after the other.
LEMMA ConcatAt ==
  ASSUME NEW S, NEW s \in Seq(S), NEW t \in Seq(S)
  PROVE  /\ Len(s \o t) = Len(s) + Len(t)
         /\ \A p \in 1..Len(s) : (s \o t)[p] = s[p]
         /\ \A p \in 1..Len(s) + Len(t) : p > Len(s) => (s \o t)[p] = t[p - Len(s)]
OBVIOUS

\* The script of a write: address and index, then the data, the last with STOP.
LEMMA WriteScript ==
  ASSUME NEW c, c.op = "write", c.device \in Byte, c.index \in Byte, c.data \in Seq(Byte)
  PROVE  /\ Len(Script(c)) = 2 + Len(c.data)
         /\ \A p \in 1..Len(Script(c)) : WriteCommand(Script(c)[p], p, Len(Script(c)))
<1> DEFINE a == Cmd(ToWrite(c.device), {"STA", "WR"}, "ENODEV")
           i == Cmd(c.index, {"WR"}, "EBADACK")
           address == <<a, i>>
           w == WriteBytes(c.data)
           m == Len(c.data)
<1>1. Script(c) = address \o w
  BY DEF Script
<1>2. m \in Nat /\ \A j \in 1..m : c.data[j] \in Byte
  OBVIOUS
<1>3. /\ \A j \in 1..m : w[j] = Cmd(c.data[j], IF j < m THEN {"WR"} ELSE {"STP", "WR"}, "EBADACK")
      /\ w = [j \in 1..m |-> w[j]]
  BY DEF WriteBytes
<1> DEFINE S == {a, i} \cup {w[j] : j \in 1..m}
<1>4. address \in Seq(S) /\ Len(address) = 2 /\ address[1] = a /\ address[2] = i
  OBVIOUS
<1>5. w \in Seq(S) /\ Len(w) = m
  <2> HIDE DEF w, a, i, m
  <2>1. w \in [1..m -> S]
    BY <1>3
  <2> HIDE DEF S
  <2> QED
    BY <1>2, <2>1, IsSequence
<1> HIDE DEF address, w, S, a, i, m
<1>6. /\ Len(Script(c)) = 2 + m /\ Script(c)[1] = a /\ Script(c)[2] = i
      /\ \A p \in 3..2 + m : Script(c)[p] = w[p - 2]
  <2> DEFINE v == address \o w
  <2>1. /\ Len(v) = Len(address) + Len(w)
        /\ \A p \in 1..Len(address) : v[p] = address[p]
        /\ \A p \in 1..Len(address) + Len(w) : p > Len(address) => v[p] = w[p - Len(address)]
    BY <1>4, <1>5, ConcatAt
  <2> HIDE DEF v
  <2>2. \A p \in 3..2 + m : v[p] = w[p - 2]
    BY <1>2, <1>4, <1>5, <2>1
  <2> QED
    BY <1>1, <1>4, <1>5, <2>1, <2>2 DEF v
<1>7. WriteCommand(a, 1, 2 + m)
  <2>1. /\ a.byte = ToWrite(c.device) /\ a.err = "ENODEV" /\ a.ctl \in Controls
        /\ a.ctl.wr /\ ~a.ctl.rd /\ a.ctl.sta /\ ~a.ctl.stp
        /\ ~a.ctl.ack
    BY CmdFields DEF a
  <2> QED
    BY <1>2, <2>1, LowBit DEF WriteCommand, Common
<1>8. WriteCommand(i, 2, 2 + m)
  <2>1. /\ i.byte = c.index /\ i.err = "EBADACK" /\ i.ctl \in Controls
        /\ i.ctl.wr /\ ~i.ctl.rd /\ ~i.ctl.sta /\ ~i.ctl.stp
        /\ ~i.ctl.ack
    BY CmdFields DEF i
  <2> QED
    BY <1>2, <2>1 DEF WriteCommand, Common
<1>9. ASSUME NEW j \in 1..m PROVE WriteCommand(w[j], j + 2, 2 + m)
  <2> DEFINE k == w[j]
  <2>1. /\ k.byte = c.data[j] /\ k.err = "EBADACK" /\ k.ctl \in Controls
        /\ k.ctl.wr /\ ~k.ctl.rd /\ ~k.ctl.sta /\ (k.ctl.stp <=> j = m)
        /\ ~k.ctl.ack
    <3>1. CASE j < m
      <4>1. k = Cmd(c.data[j], {"WR"}, "EBADACK") /\ j # m
        BY <1>2, <1>3, <3>1
      <4> HIDE DEF k
      <4> QED
        BY <4>1, CmdFields
    <3>2. CASE ~(j < m)
      <4>1. k = Cmd(c.data[j], {"STP", "WR"}, "EBADACK") /\ j = m
        BY <1>2, <1>3, <3>2
      <4> HIDE DEF k
      <4> QED
        BY <4>1, CmdFields
    <3> QED
      BY <3>1, <3>2
  <2>2. (j = m <=> j + 2 = 2 + m /\ 2 + m > 2) /\ j + 2 # 1
    BY <1>2
  <2> HIDE DEF k
  <2>3. WriteCommand(k, j + 2, 2 + m)
    BY <1>2, <2>1, <2>2 DEF WriteCommand, Common
  <2> QED
    BY <2>3 DEF k
<1>10. ASSUME NEW p \in 1..2 + m PROVE WriteCommand(Script(c)[p], p, 2 + m)
  <2>1. CASE p > 2
    <3>1. p - 2 \in 1..m /\ Script(c)[p] = w[p - 2] /\ (p - 2) + 2 = p
      BY <1>2, <1>6, <2>1
    <3> QED
      BY <1>9, <3>1
  <2>2. CASE p = 1 \/ p = 2
    BY <1>6, <1>7, <1>8, <2>2
  <2> QED
    BY <1>2, <2>1, <2>2
<1> QED
  BY <1>6, <1>10 DEF m

\* The script of a read: address, index, address again, then the bytes, the last with STOP.
LEMMA ReadScript ==
  ASSUME NEW c, c.op = "read", c.device \in Byte, c.index \in Byte, c.size \in Nat \ {0}
  PROVE  /\ Len(Script(c)) = 3 + c.size
         /\ \A p \in 1..Len(Script(c)) : ReadCommand(Script(c)[p], p, Len(Script(c)))
<1> DEFINE a == Cmd(ToWrite(c.device), {"STA", "WR"}, "ENODEV")
           i == Cmd(c.index, {"WR"}, "EBADACK")
           t == Cmd(ToRead(c.device), {"STA", "WR"}, "ENODEV")
           address == <<a, i>>
           turn == <<t>>
           m == c.size
           r == ReadBytes(m)
<1>1. Script(c) = address \o turn \o r
  BY DEF Script
<1>2. m \in Nat \ {0}
  OBVIOUS
<1> HIDE DEF m
<1>3. /\ \A j \in 1..m : r[j] = Cmd(ANY, IF j < m THEN {"RD"} ELSE {"STP", "RD", "ACK"}, "none")
      /\ r = [j \in 1..m |-> r[j]]
  BY DEF ReadBytes
<1> DEFINE S == {a, i, t} \cup {r[j] : j \in 1..m}
<1>4. /\ address \in Seq(S) /\ Len(address) = 2 /\ address[1] = a /\ address[2] = i
      /\ turn \in Seq(S) /\ Len(turn) = 1 /\ turn[1] = t
  OBVIOUS
<1>5. r \in Seq(S) /\ Len(r) = m
  <2> HIDE DEF r, a, i, t
  <2>1. r \in [1..m -> S]
    BY <1>3
  <2> HIDE DEF S
  <2> QED
    BY <1>2, <2>1, IsSequence
<1> HIDE DEF address, turn, r, S, a, i, t
<1> DEFINE u == address \o turn
<1>u. u \in Seq(S) /\ Len(u) = 3 /\ u[1] = a /\ u[2] = i /\ u[3] = t
  <2>1. u \in Seq(S)
    BY <1>4, ConcatType
  <2>2. /\ Len(u) = Len(address) + Len(turn)
        /\ \A p \in 1..Len(address) : u[p] = address[p]
        /\ \A p \in 1..Len(address) + Len(turn) : p > Len(address) => u[p] = turn[p - Len(address)]
    BY <1>4, ConcatAt
  <2> HIDE DEF u
  <2>3. u[3] = turn[1]
    BY <1>4, <2>2
  <2> QED
    BY <1>4, <2>1, <2>2, <2>3
<1> HIDE DEF u
<1>6. /\ Len(Script(c)) = 3 + m /\ Script(c)[1] = a /\ Script(c)[2] = i /\ Script(c)[3] = t
      /\ \A p \in 4..3 + m : Script(c)[p] = r[p - 3]
  <2>1. Script(c) = u \o r
    BY <1>1 DEF u
  <2> DEFINE v == u \o r
  <2>2. /\ Len(v) = Len(u) + Len(r)
        /\ \A p \in 1..Len(u) : v[p] = u[p]
        /\ \A p \in 1..Len(u) + Len(r) : p > Len(u) => v[p] = r[p - Len(u)]
    BY <1>u, <1>5, ConcatAt
  <2> HIDE DEF v
  <2>3. \A p \in 4..3 + m : v[p] = r[p - 3]
    BY <1>2, <1>u, <1>5, <2>2
  <2> QED
    BY <1>u, <1>5, <2>1, <2>2, <2>3 DEF v
<1>7. ReadCommand(a, 1, 3 + m)
  <2>1. /\ a.byte = ToWrite(c.device) /\ a.err = "ENODEV" /\ a.ctl \in Controls
        /\ a.ctl.wr /\ ~a.ctl.rd /\ a.ctl.sta /\ ~a.ctl.stp
        /\ ~a.ctl.ack
    BY CmdFields DEF a
  <2> QED
    BY <1>2, <2>1, LowBit DEF ReadCommand, Common
<1>8. ReadCommand(i, 2, 3 + m)
  <2>1. /\ i.byte = c.index /\ i.err = "EBADACK" /\ i.ctl \in Controls
        /\ i.ctl.wr /\ ~i.ctl.rd /\ ~i.ctl.sta /\ ~i.ctl.stp
        /\ ~i.ctl.ack
    BY CmdFields DEF i
  <2> QED
    BY <1>2, <2>1 DEF ReadCommand, Common
<1>9. ReadCommand(t, 3, 3 + m)
  <2>1. /\ t.byte = ToRead(c.device) /\ t.err = "ENODEV" /\ t.ctl \in Controls
        /\ t.ctl.wr /\ ~t.ctl.rd /\ t.ctl.sta /\ ~t.ctl.stp
        /\ ~t.ctl.ack
    BY CmdFields DEF t
  <2> QED
    BY <1>2, <2>1, LowBit DEF ReadCommand, Common
<1>10. ASSUME NEW j \in 1..m PROVE ReadCommand(r[j], j + 3, 3 + m)
  <2> DEFINE k == r[j]
  <2>1. /\ k.byte = ANY /\ k.ctl \in Controls
        /\ ~k.ctl.wr /\ k.ctl.rd /\ ~k.ctl.sta /\ (k.ctl.stp <=> j = m)
        /\ (k.ctl.ack <=> j = m)
    <3>1. CASE j < m
      <4>1. k = Cmd(ANY, {"RD"}, "none") /\ j # m
        BY <1>2, <1>3, <3>1
      <4> HIDE DEF k
      <4> QED
        BY <4>1, CmdFields
    <3>2. CASE ~(j < m)
      <4>1. k = Cmd(ANY, {"STP", "RD", "ACK"}, "none") /\ j = m
        BY <1>2, <1>3, <3>2
      <4> HIDE DEF k
      <4> QED
        BY <4>1, CmdFields
    <3> QED
      BY <3>1, <3>2
  <2>2. (j = m <=> j + 3 = 3 + m) /\ ~(j + 3 <= 3) /\ j + 3 \notin {1, 3}
    BY <1>2
  <2> HIDE DEF k
  <2>3. ReadCommand(k, j + 3, 3 + m)
    BY <1>2, <2>1, <2>2 DEF ReadCommand, Common
  <2> QED
    BY <2>3 DEF k
<1>11. ASSUME NEW p \in 1..3 + m PROVE ReadCommand(Script(c)[p], p, 3 + m)
  <2>1. CASE p > 3
    <3>1. p - 3 \in 1..m /\ Script(c)[p] = r[p - 3] /\ (p - 3) + 3 = p
      BY <1>2, <1>6, <2>1
    <3> QED
      BY <1>10, <3>1
  <2>2. CASE p = 1 \/ p = 2 \/ p = 3
    BY <1>6, <1>7, <1>8, <1>9, <2>2
  <2> QED
    BY <1>2, <2>1, <2>2
<1> QED
  BY <1>6, <1>11 DEF m

\* Sequences with the same elements are the same.
LEMMA SeqEqual ==
  ASSUME NEW S, NEW x \in Seq(S), NEW y \in Seq(S), Len(x) = Len(y),
         \A j \in 1..Len(x) : x[j] = y[j]
  PROVE  x = y
<1>1. Len(x) \in Nat
  OBVIOUS
<1>2. x \in [1..Len(x) -> S] /\ y \in [1..Len(x) -> S]
  OBVIOUS
<1>3. x = [j \in 1..Len(x) |-> x[j]] /\ y = [j \in 1..Len(x) |-> y[j]]
  BY <1>2
<1> QED
  BY <1>3

\* A prefix of W and what follows it in W make up a longer prefix.
LEMMA Extends ==
  ASSUME NEW S, NEW x \in Seq(S), NEW y \in Seq(S), NEW z \in Seq(S), NEW W \in Seq(S),
         Len(z) = Len(x) + Len(y), \A j \in 1..Len(x) : x[j] = W[j],
         \A j \in 1..Len(y) : y[j] = W[Len(x) + j], \A j \in 1..Len(z) : z[j] = W[j]
  PROVE  z = x \o y
<1>1. x \o y \in Seq(S) /\ Len(x \o y) = Len(z)
  BY ConcatType
<1>2. ASSUME NEW j \in 1..Len(z) PROVE z[j] = (x \o y)[j]
  <2>1. Len(x) \in Nat /\ Len(y) \in Nat /\ j \in Nat
    OBVIOUS
  <2>2. CASE j <= Len(x)
    <3>1. j \in 1..Len(x)
      BY <2>1, <2>2
    <3>2. (x \o y)[j] = x[j]
      BY <3>1, ConcatAt
    <3> QED
      BY <3>1, <3>2
  <2>3. CASE j > Len(x)
    <3>1. j - Len(x) \in 1..Len(y) /\ Len(x) + (j - Len(x)) = j /\ j \in 1..Len(x) + Len(y)
      BY <2>1, <2>3
    <3>2. (x \o y)[j] = y[j - Len(x)]
      BY <2>3, <3>1, ConcatAt
    <3>3. y[j - Len(x)] = W[Len(x) + (j - Len(x))]
      BY <3>1
    <3> QED
      BY <3>1, <3>2, <3>3
  <2> QED
    BY <2>1, <2>2, <2>3
<1> QED
  BY <1>1, <1>2, SeqEqual

\* A sequence of which at names how much the first p parts make up is the
\* parts one after the other.
LEMMA Flattened ==
  ASSUME NEW S, NEW n \in Nat \ {0}, NEW s \in [1..n -> Seq(S)], NEW at \in [0..n -> Nat],
         NEW W \in Seq(S), at[0] = 0, Len(W) = at[n],
         \A p \in 1..n : /\ at[p] = at[p - 1] + Len(s[p]) /\ at[p] <= Len(W)
                         /\ \A j \in 1..Len(s[p]) : s[p][j] = W[at[p - 1] + j]
  PROVE  FlattenSeq(s) = W
<1> DEFINE G(g) == g = [i \in 1..n |-> IF i = 1 THEN s[i] ELSE g[i - 1] \o s[i]]
           Prefix(p) == [j \in 1..at[p] |-> W[j]]
           f == [p \in 1..n |-> Prefix(p)]
           h == CHOOSE g : G(g)
<1>0. Len(W) \in Nat /\ \A j \in 1..Len(W) : W[j] \in S
  OBVIOUS
<1>1. ASSUME NEW p \in 0..n
      PROVE  Prefix(p) \in Seq(S) /\ Len(Prefix(p)) = at[p] /\ \A j \in 1..at[p] : Prefix(p)[j] = W[j]
  <2>1. at[p] \in Nat /\ at[p] <= Len(W)
    BY <1>0
  <2>2. Prefix(p) \in [1..at[p] -> S]
    BY <1>0, <2>1
  <2> HIDE DEF Prefix
  <2>3. Prefix(p) \in Seq(S) /\ Len(Prefix(p)) = at[p]
    BY <2>1, <2>2, IsSequence
  <2> QED
    BY <2>3 DEF Prefix
<1>2. ASSUME NEW p \in 1..n PROVE Prefix(p) = Prefix(p - 1) \o s[p]
  <2> DEFINE x == Prefix(p - 1)
             y == s[p]
             z == Prefix(p)
  <2>1. /\ x \in Seq(S) /\ Len(x) = at[p - 1] /\ \A j \in 1..at[p - 1] : x[j] = W[j]
        /\ z \in Seq(S) /\ Len(z) = at[p] /\ \A j \in 1..at[p] : z[j] = W[j]
    <3>1. p - 1 \in 0..n /\ p \in 0..n
      OBVIOUS
    <3> HIDE DEF Prefix
    <3> QED
      BY <1>1, <3>1
  <2>2. y \in Seq(S) /\ at[p] = at[p - 1] + Len(y) /\ \A j \in 1..Len(y) : y[j] = W[at[p - 1] + j]
    OBVIOUS
  <2>3. at[p - 1] \in Nat /\ at[p] \in Nat
    OBVIOUS
  <2> HIDE DEF x, y, z
  <2>4. /\ x \in Seq(S) /\ y \in Seq(S) /\ z \in Seq(S) /\ Len(z) = Len(x) + Len(y)
        /\ \A j \in 1..Len(x) : x[j] = W[j]
        /\ \A j \in 1..Len(y) : y[j] = W[Len(x) + j]
        /\ \A j \in 1..Len(z) : z[j] = W[j]
    BY <2>1, <2>2, <2>3
  <2>5. z = x \o y
    BY <2>4, Extends
  <2> QED
    BY <2>5 DEF x, y, z
<1>3. Prefix(1) = s[1]
  <2>1. 0 \in 0..n /\ 1 \in 1..n
    OBVIOUS
  <2>2. /\ s[1] \in Seq(S) /\ at[1] = Len(s[1]) /\ \A j \in 1..Len(s[1]) : s[1][j] = W[j]
    <3>1. /\ at[1] = at[1 - 1] + Len(s[1])
          /\ \A j \in 1..Len(s[1]) : s[1][j] = W[at[1 - 1] + j]
      BY <2>1
    <3>2. s[1] \in Seq(S) /\ Len(s[1]) \in Nat /\ 1 - 1 = 0
      BY <2>1
    <3>3. at[1] = Len(s[1])
      BY <3>1, <3>2
    <3>4. ASSUME NEW j \in 1..Len(s[1]) PROVE s[1][j] = W[j]
      <4>1. at[1 - 1] + j = j
        BY <3>2
      <4> QED
        BY <3>1, <4>1
    <3> QED
      BY <3>2, <3>3, <3>4
  <2>3. Prefix(1) \in Seq(S) /\ Len(Prefix(1)) = at[1] /\ \A j \in 1..at[1] : Prefix(1)[j] = W[j]
    <3>1. 1 \in 0..n
      OBVIOUS
    <3> HIDE DEF Prefix
    <3> QED
      BY <1>1, <3>1
  <2> HIDE DEF Prefix
  <2>4. Len(Prefix(1)) = Len(s[1])
    BY <2>2, <2>3
  <2>5. \A j \in 1..Len(Prefix(1)) : Prefix(1)[j] = s[1][j]
    BY <2>2, <2>3
  <2> QED
    BY <2>2, <2>3, <2>4, <2>5, SeqEqual
<1> HIDE DEF Prefix
<1>4. G(f)
  <2>1. ASSUME NEW p \in 1..n PROVE f[p] = IF p = 1 THEN s[p] ELSE f[p - 1] \o s[p]
    <3>1. CASE p = 1
      BY <1>3, <3>1
    <3>2. CASE p # 1
      <4>1. p - 1 \in 1..n
        BY <3>2
      <4> QED
        BY <1>2, <3>2, <4>1
    <3> QED
      BY <3>1, <3>2
  <2> QED
    BY <2>1, Zenon
<1> HIDE DEF G
<1>5. G(h)
  BY <1>4
<1>6. \A p \in 1..n : h[p] = IF p = 1 THEN s[p] ELSE h[p - 1] \o s[p]
  <2> HIDE DEF h
  <2> QED
    BY <1>5 DEF G
<1>7. FlattenSeq(s) = h[n]
  <2>1. Len(s) = n
    BY IsSequence
  <2>2. Len(s) # 0
    BY <2>1
  <2> QED
    BY <2>1, <2>2, Zenon DEF FlattenSeq, G
<1> HIDE DEF h
<1>8. \A p \in 1..n : h[p] = Prefix(p)
  <2> DEFINE Bad == {p \in 1..n : h[p] # Prefix(p)}
  <2> SUFFICES ASSUME Bad # {} PROVE FALSE
    OBVIOUS
  <2>a. IsWellFoundedOn(OpToRel(<, Nat), Nat)
    BY NatLessThanWellFounded
  <2>b. Bad \subseteq Nat
    OBVIOUS
  <2> HIDE DEF Bad
  <2>1. PICK x \in Bad : \A y \in Bad : ~ (<<y, x>> \in OpToRel(<, Nat))
    BY <2>a, <2>b, WFMin
  <2>2. x \in 1..n /\ h[x] # Prefix(x)
    BY DEF Bad
  <2>3. CASE x = 1
    BY <1>3, <1>6, <2>2, <2>3
  <2>4. CASE x # 1
    <3>1. x - 1 \in 1..n /\ x - 1 \in Nat /\ x \in Nat /\ x - 1 < x
      BY <2>2, <2>4
    <3>2. x - 1 \notin Bad
      BY <2>1, <3>1 DEF OpToRel
    <3>3. h[x - 1] = Prefix(x - 1)
      BY <3>1, <3>2 DEF Bad
    <3>4. h[x] = h[x - 1] \o s[x] /\ Prefix(x) = Prefix(x - 1) \o s[x]
      BY <1>2, <1>6, <2>2, <2>4
    <3> QED
      BY <2>2, <3>3, <3>4
  <2> QED
    BY <2>3, <2>4
<1>9. Prefix(n) = W
  <2>1. Prefix(n) \in Seq(S) /\ Len(Prefix(n)) = at[n] /\ \A j \in 1..at[n] : Prefix(n)[j] = W[j]
    <3>1. n \in 0..n
      OBVIOUS
    <3> QED
      BY <1>1, <3>1
  <2>2. \A j \in 1..Len(Prefix(n)) : Prefix(n)[j] = W[j]
    BY <2>1
  <2> QED
    BY <2>1, <2>2, SeqEqual
<1> QED
  BY <1>7, <1>8, <1>9

\* What command k puts on the bus, and how much of it the first p commands are.
Message == Byte \cup {START, STOP, ANY}
Events(k) == (IF k.ctl.sta THEN <<START>> ELSE <<>>) \o <<k.byte>>
               \o (IF k.ctl.stp THEN <<STOP>> ELSE <<>>)
Stops(c) == c.op = "read" \/ Len(Script(c)) > 2
At(c, p) ==
  IF p = 0 THEN 0
  ELSE p + 1 + (IF c.op = "read" /\ p >= 3 THEN 1 ELSE 0)
             + (IF p = Len(Script(c)) /\ Stops(c) THEN 1 ELSE 0)

\* The events of a command by its START and STOP bits.
LEMMA EventsOf ==
  ASSUME NEW k, k.byte \in Byte \cup {ANY}, k.ctl.stp => ~k.ctl.sta
  PROVE  /\ Events(k) \in Seq(Message)
         /\ k.ctl.sta => Len(Events(k)) = 2 /\ Events(k)[1] = START /\ Events(k)[2] = k.byte
         /\ k.ctl.stp => Len(Events(k)) = 2 /\ Events(k)[1] = k.byte /\ Events(k)[2] = STOP
         /\ ~k.ctl.sta /\ ~k.ctl.stp => Len(Events(k)) = 1 /\ Events(k)[1] = k.byte
<1> DEFINE b == k.byte
<1>1. b \in Message /\ START \in Message /\ STOP \in Message
  BY DEF Message
<1>2. CASE k.ctl.sta
  <2>1. Events(k) = <<START>> \o <<b>> \o <<>>
    BY <1>2, Zenon DEF Events
  <2> HIDE DEF b
  <2>2. LET e == <<START>> \o <<b>> \o <<>> IN
        e \in Seq(Message) /\ Len(e) = 2 /\ e[1] = START /\ e[2] = b
    BY <1>1
  <2> QED
    BY <1>2, <2>1, <2>2 DEF b
<1>3. CASE ~k.ctl.sta /\ k.ctl.stp
  <2>1. Events(k) = <<>> \o <<b>> \o <<STOP>>
    BY <1>3, Zenon DEF Events
  <2> HIDE DEF b
  <2>2. LET e == <<>> \o <<b>> \o <<STOP>> IN
        e \in Seq(Message) /\ Len(e) = 2 /\ e[1] = b /\ e[2] = STOP
    BY <1>1
  <2> QED
    BY <1>3, <2>1, <2>2 DEF b
<1>4. CASE ~k.ctl.sta /\ ~k.ctl.stp
  <2>1. Events(k) = <<>> \o <<b>> \o <<>>
    BY <1>4, Zenon DEF Events
  <2> HIDE DEF b
  <2>2. LET e == <<>> \o <<b>> \o <<>> IN
        e \in Seq(Message) /\ Len(e) = 1 /\ e[1] = b
    BY <1>1
  <2> QED
    BY <1>4, <2>1, <2>2 DEF b
<1> QED
  BY <1>2, <1>3, <1>4

\* The flattened message, from a description of it by positions.
LEMMA WireIs ==
  ASSUME NEW c, NEW n \in Nat \ {0}, Len(Script(c)) = n,
         \A p \in 1..n : LET k == Script(c)[p] IN
           /\ k.byte \in Byte \cup {ANY} /\ (k.ctl.stp => ~k.ctl.sta)
           /\ At(c, p) = At(c, p - 1) + Len(Events(k)),
         \A p \in 0..n : At(c, p) \in Nat /\ At(c, p) <= At(c, n),
         NEW W \in Seq(Message), Len(W) = At(c, n),
         \A p \in 1..n : \A j \in 1..Len(Events(Script(c)[p])) :
           Events(Script(c)[p])[j] = W[At(c, p - 1) + j]
  PROVE  Wire(c) = W
<1> DEFINE s == [i \in 1..n |-> Events(Script(c)[i])]
           at == [p \in 0..n |-> At(c, p)]
<1>1. \A p \in 1..n : Events(Script(c)[p]) \in Seq(Message)
  BY EventsOf
<1>2. s \in [1..n -> Seq(Message)]
  BY <1>1
<1>3. at \in [0..n -> Nat] /\ at[0] = 0 /\ Len(W) = at[n]
  BY DEF At
<1>4. ASSUME NEW p \in 1..n
      PROVE  /\ at[p] = at[p - 1] + Len(s[p]) /\ at[p] <= Len(W)
             /\ \A j \in 1..Len(s[p]) : s[p][j] = W[at[p - 1] + j]
  <2>1. at[p] = At(c, p) /\ at[p - 1] = At(c, p - 1) /\ s[p] = Events(Script(c)[p])
    OBVIOUS
  <2> HIDE DEF at, s
  <2> QED
    BY <2>1
<1>5. Wire(c) = FlattenSeq(s)
  BY Zenon DEF Wire, Events
<1> HIDE DEF s, at
<1>6. FlattenSeq(s) = W
  <2>1. W \in Seq(Message) /\ n \in Nat \ {0}
    OBVIOUS
  <2> QED
    BY ONLY <1>2, <1>3, <1>4, <2>1, Flattened
<1> QED
  BY <1>5, <1>6

\* A command as the driver writes them.
Sound(k) ==
  /\ k.ctl \in Controls
  /\ IF k.ctl.wr THEN k.byte \in Byte ELSE k.byte = ANY /\ k.ctl.rd
  /\ (k.ctl.sta => k.ctl.wr) /\ (k.ctl.stp => ~k.ctl.sta)
  /\ (k.ctl.stp /\ ~k.ctl.wr => k.ctl.ack) /\ (k.ctl.ack => k.ctl.stp)
  /\ (k.ctl.wr => k.err \in {"ENODEV", "EBADACK"})

\* Each command of a call has its place in what the call puts on the bus.
Placed(c) ==
  LET n == Len(Script(c)) IN
  /\ Wire(c) \in Seq(Message) /\ Len(Wire(c)) = At(c, n)
  /\ \A p \in 0..n : At(c, p) \in Nat /\ At(c, p) <= At(c, n)
  /\ \A p \in 1..n : /\ Sound(Script(c)[p])
                     /\ At(c, p) = At(c, p - 1) + Len(Events(Script(c)[p]))
                     /\ Fits(Script(c)[p], Wire(c), At(c, p - 1))

\* A command stands in a message where its events do.
LEMMA SoundFits ==
  ASSUME NEW k, Sound(k), NEW w, Len(w) \in Nat, NEW b \in Nat, NEW t \in Nat,
         t = b + Len(Events(k)), t <= Len(w),
         \A j \in 1..Len(Events(k)) : Events(k)[j] = w[b + j]
  PROVE  Fits(k, w, b)
<1> DEFINE e == Events(k)
<1>1. /\ k.byte \in Byte \cup {ANY} /\ (k.ctl.stp => ~k.ctl.sta)
  BY DEF Sound
<1>2. /\ k.ctl.sta => Len(e) = 2 /\ e[1] = START /\ e[2] = k.byte
      /\ k.ctl.stp => Len(e) = 2 /\ e[1] = k.byte /\ e[2] = STOP
      /\ ~k.ctl.sta /\ ~k.ctl.stp => Len(e) = 1 /\ e[1] = k.byte
  BY <1>1, EventsOf
<1> HIDE DEF e
<1>3. /\ t = b + Len(e) /\ \A j \in 1..Len(e) : e[j] = w[b + j]
  BY DEF e
<1>4. CASE k.ctl.sta
  <2>1. Place(k, b) = b + 1 /\ ~k.ctl.stp
    BY <1>1, <1>4 DEF Place
  <2>a. Len(e) = 2 /\ e[1] = START /\ e[2] = k.byte
    BY <1>2, <1>4, Zenon
  <2>2. Len(e) = 2 /\ 1 \in 1..Len(e) /\ 2 \in 1..Len(e)
    BY <2>a
  <2>3. w[b + 1] = START /\ w[b + 2] = k.byte /\ b + 2 <= Len(w) /\ b + 1 + 1 = b + 2 /\ b + 1 <= Len(w)
    BY <1>3, <2>a, <2>2
  <2> QED
    BY <1>4, <2>1, <2>3 DEF Fits, Sound
<1>5. CASE ~k.ctl.sta /\ k.ctl.stp
  <2>1. Place(k, b) = b
    BY <1>5 DEF Place
  <2>2. Len(e) = 2 /\ 1 \in 1..Len(e) /\ 2 \in 1..Len(e)
    BY <1>2, <1>5
  <2>3. w[b + 1] = k.byte /\ w[b + 2] = STOP /\ b + 2 <= Len(w) /\ b + 1 <= Len(w)
    BY <1>2, <1>3, <1>5, <2>2
  <2> QED
    BY <1>5, <2>1, <2>3 DEF Fits, Sound
<1>6. CASE ~k.ctl.sta /\ ~k.ctl.stp
  <2>1. Place(k, b) = b
    BY <1>6 DEF Place
  <2>2. Len(e) = 1 /\ 1 \in 1..Len(e)
    BY <1>2, <1>6
  <2>3. w[b + 1] = k.byte /\ b + 1 <= Len(w)
    BY <1>2, <1>3, <1>6, <2>2
  <2> QED
    BY <1>6, <2>1, <2>3 DEF Fits, Sound
<1> QED
  BY <1>4, <1>5, <1>6

\* A call is placed when the events of each command are where At says.
LEMMA PlacedBy ==
  ASSUME NEW c, NEW n \in Nat \ {0}, Len(Script(c)) = n,
         \A p \in 1..n : Sound(Script(c)[p]) /\ At(c, p) = At(c, p - 1) + Len(Events(Script(c)[p])),
         \A p \in 0..n : At(c, p) \in Nat /\ At(c, p) <= At(c, n),
         NEW W \in Seq(Message), Len(W) = At(c, n),
         \A p \in 1..n : \A j \in 1..Len(Events(Script(c)[p])) :
           Events(Script(c)[p])[j] = W[At(c, p - 1) + j]
  PROVE  Placed(c) /\ Wire(c) = W
<1>1. \A p \in 1..n : LET k == Script(c)[p] IN
        /\ k.byte \in Byte \cup {ANY} /\ (k.ctl.stp => ~k.ctl.sta)
        /\ At(c, p) = At(c, p - 1) + Len(Events(k))
  BY DEF Sound
<1>2. Wire(c) = W
  BY <1>1, WireIs
<1>3. ASSUME NEW p \in 1..n PROVE Fits(Script(c)[p], W, At(c, p - 1))
  <2> DEFINE k == Script(c)[p]
             b == At(c, p - 1)
             t == At(c, p)
  <2>1. p - 1 \in 0..n /\ p \in 0..n /\ Len(W) \in Nat
    OBVIOUS
  <2>2. /\ b \in Nat /\ t \in Nat /\ t <= Len(W) /\ Sound(k) /\ t = b + Len(Events(k))
        /\ \A j \in 1..Len(Events(k)) : Events(k)[j] = W[b + j]
    BY <2>1
  <2> HIDE DEF k, b, t
  <2>3. Fits(k, W, b)
    BY <2>1, <2>2, SoundFits
  <2> QED
    BY <2>3 DEF k, b
<1> QED
  BY <1>2, <1>3 DEF Placed

\* The commands of a write have their places.
LEMMA WritePlaced ==
  ASSUME NEW c, c.op = "write", c.device \in Byte, c.index \in Byte, c.data \in Seq(Byte)
  PROVE  Placed(c)
<1> DEFINE n == Len(Script(c))
           s == Script(c)
           e(p) == Events(s[p])
           W == [j \in 1..At(c, n) |-> IF j = 1 THEN START
                                      ELSE IF j <= n + 1 THEN s[j - 1].byte ELSE STOP]
<1>1. n \in Nat /\ n >= 2 /\ \A p \in 1..n : WriteCommand(s[p], p, n)
  BY WriteScript
<1>2. \A p \in 0..n : At(c, p) = IF p = 0 THEN 0 ELSE p + 1 + (IF p = n /\ n > 2 THEN 1 ELSE 0)
  BY DEF At, Stops
<1> HIDE DEF s, n
<1>3. \A p \in 1..n : Sound(s[p])
  BY <1>1 DEF WriteCommand, Common, Sound
<1>4. ASSUME NEW p \in 1..n
      PROVE  /\ s[p].byte \in Byte \cup {ANY}
             /\ p = 1 => Len(e(p)) = 2 /\ e(p)[1] = START /\ e(p)[2] = s[p].byte
             /\ p # 1 /\ p = n => Len(e(p)) = (IF n > 2 THEN 2 ELSE 1) /\ e(p)[1] = s[p].byte
             /\ p # 1 /\ p = n /\ n > 2 => e(p)[2] = STOP
             /\ p # 1 /\ p # n => Len(e(p)) = 1 /\ e(p)[1] = s[p].byte
  <2> DEFINE k == s[p]
  <2>1. /\ k.byte \in Byte \cup {ANY} /\ (k.ctl.sta <=> p = 1) /\ (k.ctl.stp <=> p = n /\ n > 2)
        /\ (k.ctl.stp => ~k.ctl.sta)
    BY <1>1, <1>3 DEF WriteCommand, Common, Sound
  <2> HIDE DEF k
  <2>2. /\ k.ctl.sta => Len(Events(k)) = 2 /\ Events(k)[1] = START /\ Events(k)[2] = k.byte
        /\ k.ctl.stp => Len(Events(k)) = 2 /\ Events(k)[1] = k.byte /\ Events(k)[2] = STOP
        /\ ~k.ctl.sta /\ ~k.ctl.stp => Len(Events(k)) = 1 /\ Events(k)[1] = k.byte
    BY <2>1, EventsOf
  <2>3. /\ p = 1 => Len(Events(k)) = 2 /\ Events(k)[1] = START /\ Events(k)[2] = k.byte
        /\ p # 1 /\ p = n => Len(Events(k)) = (IF n > 2 THEN 2 ELSE 1) /\ Events(k)[1] = k.byte
        /\ p # 1 /\ p = n /\ n > 2 => Events(k)[2] = STOP
        /\ p # 1 /\ p # n => Len(Events(k)) = 1 /\ Events(k)[1] = k.byte
    BY <2>1, <2>2
  <2> QED
    BY <2>1, <2>3 DEF k
<1> HIDE DEF e
<1>5. At(c, n) = n + 1 + (IF n > 2 THEN 1 ELSE 0) /\ At(c, n) \in Nat
  BY <1>1, <1>2
<1>6. \A p \in 0..n : At(c, p) \in Nat /\ At(c, p) <= At(c, n)
  BY <1>1, <1>2, <1>5
<1>7. ASSUME NEW p \in 1..n PROVE At(c, p) = At(c, p - 1) + Len(e(p))
  <2>1. p \in Nat /\ p - 1 \in 0..n /\ p \in 0..n
    BY <1>1
  <2>2. /\ At(c, p) = p + 1 + (IF p = n /\ n > 2 THEN 1 ELSE 0)
        /\ At(c, p - 1) = IF p - 1 = 0 THEN 0 ELSE p - 1 + 1 + (IF p - 1 = n /\ n > 2 THEN 1 ELSE 0)
    BY <1>2, <2>1
  <2>3. Len(e(p)) = IF p = 1 THEN 2 ELSE IF p = n /\ n > 2 THEN 2 ELSE 1
    BY <1>4
  <2> QED
    BY <1>1, <2>1, <2>2, <2>3
<1>8. W \in Seq(Message) /\ Len(W) = At(c, n)
  <2>1. ASSUME NEW j \in 1..At(c, n) PROVE W[j] \in Message
    <3>1. j <= n + 1 /\ j # 1 => s[j - 1].byte \in Message
      <4>1. j <= n + 1 /\ j # 1 => j - 1 \in 1..n
        BY <1>1
      <4> QED
        BY <1>4, <4>1 DEF Message
    <3> QED
      BY <1>5, <3>1 DEF Message
  <2>2. W \in [1..At(c, n) -> Message]
    BY <2>1
  <2> HIDE DEF W
  <2> QED
    BY <1>5, <2>2, IsSequence
<1>9. ASSUME NEW p \in 1..n, NEW j \in 1..Len(e(p)) PROVE e(p)[j] = W[At(c, p - 1) + j]
  <2>1. p - 1 \in 0..n /\ At(c, p) = At(c, p - 1) + Len(e(p)) /\ At(c, p) <= At(c, n)
    BY <1>1, <1>6, <1>7
  <2>2. At(c, p - 1) \in Nat /\ Len(e(p)) \in Nat
    BY <1>4, <1>6, <2>1
  <2>3. At(c, p - 1) + j \in 1..At(c, n)
    BY <1>5, <2>1, <2>2
  <2> DEFINE i == At(c, p - 1) + j
  <2>4. W[i] = IF i = 1 THEN START ELSE IF i <= n + 1 THEN s[i - 1].byte ELSE STOP
    <3> HIDE DEF i
    <3> QED
      BY <2>3 DEF i
  <2> HIDE DEF W
  <2>5. CASE p = 1
    <3>1. At(c, p - 1) = 0 /\ (j = 1 \/ j = 2)
      <4>1. p - 1 = 0 /\ Len(e(p)) = 2
        BY <1>4, <2>5
      <4>2. At(c, p - 1) = 0
        BY <4>1 DEF At
      <4> QED
        BY <4>1, <4>2
    <3> QED
      BY <1>1, <1>4, <2>4, <2>5, <3>1
  <2>6. CASE p # 1
    <3>1. At(c, p - 1) = p /\ (j = 1 \/ j = 2)
      <4>1. p \in Nat /\ p - 1 \in 0..n /\ p - 1 # 0 /\ p - 1 # n /\ p - 1 + 1 = p
        BY <1>1, <2>6
      <4> DEFINE q == p - 1
      <4>2. q \in 0..n /\ q # 0 /\ q # n /\ q + 1 = p /\ q \in Nat
        BY <1>1, <4>1
      <4> HIDE DEF q
      <4>3. At(c, q) = p
        BY <1>2, <4>2
      <4>4. Len(e(p)) = 1 \/ Len(e(p)) = 2
        BY <1>4, <2>6
      <4>5. j \in 1..Len(e(p))
        OBVIOUS
      <4>6. j = 1 \/ j = 2
        BY ONLY <4>4, <4>5
      <4> QED
        BY <4>3, <4>6 DEF q
    <3>2. CASE j = 1
      <4>1. p + 1 # 1 /\ p + 1 <= n + 1 /\ p + 1 - 1 = p
        BY <1>1
      <4>2. W[p + 1] = s[p].byte
        BY <2>4, <3>1, <3>2, <4>1
      <4> QED
        BY <1>4, <2>6, <3>1, <3>2, <4>2
    <3>3. CASE j = 2
      <4>1. p = n /\ n > 2
        BY <1>1, <1>4, <2>6, <3>3
      <4>2. p + 2 # 1 /\ ~(p + 2 <= n + 1)
        BY <1>1, <4>1
      <4> QED
        BY <1>4, <2>4, <2>6, <3>1, <3>3, <4>1, <4>2
    <3> QED
      BY <3>1, <3>2, <3>3
  <2> QED
    BY <2>5, <2>6
<1> HIDE DEF W
<1>10. /\ n \in Nat \ {0} /\ Len(Script(c)) = n
       /\ \A p \in 1..n : /\ Sound(Script(c)[p])
                          /\ At(c, p) = At(c, p - 1) + Len(Events(Script(c)[p]))
       /\ \A p \in 1..n : \A j \in 1..Len(Events(Script(c)[p])) :
            Events(Script(c)[p])[j] = W[At(c, p - 1) + j]
  BY <1>1, <1>3, <1>7, <1>9 DEF e, n, s
<1> QED
  BY ONLY <1>6, <1>8, <1>10, PlacedBy

\* The commands of a read have theirs.
LEMMA ReadPlaced ==
  ASSUME NEW c, c.op = "read", c.device \in Byte, c.index \in Byte, c.size \in Nat \ {0}
  PROVE  Placed(c)
<1> DEFINE n == Len(Script(c))
           s == Script(c)
           e(p) == Events(s[p])
           W == [j \in 1..At(c, n) |-> IF j = 1 \/ j = 4 THEN START
                                      ELSE IF j <= 3 THEN s[j - 1].byte
                                      ELSE IF j <= n + 2 THEN s[j - 2].byte ELSE STOP]
<1>1. n \in Nat /\ n >= 4 /\ \A p \in 1..n : ReadCommand(s[p], p, n)
  BY ReadScript
<1>2. \A p \in 0..n : At(c, p) = IF p = 0 THEN 0 ELSE p + 1 + (IF p >= 3 THEN 1 ELSE 0)
                                                          + (IF p = n THEN 1 ELSE 0)
  BY DEF At, Stops
<1> HIDE DEF s, n
<1>3. ASSUME NEW p \in 1..n PROVE Sound(s[p])
  <2> DEFINE k == s[p]
  <2>1. ReadCommand(k, p, n) /\ p \in Nat
    BY <1>1
  <2> HIDE DEF k
  <2>2. Sound(k)
    BY <1>1, <2>1 DEF ReadCommand, Common, Sound
  <2> QED
    BY <2>2 DEF k
<1>4. ASSUME NEW p \in 1..n
      PROVE  /\ s[p].byte \in Byte \cup {ANY}
             /\ p \in {1, 3} => Len(e(p)) = 2 /\ e(p)[1] = START /\ e(p)[2] = s[p].byte
             /\ p = n => Len(e(p)) = 2 /\ e(p)[1] = s[p].byte /\ e(p)[2] = STOP
             /\ p \notin {1, 3, n} => Len(e(p)) = 1 /\ e(p)[1] = s[p].byte
  <2> DEFINE k == s[p]
  <2>1. /\ k.byte \in Byte \cup {ANY} /\ (k.ctl.sta <=> p \in {1, 3}) /\ (k.ctl.stp <=> p = n)
        /\ (k.ctl.stp => ~k.ctl.sta)
    BY <1>1, <1>3 DEF ReadCommand, Common, Sound
  <2> HIDE DEF k
  <2>2. /\ k.ctl.sta => Len(Events(k)) = 2 /\ Events(k)[1] = START /\ Events(k)[2] = k.byte
        /\ k.ctl.stp => Len(Events(k)) = 2 /\ Events(k)[1] = k.byte /\ Events(k)[2] = STOP
        /\ ~k.ctl.sta /\ ~k.ctl.stp => Len(Events(k)) = 1 /\ Events(k)[1] = k.byte
    BY <2>1, EventsOf
  <2>3. /\ p \in {1, 3} => Len(Events(k)) = 2 /\ Events(k)[1] = START /\ Events(k)[2] = k.byte
        /\ p = n => Len(Events(k)) = 2 /\ Events(k)[1] = k.byte /\ Events(k)[2] = STOP
        /\ p \notin {1, 3, n} => Len(Events(k)) = 1 /\ Events(k)[1] = k.byte
    BY <2>1, <2>2
  <2> QED
    BY <2>1, <2>3 DEF k
<1> HIDE DEF e
<1>5. At(c, n) = n + 3 /\ At(c, n) \in Nat
  BY <1>1, <1>2
<1>6. \A p \in 0..n : At(c, p) \in Nat /\ At(c, p) <= At(c, n)
  BY <1>1, <1>2, <1>5
<1>a. ASSUME NEW p \in 1..n
      PROVE  At(c, p - 1) = IF p = 1 THEN 0 ELSE IF p <= 3 THEN p ELSE p + 1
  <2>1. p \in Nat /\ p - 1 \in 0..n
    BY <1>1
  <2> DEFINE q == p - 1
  <2>2. At(c, q) = IF q = 0 THEN 0 ELSE q + 1 + (IF q >= 3 THEN 1 ELSE 0) + (IF q = n THEN 1 ELSE 0)
    <3> HIDE DEF q
    <3> QED
      BY <1>2, <2>1 DEF q
  <2> QED
    BY <1>1, <2>1, <2>2
<1>7. ASSUME NEW p \in 1..n PROVE At(c, p) = At(c, p - 1) + Len(e(p))
  <2>1. p \in Nat /\ p \in 0..n
    BY <1>1
  <2>2. At(c, p) = p + 1 + (IF p >= 3 THEN 1 ELSE 0) + (IF p = n THEN 1 ELSE 0)
    BY <1>2, <2>1
  <2>3. Len(e(p)) = IF p \in {1, 3} THEN 2 ELSE IF p = n THEN 2 ELSE 1
    BY <1>4
  <2> QED
    BY <1>1, <1>a, <2>1, <2>2, <2>3
<1>8. W \in Seq(Message) /\ Len(W) = At(c, n)
  <2>1. ASSUME NEW j \in 1..At(c, n) PROVE W[j] \in Message
    <3>1. /\ j # 1 /\ j # 4 /\ j <= 3 => s[j - 1].byte \in Message
          /\ ~(j <= 3) /\ j <= n + 2 => s[j - 2].byte \in Message
      <4>1. j # 1 /\ j # 4 /\ j <= 3 => j - 1 \in 1..n
        BY <1>1
      <4>2. ~(j <= 3) /\ j <= n + 2 => j - 2 \in 1..n
        BY <1>1, <1>5
      <4> QED
        BY <1>4, <4>1, <4>2 DEF Message
    <3> QED
      BY <1>5, <3>1 DEF Message
  <2>2. W \in [1..At(c, n) -> Message]
    BY <2>1
  <2> HIDE DEF W
  <2> QED
    BY <1>5, <2>2, IsSequence
<1>9. ASSUME NEW p \in 1..n, NEW j \in 1..Len(e(p)) PROVE e(p)[j] = W[At(c, p - 1) + j]
  <2>1. /\ p - 1 \in 0..n /\ At(c, p) = At(c, p - 1) + Len(e(p)) /\ At(c, p) <= At(c, n)
        /\ p \in Nat
    BY <1>1, <1>6, <1>7
  <2>2. At(c, p - 1) \in Nat /\ Len(e(p)) \in Nat
    BY <1>4, <1>6, <2>1
  <2>3. At(c, p - 1) + j \in 1..At(c, n)
    BY <1>5, <2>1, <2>2
  <2> DEFINE i == At(c, p - 1) + j
  <2>4. W[i] = IF i = 1 \/ i = 4 THEN START
               ELSE IF i <= 3 THEN s[i - 1].byte
               ELSE IF i <= n + 2 THEN s[i - 2].byte ELSE STOP
    <3> HIDE DEF i
    <3> QED
      BY <2>3 DEF i
  <2>l. j \in Nat /\ (j = 1 \/ (j = 2 /\ p \in {1, 3, n}))
    <3> DEFINE l == Len(e(p))
    <3>1. (p \in {1, 3, n} => l = 2) /\ (p \notin {1, 3, n} => l = 1) /\ j \in 1..l
      BY <1>4
    <3> HIDE DEF l
    <3>2. ASSUME l = 2 PROVE j \in Nat /\ (j = 1 \/ j = 2)
      BY <3>1, <3>2
    <3>3. ASSUME l = 1 PROVE j \in Nat /\ j = 1
      BY <3>1, <3>3
    <3> QED
      BY <3>1, <3>2, <3>3
  <2>5. i = (IF p = 1 THEN 0 ELSE IF p <= 3 THEN p ELSE p + 1) + j /\ j \in {1, 2} /\ i \in Nat
    <3>1. j \in {1, 2} /\ j \in Nat
      BY <2>l
    <3> QED
      BY <1>a, <2>2, <3>1
  <2> HIDE DEF W, i
  <2>6. CASE p \in {1, 3}
    <3>1. CASE j = 1
      <4>1. i = 1 \/ i = 4
        BY <2>5, <2>6, <3>1
      <4> QED
        BY <1>4, <2>4, <2>6, <3>1, <4>1 DEF i
    <3>2. CASE j = 2
      <4>1. CASE p = 1
        <5>1. i = 2
          BY <2>5, <3>2, <4>1
        <5>2. W[i] = s[1].byte
          BY <2>4, <5>1
        <5> QED
          BY <1>4, <2>6, <3>2, <4>1, <5>2 DEF i
      <4>2. CASE p = 3
        <5>1. i = 5 /\ i <= n + 2
          BY <1>1, <2>5, <3>2, <4>2
        <5>2. W[i] = s[3].byte
          BY <2>4, <5>1
        <5> QED
          BY <1>4, <2>6, <3>2, <4>2, <5>2 DEF i
      <4> QED
        BY <2>6, <4>1, <4>2
    <3> QED
      BY <2>5, <3>1, <3>2
  <2>7. CASE p = 2
    <3>1. j = 1 /\ p # n
      <4>1. p \notin {1, 3, n}
        BY <1>1, <2>7
      <4> QED
        BY <2>l, <4>1
    <3>2. i = 3
      BY <2>5, <2>7, <3>1
    <3>3. W[i] = s[2].byte
      BY <2>4, <3>2
    <3> QED
      BY <1>4, <2>7, <3>1, <3>3 DEF i
  <2>8. CASE p \notin {1, 2, 3}
    <3>1. i = p + 1 + j /\ p >= 4
      BY <2>1, <2>5, <2>8
    <3>2. CASE j = 1
      <4>1. i = p + 2 /\ i <= n + 2 /\ i > 4 /\ i - 2 = p
        BY <1>1, <2>1, <3>1, <3>2
      <4>2. W[i] = s[p].byte
        BY <2>4, <4>1
      <4> QED
        BY <1>4, <2>8, <3>2, <4>2 DEF i
    <3>3. CASE j = 2
      <4>1. p = n
        BY <2>l, <2>8, <3>3
      <4>2. i = n + 3
        BY <1>1, <3>1, <3>3, <4>1
      <4>3. W[i] = STOP
        BY <1>1, <2>4, <4>2
      <4> QED
        BY <1>4, <3>3, <4>1, <4>3 DEF i
    <3> QED
      BY <2>5, <3>2, <3>3
  <2> QED
    BY <2>6, <2>7, <2>8
<1> HIDE DEF W
<1>10. /\ n \in Nat \ {0} /\ Len(Script(c)) = n
       /\ \A p \in 1..n : /\ Sound(Script(c)[p])
                          /\ At(c, p) = At(c, p - 1) + Len(Events(Script(c)[p]))
       /\ \A p \in 1..n : \A j \in 1..Len(Events(Script(c)[p])) :
            Events(Script(c)[p])[j] = W[At(c, p - 1) + j]
  BY <1>1, <1>3, <1>7, <1>9 DEF e, n, s
<1> QED
  BY ONLY <1>6, <1>8, <1>10, PlacedBy

\* A call of i2c_configure puts nothing on the bus.
LEMMA NothingPlaced ==
  ASSUME NEW c, c.op = "configure"
  PROVE  Placed(c) /\ Script(c) = <<>>
<1>1. Script(c) = <<>>
  BY DEF Script
<1>2. Wire(c) = <<>>
  <2> DEFINE s == [i \in 1..Len(Script(c)) |-> Events(Script(c)[i])]
  <2>1. Wire(c) = FlattenSeq(s)
    BY Zenon DEF Wire, Events
  <2>2. s = <<>>
    BY <1>1
  <2>3. FlattenSeq(<<>>) = <<>>
    BY DEF FlattenSeq
  <2> QED
    BY <2>1, <2>2, <2>3
<1>3. At(c, 0) = 0
  BY DEF At
<1> QED
  BY <1>1, <1>2, <1>3 DEF Placed

\* Every call of the driver is placed.
LEMMA CallPlaced ==
  ASSUME NEW c, IsCall(c)
  PROVE  Placed(c)
BY WritePlaced, ReadPlaced, NothingPlaced DEF IsCall

\* The bus is as command k needs it.
Ready(k) == IF k.ctl.sta THEN HoldHigh \/ (HoldLow /\ Free)
            ELSE HoldLow /\ IF k.ctl.wr THEN Listening ELSE Sending(1)

\* Command k under way, by the state the core is in.
Starting(k, w, b) ==
  \/ st = "StartA" /\ InStartA(k, w, b)
  \/ st = "StartB" /\ InStartB(k, w, b)
  \/ st = "StartC" /\ InStartC(k, w, b)
  \/ st = "StartD" /\ InStartD(k, w, b)
Writing(k, w, b) ==
  \/ st = "WrA" /\ InWrA(k, w, b)
  \/ st = "WrB" /\ InWrB(k, w, b)
  \/ st = "WrC" /\ InWrC(k, w, b)
  \/ st = "WrD" /\ InWrD(k, w, b)
  \/ st = "WrE" /\ InWrE(k, w, b)
  \/ st = "RdAckA" /\ InRdAckA(k, w, b)
  \/ st = "RdAckB" /\ InRdAckB(k, w, b)
  \/ st = "RdAckC" /\ InRdAckC(k, w, b)
  \/ st = "RdAckD" /\ InRdAckD(k, w, b)
  \/ st = "RdAckE" /\ InRdAckE(k, w, b)
Reading(k, w, b) ==
  \/ st = "RdA" /\ InRdA(k, w, b)
  \/ st = "RdB" /\ InRdB(k, w, b)
  \/ st = "RdC" /\ InRdC(k, w, b)
  \/ st = "RdD" /\ InRdD(k, w, b)
  \/ st = "RdE" /\ InRdE(k, w, b)
  \/ st = "RdF" /\ InRdF(k, w, b)
  \/ st = "WrAckA" /\ InWrAckA(k, w, b)
  \/ st = "WrAckB" /\ InWrAckB(k, w, b)
  \/ st = "WrAckC" /\ InWrAckC(k, w, b)
  \/ st = "WrAckD" /\ InWrAckD(k, w, b)
Stopping(k, w, b) ==
  \/ st = "StopA" /\ InStopA(k, w, b)
  \/ st = "StopB" /\ InStopB(k, w, b)
  \/ st = "StopC" /\ InStopC(k, w, b)
Underway(k, w, b) ==
  \/ k.ctl.sta /\ Starting(k, w, b)
  \/ k.ctl.wr /\ Writing(k, w, b)
  \/ ~k.ctl.wr /\ Reading(k, w, b)
  \/ k.ctl.stp /\ Stopping(k, w, b)
Engine(k, w, b) ==
  \/ st = "Idle" /\ Told(w, b) /\ Ready(k)
  \/ Underway(k, w, b)
  \/ st \in {"Done", "DoneAck"} /\ Ended(k, w, b)

\* A step of the core within a START, and on from it.
LEMMA StartStep ==
  ASSUME Moves, NEW k, NEW w, NEW b, Fits(k, w, b), cr = k.ctl, k.ctl.sta, Starting(k, w, b)
  PROVE  Starting(k, w, b)' \/ (k.ctl.wr /\ Writing(k, w, b)')
<1>1. k.ctl.wr
  BY DEF Fits
<1> QED
  BY <1>1, StartAStep, StartBStep, StartCStep, StartDStep DEF Starting, Writing

\* A step within a byte written, and on to a STOP or the end.
LEMMA WriteStep ==
  ASSUME Moves, NEW k, NEW w, NEW b, Fits(k, w, b), cr = k.ctl, k.ctl.wr, dr = k.byte,
         Writing(k, w, b)
  PROVE  \/ Writing(k, w, b)'
         \/ k.ctl.stp /\ Stopping(k, w, b)'
         \/ st' = "Done" /\ Ended(k, w, b)'
<1>1. CASE st \in {"WrA", "WrB", "WrC", "WrD", "WrE"}
  BY <1>1, WrAStep, WrBStep, WrCStep, WrDStep, WrEStep DEF Writing
<1>2. CASE st \notin {"WrA", "WrB", "WrC", "WrD", "WrE"}
  BY <1>2, RdAckAStep, RdAckBStep, RdAckCStep, RdAckDStep, RdAckEStep DEF Writing, Stopping
<1> QED
  BY <1>1, <1>2

\* A step within a byte read, and on to a STOP or the end.
LEMMA ReadStep ==
  ASSUME Moves, NEW k, NEW w, NEW b, Fits(k, w, b), cr = k.ctl, ~k.ctl.wr, Reading(k, w, b)
  PROVE  \/ Reading(k, w, b)'
         \/ k.ctl.stp /\ Stopping(k, w, b)'
         \/ st' = "Done" /\ Ended(k, w, b)'
<1>1. CASE st \in {"RdA", "RdB", "RdC", "RdD", "RdE", "RdF"}
  BY <1>1, RdAStep, RdBStep, RdCStep, RdDStep, RdEStep, RdFStep DEF Reading
<1>2. CASE st \notin {"RdA", "RdB", "RdC", "RdD", "RdE", "RdF"}
  BY <1>2, WrAckAStep, WrAckBStep, WrAckCStep, WrAckDStep DEF Reading, Stopping
<1> QED
  BY <1>1, <1>2

\* A step within a STOP, and to the end.
LEMMA StopStep ==
  ASSUME Moves, NEW k, NEW w, NEW b, Fits(k, w, b), cr = k.ctl, k.ctl.stp, Stopping(k, w, b)
  PROVE  Stopping(k, w, b)' \/ (st' = "Done" /\ Ended(k, w, b)')
BY StopAStep, StopBStep, StopCStep DEF Stopping

\* The core takes up a command.
LEMMA TakesUp ==
  ASSUME Moves, NEW k, NEW w, NEW b, Fits(k, w, b), cr = k.ctl, st = "Idle", Told(w, b), Ready(k)
  PROVE  Underway(k, w, b)'
<1>1. /\ HoldHigh => HoldHigh' /\ Quiet
      /\ HoldLow => HoldLow' /\ Quiet
  BY HoldStays DEF Moves
<1>2. Quiet /\ ctr' = 0 /\ Told(w, b)'
  BY <1>1, HeardKept, Stores DEF Ready, Quiet, Moves
<1>3. CASE k.ctl.sta
  <2>1. st' = "StartA"
    BY <1>3, Successor, Successors DEF Moves, Fits, Quick, Tip
  <2>2. (HoldHigh \/ (HoldLow /\ Free))'
    BY <1>1, <1>2, <1>3, FreeKept DEF Ready
  <2> QED
    BY <1>2, <1>3, <2>1, <2>2 DEF Underway, Starting, InStartA
<1>4. CASE ~k.ctl.sta /\ k.ctl.wr
  <2>1. st' = "WrA"
    BY <1>4, Successor, Successors DEF Moves, Fits, Quick
  <2>2. HoldLow' /\ Listening' /\ Place(k, b) = b
    BY <1>1, <1>2, <1>4 DEF Ready, Listening, Quiet, Place
  <2>3. Low' /\ Taking(ctr, k.ctl.sta)'
    <3>1. /\ dev'.mode = "recv" /\ dev'.n = 0 /\ dev'.drive = 1 /\ ~dev'.addr /\ dev' \in Devices
      BY <2>2, DeviceType DEF Listening, Moves, BusTyped, DevTyped
    <3>2. k.ctl.sta = FALSE /\ dev'.addr = FALSE
      BY <1>4, <3>1 DEF Fits, Controls, Devices
    <3>3. \A j \in 0..0 - 1 : dev'.byte[j] = dr'[j]
      OBVIOUS
    <3> QED
      BY <1>2, <2>2, <3>1, <3>2, <3>3 DEF HoldLow, Low, Taking
  <2> QED
    BY <1>2, <1>4, <2>1, <2>2, <2>3 DEF Underway, Writing, InWrA
<1>5. CASE ~k.ctl.sta /\ ~k.ctl.wr
  <2>1. st' = "RdA"
    BY <1>5, Successor, Successors DEF Moves, Fits, Quick
  <2>2. HoldLow' /\ Sending(1)' /\ Place(k, b) = b
    BY <1>1, <1>2, <1>5 DEF Ready, Sending, Quiet, Place
  <2>3. Low' /\ Copied(ctr)' /\ Fetching(k, w, b, ctr)'
    BY <1>2, <2>2 DEF HoldLow, Low, Copied, Fetching
  <2> QED
    BY <1>5, <2>1, <2>3 DEF Underway, Reading, InRdA
<1> QED
  BY <1>3, <1>4, <1>5

\* While a transfer is in progress its command goes on.
LEMMA EngineStep ==
  ASSUME Moves, NEW k, NEW w, NEW b, Fits(k, w, b), cr = k.ctl, k.ctl.wr => dr = k.byte,
         ~cmdDoneAck, Engine(k, w, b)
  PROVE  Engine(k, w, b)' /\ (st' = "DoneAck" <=> st \in {"Done", "DoneAck"})
<1>1. CASE st = "Idle"
  <2>1. Told(w, b) /\ Ready(k)
    BY <1>1 DEF Engine, Underway, Starting, Writing, Reading, Stopping
  <2>2. Underway(k, w, b)'
    BY <1>1, <2>1, TakesUp
  <2>3. st' # "DoneAck"
    BY <2>2 DEF Underway, Starting, Writing, Reading, Stopping
  <2> QED
    BY <1>1, <2>2, <2>3 DEF Engine
<1>2. CASE st \in {"Done", "DoneAck"}
  <2>1. Ended(k, w, b)
    BY <1>2 DEF Engine, Underway, Starting, Writing, Reading, Stopping
  <2>2. Ended(k, w, b)'
    BY <1>2, <2>1, EndedStays DEF Moves
  <2>3. st' = "DoneAck"
    BY <1>2, Successor, Successors DEF Moves, Quick
  <2> QED
    BY <1>2, <2>2, <2>3 DEF Engine
<1>3. CASE st \notin {"Idle", "Done", "DoneAck"}
  <2>1. Underway(k, w, b)
    BY <1>3 DEF Engine
  <2>2. Underway(k, w, b)' \/ (st' = "Done" /\ Ended(k, w, b)')
    <3>1. CASE k.ctl.sta /\ Starting(k, w, b)
      BY <3>1, StartStep DEF Underway
    <3>2. CASE k.ctl.wr /\ Writing(k, w, b)
      BY <3>2, WriteStep DEF Underway
    <3>3. CASE ~k.ctl.wr /\ Reading(k, w, b)
      BY <3>3, ReadStep DEF Underway
    <3>4. CASE k.ctl.stp /\ Stopping(k, w, b)
      BY <3>4, StopStep DEF Underway
    <3> QED
      BY <2>1, <3>1, <3>2, <3>3, <3>4 DEF Underway
  <2>3. st' # "DoneAck"
    BY <2>2 DEF Underway, Starting, Writing, Reading, Stopping
  <2> QED
    BY <1>3, <2>2, <2>3 DEF Engine
<1> QED
  BY <1>1, <1>2, <1>3

\* Where the events of a command stand, and where the next begin.
LEMMA PlaceAt ==
  ASSUME NEW c, Placed(c), NEW p \in 1..Len(Script(c))
  PROVE  LET k == Script(c)[p]
             b == At(c, p - 1)
         IN /\ At(c, p) = Place(k, b) + (IF k.ctl.stp THEN 2 ELSE 1) /\ b \in Nat
            /\ Fits(k, Wire(c), b) /\ Sound(k) /\ At(c, p) <= Len(Wire(c)) /\ Len(Wire(c)) \in Nat
            /\ b <= Len(Wire(c))
<1> DEFINE k == Script(c)[p]
           b == At(c, p - 1)
           t == At(c, p)
           w == Wire(c)
<1>1. /\ Sound(k) /\ t = b + Len(Events(k)) /\ Fits(k, w, b)
  BY DEF Placed
<1>2. Len(w) \in Nat /\ b \in Nat /\ t \in Nat /\ t <= Len(w)
  <2>1. Len(Script(c)) \in Nat \/ Len(Script(c)) \notin Nat
    OBVIOUS
  <2>2. Len(w) \in Nat /\ b \in Nat
    BY <1>1 DEF Fits
  <2>3. p \in 0..Len(Script(c))
    OBVIOUS
  <2> QED
    BY <2>2, <2>3 DEF Placed
<1> HIDE DEF k, b, t, w
<1>3. Len(Events(k)) = IF k.ctl.sta \/ k.ctl.stp THEN 2 ELSE 1
  BY <1>1, EventsOf DEF Sound
<1>4. t = Place(k, b) + (IF k.ctl.stp THEN 2 ELSE 1) /\ b <= Len(w)
  BY <1>1, <1>2, <1>3 DEF Place, Sound
<1> QED
  BY <1>1, <1>2, <1>4 DEF k, b, t, w

\* A command that was acknowledged leaves the bus as the next one needs it,
\* and the last one leaves it free.
LEMMA WriteGoesOn ==
  ASSUME NEW c, c.op = "write", c.device \in Byte, c.index \in Byte, c.data \in Seq(Byte),
         NEW p \in 1..Len(Script(c)), NEW w, NEW b, Ended(Script(c)[p], w, b),
         ackOut = 0, dr = Script(c)[p].byte
  PROVE  IF p < Len(Script(c)) THEN Ready(Script(c)[p + 1]) ELSE HoldHigh \/ (HoldLow /\ Free)
<1> DEFINE n == Len(Script(c))
           k == Script(c)[p]
<1>1. n \in Nat /\ p \in Nat /\ WriteCommand(k, p, n)
  BY WriteScript
<1>2. CASE p < n
  <2> DEFINE l == Script(c)[p + 1]
  <2>1. p + 1 \in 1..n
    BY <1>1, <1>2
  <2>2. WriteCommand(l, p + 1, n)
    BY <2>1, WriteScript
  <2> HIDE DEF n, k, l
  <2>4. ~k.ctl.stp /\ k.ctl.wr
    BY <1>1, <1>2 DEF WriteCommand, k
  <2>5. HoldLow /\ Listening
    <3>1. HoldLow /\ Settled(k, w, b)
      BY <2>4 DEF Ended, k
    <3>2. ~ToSend(k)
      BY <1>1 DEF WriteCommand, ToSend, k
    <3> QED
      BY <3>1, <3>2 DEF Settled
  <2>6. ~l.ctl.sta /\ l.ctl.wr
    BY <1>1, <2>2 DEF WriteCommand
  <2>7. Ready(l)
    BY <2>5, <2>6 DEF Ready
  <2> QED
    BY <1>2, <2>7 DEF l, n
<1>3. CASE ~(p < n)
  <2> HIDE DEF n, k
  <2>1. CASE k.ctl.stp
    BY <1>3, <2>1 DEF Ended, k, n
  <2>2. CASE ~k.ctl.stp
    <3>1. HoldLow /\ Settled(k, w, b) /\ ~ToSend(k)
      BY <1>1, <2>2 DEF Ended, WriteCommand, ToSend, k
    <3> QED
      BY <1>3, <3>1 DEF Settled, Free, n
  <2> QED
    BY <2>1, <2>2
<1> QED
  BY <1>2, <1>3

\* The same after a command of a read.
LEMMA ReadGoesOn ==
  ASSUME NEW c, c.op = "read", c.device \in Byte, c.index \in Byte, c.size \in Nat \ {0},
         NEW p \in 1..Len(Script(c)), NEW w, NEW b, Ended(Script(c)[p], w, b),
         Script(c)[p].ctl.wr => ackOut = 0 /\ dr = Script(c)[p].byte
  PROVE  IF p < Len(Script(c)) THEN Ready(Script(c)[p + 1]) ELSE HoldHigh \/ (HoldLow /\ Free)
<1> DEFINE n == Len(Script(c))
           k == Script(c)[p]
<1>1. n \in Nat /\ n >= 4 /\ p \in Nat /\ p >= 1 /\ p <= n /\ ReadCommand(k, p, n)
  BY ReadScript
<1>2. CASE p < n
  <2> DEFINE l == Script(c)[p + 1]
  <2>1. p + 1 \in 1..n
    BY <1>1, <1>2
  <2>2. ReadCommand(l, p + 1, n)
    BY <2>1, ReadScript
  <2> HIDE DEF n, k, l
  <2>3. HoldLow /\ ~k.ctl.stp /\ ~k.ctl.ack /\ IF k.ctl.wr THEN Settled(k, w, b) ELSE Given(k, w, b)
    BY <1>1, <1>2 DEF Ended, ReadCommand, k
  <2>4. CASE p <= 2
    <3>1. k.ctl.wr /\ ~ToSend(k)
      BY <1>1, <2>4 DEF ReadCommand, ToSend, k
    <3>2. Listening
      BY <2>3, <3>1 DEF Settled, k
    <3>3. l.ctl.sta \/ (~l.ctl.sta /\ l.ctl.wr)
      BY <1>1, <2>2, <2>4 DEF ReadCommand
    <3>4. Ready(l)
      BY <2>3, <3>2, <3>3 DEF Ready, Free
    <3> QED
      BY <1>2, <3>4 DEF l, n
  <2>5. CASE p > 2
    <3>1. Sending(1)
      <4>1. CASE p = 3
        <5>1. k.ctl.wr /\ ToSend(k)
          BY <1>1, <4>1 DEF ReadCommand, ToSend, k
        <5> QED
          BY <2>3, <5>1 DEF Settled, k
      <4>2. CASE p # 3
        <5>1. ~k.ctl.wr
          BY <1>1, <2>5, <4>2 DEF ReadCommand
        <5> QED
          BY <2>3, <5>1 DEF Given
      <4> QED
        BY <4>1, <4>2
    <3>2. ~l.ctl.sta /\ ~l.ctl.wr
      BY <1>1, <2>2, <2>5 DEF ReadCommand
    <3>3. Ready(l)
      BY <2>3, <3>1, <3>2 DEF Ready
    <3> QED
      BY <1>2, <3>3 DEF l, n
  <2> QED
    BY <1>1, <2>4, <2>5
<1>3. CASE ~(p < n)
  <2> HIDE DEF n, k
  <2>1. k.ctl.stp
    BY <1>1, <1>3 DEF ReadCommand
  <2> QED
    BY <1>3, <2>1 DEF Ended, k, n
<1> QED
  BY <1>2, <1>3

\* After a command that was carried out its events are heard, and the bus is as the next needs it.
LEMMA GoesOn ==
  ASSUME NEW c, IsCall(c), NEW p \in 1..Len(Script(c)),
         Ended(Script(c)[p], Wire(c), At(c, p - 1)),
         Script(c)[p].ctl.wr => ackOut = 0 /\ dr = Script(c)[p].byte
  PROVE  /\ Told(Wire(c), At(c, p))
         /\ IF p < Len(Script(c)) THEN Ready(Script(c)[p + 1]) ELSE HoldHigh \/ (HoldLow /\ Free)
<1> DEFINE k == Script(c)[p]
           w == Wire(c)
           b == At(c, p - 1)
<1>1. Placed(c) /\ c.op # "configure"
  <2>1. Placed(c)
    BY CallPlaced
  <2>2. ASSUME c.op = "configure" PROVE FALSE
    <3>1. Len(Script(c)) = 0
      BY <2>2, NothingPlaced
    <3> QED
      BY <3>1
  <2> QED
    BY <2>1, <2>2
<1>2. At(c, p) = Place(k, b) + (IF k.ctl.stp THEN 2 ELSE 1) /\ Sound(k)
  BY <1>1, PlaceAt
<1>3. Told(w, At(c, p))
  <2> DEFINE t == At(c, p)
  <2>1. Ended(k, w, b) /\ (k.ctl.wr => ackOut = 0) /\ t = Place(k, b) + (IF k.ctl.stp THEN 2 ELSE 1)
    BY <1>2
  <2> HIDE DEF k, w, b, t
  <2>2. ASSUME k.ctl.stp PROVE Told(w, t)
    <3>1. t = Place(k, b) + 2
      BY <2>1, <2>2
    <3> QED
      BY <2>1, <2>2, <3>1 DEF Ended, Stopped
  <2>3. ASSUME ~k.ctl.stp PROVE Told(w, t)
    <3>1. t = Place(k, b) + 1
      BY <2>1, <2>3
    <3> QED
      BY <2>1, <2>3, <3>1 DEF Ended, Settled, Given, ReadAll
  <2>4. Told(w, t)
    BY <2>2, <2>3
  <2> QED
    BY <2>4 DEF t
<1>4. CASE c.op = "write"
  <2>1. c.device \in Byte /\ c.index \in Byte /\ c.data \in Seq(Byte)
    BY <1>4 DEF IsCall
  <2>2. WriteCommand(Script(c)[p], p, Len(Script(c)))
    BY <1>4, <2>1, WriteScript
  <2>3. Script(c)[p].ctl.wr
    BY <2>2 DEF WriteCommand
  <2> QED
    BY <1>3, <1>4, <2>1, <2>3, WriteGoesOn
<1>5. CASE c.op = "read"
  <2>1. c.device \in Byte /\ c.index \in Byte /\ c.size \in Nat \ {0}
    BY <1>5 DEF IsCall
  <2> QED
    BY <1>3, <1>5, <2>1, ReadGoesOn
<1> QED
  BY <1>1, <1>4, <1>5 DEF IsCall

\* Some first part of w was heard, then perhaps a refusal and a STOP.
Sofar(w) == \E n \in 0..Len(w) : Told(w, n) \/ Refused(w, n) \/ RefusedEnd(w, n)

\* A refusal is no event of a message.
LEMMA NackAlone == NACK \notin Message /\ NACK # STOP
<1>1. NACK \notin Byte
  <2> SUFFICES ASSUME NACK \in [0..LastBit -> Bit] PROVE FALSE
    BY DEF Byte
  <2>1. DOMAIN NACK = 0..LastBit /\ 0 \in 0..LastBit
    BY BusAssumption
  <2>2. DOMAIN NACK = 1..1
    BY DEF NACK
  <2>3. 0 \notin 1..1
    OBVIOUS
  <2> QED
    BY <2>1, <2>2, <2>3
<1>2. NACK # START /\ NACK # STOP /\ NACK # ANY
  BY DEF NACK, START, STOP, ANY
<1> QED
  BY <1>1, <1>2 DEF Message

\* The bus has carried the call as far as it got.
LEMMA SofarCarries ==
  ASSUME HeardTyped, NEW w \in Seq(Message), Sofar(w)
  PROVE  /\ \A i \in 1..Len(heard) :
              \/ i <= Len(w) /\ Carried(heard[i], w[i])
              \/ NACK \in {heard[j] : j \in 1..i}
         /\ NACK \in {heard[i] : i \in 1..Len(heard)} => heard[Len(heard)] \in {NACK, STOP}
<1>1. PICK n \in 0..Len(w) : Told(w, n) \/ Refused(w, n) \/ RefusedEnd(w, n)
  BY DEF Sofar
<1>2. n \in Nat /\ n <= Len(w) /\ Len(w) \in Nat /\ Len(heard) \in Nat
  BY DEF HeardTyped
<1>3. \A i \in 1..n : Carried(heard[i], w[i])
  BY <1>1 DEF Told, Refused, RefusedEnd
<1>4. \A i \in 1..n : heard[i] # NACK
  <2> SUFFICES ASSUME NEW i \in 1..n, heard[i] = NACK PROVE FALSE
    OBVIOUS
  <2>1. i \in 1..Len(w)
    BY <1>2
  <2>2. w[i] \in Message /\ Carried(NACK, w[i])
    BY <1>3, <2>1
  <2> QED
    BY <2>2, NackAlone DEF Carried, Message
<1>5. CASE Told(w, n)
  <2>1. Len(heard) = n
    BY <1>5 DEF Told
  <2>2. ASSUME NEW i \in 1..Len(heard) PROVE i <= Len(w) /\ Carried(heard[i], w[i]) /\ heard[i] # NACK
    BY <1>2, <1>3, <1>4, <2>1
  <2> QED
    BY <2>2
<1>6. CASE Refused(w, n) \/ RefusedEnd(w, n)
  <2>1. heard[n + 1] = NACK /\ n + 1 <= Len(heard) /\ heard[Len(heard)] \in {NACK, STOP}
    BY <1>2, <1>6 DEF Refused, RefusedEnd
  <2>2. ASSUME NEW i \in 1..Len(heard)
        PROVE  \/ i <= Len(w) /\ Carried(heard[i], w[i])
               \/ NACK \in {heard[j] : j \in 1..i}
    <3>1. CASE i <= n
      <4>1. i \in 1..n /\ i <= Len(w)
        BY <1>2, <3>1
      <4> QED
        BY <1>3, <4>1
    <3>2. CASE i > n
      <4>1. n + 1 \in 1..i
        BY <1>2, <3>2
      <4> QED
        BY <2>1, <4>1
    <3> QED
      BY <1>2, <3>1, <3>2
  <2> QED
    BY <2>1, <2>2
<1> QED
  BY <1>1, <1>5, <1>6

\* Whatever the command has come to, that much of the message was heard.
LEMMA SofarAt ==
  ASSUME NEW k, NEW w, NEW b, Fits(k, w, b), NEW t, b <= Len(w),
         \/ t \in {b, Place(k, b), Place(k, b) + 1}
         \/ k.ctl.sta /\ t = b + 1
         \/ k.ctl.stp /\ t = Place(k, b) + 2,
         Told(w, t) \/ Refused(w, t) \/ RefusedEnd(w, t)
  PROVE  Sofar(w)
<1>1. t \in 0..Len(w)
  BY DEF Fits, Place
<1> QED
  BY <1>1 DEF Sofar

\* So it has when a command has ended, and while the core works on one.
LEMMA EndedSofar ==
  ASSUME NEW k, NEW w, NEW b, Fits(k, w, b), b <= Len(w), Ended(k, w, b)
  PROVE  Sofar(w)
<1>1. CASE k.ctl.stp
  BY <1>1, SofarAt DEF Ended, Stopped
<1>2. CASE ~k.ctl.stp
  BY <1>2, SofarAt DEF Ended, Settled, Given, ReadAll
<1> QED
  BY <1>1, <1>2

\* Whatever state the core is in.
LEMMA EngineSofar ==
  ASSUME NEW k, NEW w, NEW b, Fits(k, w, b), b <= Len(w), Engine(k, w, b)
  PROVE  Sofar(w)
<1>1. CASE Told(w, b)
  BY <1>1, SofarAt
<1>2. CASE Told(w, Place(k, b))
  BY <1>2, SofarAt
<1>3. CASE Told(w, Place(k, b) + 1) \/ Refused(w, Place(k, b) + 1)
  BY <1>3, SofarAt
<1>4. CASE Ended(k, w, b)
  BY <1>4, EndedSofar
<1>5. CASE k.ctl.stp /\ Stopped(k, w, b)
  BY <1>5, SofarAt DEF Stopped
<1>6. CASE k.ctl.sta /\ Told(w, b + 1)
  BY <1>6, SofarAt
<1> DEFINE Far == \/ Told(w, b) \/ Told(w, Place(k, b)) \/ Told(w, Place(k, b) + 1)
                  \/ Refused(w, Place(k, b) + 1) \/ Ended(k, w, b)
                  \/ (k.ctl.stp /\ Stopped(k, w, b)) \/ (k.ctl.sta /\ Told(w, b + 1))
<1>7. k.ctl.sta /\ Starting(k, w, b) => Far
  BY DEF Starting, InStartA, InStartB, InStartC, InStartD
<1>8. Took(k, w, b) \/ Answered(k, w, b) \/ Settled(k, w, b) => Far
  BY DEF Took, Answered, Settled
<1>9. Writing(k, w, b) => Far
  BY <1>8 DEF Writing, InWrA, InWrB, InWrC, InWrD, InWrE, InRdAckA, InRdAckB, InRdAckC, InRdAckD, InRdAckE
<1>10. ASSUME NEW n PROVE Fetching(k, w, b, n) => Far
  BY DEF Fetching
<1>11. Waiting(k, w, b) \/ Acked(k, w, b) \/ Given(k, w, b) => Far
  BY DEF Waiting, Acked, Given, ReadAll
<1>12. Reading(k, w, b) => Far
  BY <1>10, <1>11 DEF Reading, InRdA, InRdB, InRdC, InRdD, InRdE, InRdF,
     InWrAckA, InWrAckB, InWrAckC, InWrAckD
<1>13. Outcome(k, w, b) => Far
  BY DEF Outcome, ReadAll
<1>14. k.ctl.stp /\ Stopping(k, w, b) => Far
  BY <1>13 DEF Stopping, InStopA, InStopB, InStopC
<1>15. Far
  <2> HIDE DEF Far
  <2>1. Told(w, b) \/ Ended(k, w, b) => Far
    BY DEF Far
  <2> QED
    BY <1>7, <1>9, <1>12, <1>14, <2>1 DEF Engine, Underway
<1> QED
  BY <1>1, <1>2, <1>3, <1>4, <1>5, <1>6, <1>15

\* What was heard stays, and at most one more event is heard at an edge.
LEMMA HeardGrows ==
  ASSUME BusTyped, HeardTyped, Device
  PROVE  /\ HeardTyped' /\ Len(heard') \in Nat /\ Len(heard) <= Len(heard')
         /\ \A i \in 1..Len(heard) : heard'[i] = heard[i]
<1> DEFINE S == Byte \cup {START, STOP, NACK}
<1>1. heard' = heard \/ \E e \in S : heard' = Append(heard, e)
  <2>1. dev'.byte \in Byte /\ dev.byte \in Byte
    BY DeviceType DEF BusTyped, DevTyped, Devices
  <2>2. CASE DevStart \/ DevStop
    BY <2>2 DEF DevStart, DevStop
  <2>3. CASE DevTakeBit
    BY <2>1, <2>3 DEF DevTakeBit
  <2>4. CASE DevAck
    BY <2>4 DEF DevAck
  <2>5. CASE DevSendBit
    BY <2>1, <2>5 DEF DevSendBit
  <2>6. CASE DevAckEnd \/ DevMasterAck \/ DevSendMore \/ DevQuiet
    BY <2>6 DEF DevAckEnd, DevMasterAck, DevSendMore, DevQuiet
  <2> QED
    BY <2>2, <2>3, <2>4, <2>5, <2>6 DEF Device
<1>2. heard \in Seq(S)
  BY DEF HeardTyped
<1> HIDE DEF S
<1>3. CASE heard' = heard
  BY <1>2, <1>3 DEF S, HeardTyped
<1>4. CASE \E e \in S : heard' = Append(heard, e)
  <2>1. PICK e \in S : heard' = Append(heard, e)
    BY <1>4
  <2>2. /\ Append(heard, e) \in Seq(S) /\ Len(Append(heard, e)) = Len(heard) + 1
        /\ \A i \in 1..Len(heard) : Append(heard, e)[i] = heard[i]
    BY <1>2
  <2>3. heard' \in Seq(S) /\ Len(heard') = Len(heard) + 1 /\ Len(heard) \in Nat
    BY <1>2, <2>1, <2>2
  <2> QED
    BY <2>1, <2>2, <2>3 DEF S, HeardTyped
<1> QED
  BY <1>1, <1>3, <1>4

-----------------------------------------------------------------------------
(* The driver's transfers                                                  *)

\* While a transfer is in progress the driver waits for it and the core works
\* on the command it was given.
Transfer(k, w, b) == Tip =>
  /\ pc = "finish" /\ cr = k.ctl /\ (k.ctl.wr => dr = k.byte)
  /\ ~cmdDoneAck /\ (cmdDone <=> st = "DoneAck")
  /\ Engine(k, w, b)

\* Without one the core is at rest, and the lines are as the last command left them.
AtRest == ~Tip =>
  /\ st \in {"Reset", "Idle", "DoneAck"} /\ (st = "Reset" => pc = "init")
  /\ st = "DoneAck" => pc = "finish" /\ cmdDoneAck
Between(k, w, b) == ~Tip =>
  /\ pc = "init" => HoldHigh
  /\ pc \in {"idle", "configure", "config"} => HoldHigh \/ (HoldLow /\ Free)
  /\ pc \in {"wait", "data", "control"} => Told(w, b) /\ Ready(k)
  /\ pc = "control" /\ k.ctl.wr => dr = k.byte
  /\ pc \in {"finish", "status", "fetch", "error"} => Ended(k, w, b) /\ (k.ctl.wr => dr = k.byte)
  /\ pc = "error" => ackOut # 0 /\ k.ctl.wr
  /\ pc = "status" => k.ctl.wr
  /\ pc = "fetch" => ~k.ctl.wr

\* The bit clock runs at the divisor of i2c_init.
Pulse == (sclk => clkCtr = 0) /\ (pc # "init" => clkdiv = ClkCnt)

\* The bit clock is never high for two clocks once it is divided.
LEMMA PulseStep ==
  ASSUME ClkCnt >= 1, BusTyped, ClkGen, sclk => clkCtr = 0
  PROVE  (sclk' => clkCtr' = 0) /\ (clkdiv = ClkCnt /\ sclk => ~sclk')
<1>1. ClkCnt \in Nat /\ ResetDiv \in Nat
  BY BusAssumption
<1>2. clkCtr \in Nat /\ clkdiv \in Nat
  BY <1>1 DEF BusTyped, ClockTyped
<1>3. (sclk' <=> clkCtr >= clkdiv) /\ clkCtr' = IF clkCtr >= clkdiv THEN 0 ELSE clkCtr + 1
  BY DEF ClkGen
<1> QED
  BY <1>1, <1>2, <1>3

\* An edge during a transfer.
LEMMA BusyEdge ==
  ASSUME BusTyped, HeardTyped, NEW a, Clock(a), Tip, sclk => ~sclk',
         NEW k, NEW w, NEW b, Fits(k, w, b), Transfer(k, w, b)
  PROVE  /\ clkdiv' = clkdiv /\ dr' = dr
         /\ \/ Tip' /\ cr' = cr /\ ~cmdDoneAck' /\ (cmdDone' <=> st' = "DoneAck") /\ Engine(k, w, b)'
            \/ ~Tip' /\ st' = "DoneAck" /\ cmdDoneAck' /\ Ended(k, w, b)'
<1>1. /\ Core /\ Device /\ clkdiv' = clkdiv /\ dr' = dr
      /\ \/ RegBusy /\ cr' = cr /\ cmdDoneAck' = FALSE
         \/ RegDone
  BY DEF Clock, RegIdle, RegBusy, RegDone
<1>2. /\ cr = k.ctl /\ (k.ctl.wr => dr = k.byte) /\ ~cmdDoneAck /\ (cmdDone <=> st = "DoneAck")
      /\ Engine(k, w, b)
  BY DEF Transfer
<1>3. CASE RegBusy /\ cr' = cr /\ cmdDoneAck' = FALSE
  <2>1. Moves
    BY <1>1, <1>3 DEF Moves
  <2>2. Engine(k, w, b)' /\ (st' = "DoneAck" <=> st \in {"Done", "DoneAck"})
    BY <1>2, <2>1, EngineStep
  <2>3. cmdDone' <=> st' = "DoneAck"
    BY <1>1, <2>2, Stores
  <2>4. Tip'
    BY <1>3 DEF Tip
  <2> QED
    BY <1>1, <1>3, <2>2, <2>3, <2>4
<1>4. CASE RegDone
  <2>1. st = "DoneAck" /\ cmdDoneAck'
    BY <1>2, <1>4 DEF RegDone
  <2>2. st' = "DoneAck"
    BY <1>1, <1>2, <2>1, Successor, Successors DEF Quick
  <2>3. Ended(k, w, b)
    BY <1>2, <2>1 DEF Engine, Underway, Starting, Writing, Reading, Stopping
  <2>4. Ended(k, w, b)'
    BY <1>1, <2>1, <2>3, EndedStays
  <2>5. ~Tip'
    <3>1. cr \in Controls /\ cr' = [cr EXCEPT !.wr = FALSE, !.rd = FALSE, !.sta = FALSE, !.stp = FALSE]
      BY <1>4 DEF RegDone, BusTyped
    <3> QED
      BY <3>1 DEF Controls, Tip
  <2> QED
    BY <1>1, <2>1, <2>2, <2>4, <2>5
<1> QED
  BY <1>1, <1>3, <1>4

\* An edge without one: the core goes to Idle and the lines stay.
LEMMA RestEdge ==
  ASSUME BusTyped, NEW a, Clock(a), ~Tip, AtRest, pc = "init" => HoldHigh
  PROVE  /\ RegIdle(a) /\ st' = "Idle" /\ cmdDoneAck' = FALSE /\ (cmdDone' <=> st = "DoneAck")
         /\ HoldHigh => HoldHigh' /\ Quiet
         /\ HoldLow => HoldLow' /\ Quiet
         /\ ackOut' = ackOut /\ dout' = dout
<1>1. Core /\ Device /\ RegIdle(a) /\ cmdDoneAck' = FALSE
  BY DEF Clock, RegIdle, RegBusy, RegDone
<1>2. st \in {"Reset", "Idle", "DoneAck"} /\ (st = "Reset" => HoldHigh) /\ (st = "DoneAck" => cmdDoneAck)
  BY DEF AtRest
<1>3. st' = "Idle" /\ ackOut' = ackOut /\ dout' = dout /\ (cmdDone' <=> st = "DoneAck")
  <2>1. st' = NextState
    BY <1>1, <1>2, Successors DEF Quick
  <2>2. ~cr.wr /\ ~cr.rd
    BY DEF Tip
  <2>3. NextState = "Idle"
    <3>1. CASE st = "Idle"
      BY <2>2, <3>1, Successor DEF Tip
    <3>2. CASE st # "Idle"
      BY <1>2, <3>2, Successor
    <3> QED
      BY <3>1, <3>2
  <2>4. /\ ackOut' = ackOut /\ dout' = dout
        /\ cmdDone' = (st \in {"Done", "DoneAck"})
    BY <1>1, <1>2, Stores
  <2> QED
    BY <1>2, <2>1, <2>3, <2>4
<1>4. CASE st # "Reset"
  BY <1>1, <1>2, <1>3, <1>4, HoldStays
<1>5. CASE st = "Reset"
  <2>1. HoldHigh /\ ~HoldLow
    BY <1>2, <1>5 DEF HoldHigh, HoldLow
  <2>2. Puts(1, 1)
    BY <1>1, <1>5, Levels
  <2>3. Quiet /\ Sda = 1 /\ seen' = <<1, 1>>
    BY <1>1, <2>1, HighQuiet, Seen DEF HoldHigh, Away
  <2>4. HoldHigh'
    BY <2>1, <2>2, <2>3 DEF HoldHigh, Puts, Quiet, Away
  <2> QED
    BY <1>1, <1>3, <2>1, <2>3, <2>4
<1> QED
  BY <1>4, <1>5

\* What holds between two commands holds on.
LEMMA RestKeeps ==
  ASSUME BusTyped, NEW a, Clock(a), ~Tip, AtRest, pc = "init" => HoldHigh,
         NEW k, NEW w, NEW b, NEW n
  PROVE  /\ HoldHigh => HoldHigh' /\ heard' = heard
         /\ HoldLow /\ Free => HoldLow' /\ Free' /\ heard' = heard
         /\ Told(w, n) /\ (HoldHigh \/ HoldLow) => Told(w, n)'
         /\ Ready(k) => Ready(k)' /\ heard' = heard
         /\ Ended(k, w, b) /\ (k.ctl.wr => dr = k.byte) /\ dr' = dr => Ended(k, w, b)' /\ heard' = heard
<1>1. /\ HoldHigh => HoldHigh' /\ Quiet
      /\ HoldLow => HoldLow' /\ Quiet
      /\ ackOut' = ackOut /\ dout' = dout
  BY RestEdge
<1>2. Quiet => /\ heard' = heard /\ (Free' <=> Free) /\ (Listening' <=> Listening)
               /\ (Sending(1)' <=> Sending(1)) /\ (Told(w, n)' <=> Told(w, n))
  BY FreeKept, HeardKept DEF Quiet, Listening, Sending
<1>3. Ready(k) => Ready(k)' /\ heard' = heard
  BY <1>1, <1>2 DEF Ready
<1>4. ASSUME Ended(k, w, b), dr' = dr PROVE Ended(k, w, b)' /\ heard' = heard
  <2>1. Quiet
    BY <1>1, <1>4 DEF Ended
  <2>2. /\ Stopped(k, w, b)' <=> Stopped(k, w, b)
        /\ Settled(k, w, b)' <=> Settled(k, w, b)
        /\ Given(k, w, b)' <=> Given(k, w, b)
    BY <1>1, <1>4, <2>1, StoppedKept, SettledKept, HeardKept DEF Given, ReadAll, Quiet, Away, Sending
  <2> QED
    BY <1>1, <1>2, <1>4, <2>1, <2>2 DEF Ended
<1> QED
  BY <1>1, <1>2, <1>3, <1>4

\* The bytes a read has brought so far, and what a call has brought when it returned.
Gathered == InScript =>
  /\ Len(got) = IF call.op = "read" /\ pos > 3 THEN pos - 4 ELSE 0
  /\ \A i \in 1..Len(got) : 5 + i <= Len(heard) /\ got[i] = heard[5 + i]
Returned(w) == ~InScript =>
  /\ result = "SUCCESS" =>
       /\ Told(w, Len(w)) /\ Len(got) = ReadSize(call)
       /\ \A i \in 1..Len(got) : got[i] = heard[Len(heard) - 1 - Len(got) + i]
  /\ result \in {"ENODEV", "EBADACK"} => \E n \in 0..Len(w) : Refused(w, n) \/ RefusedEnd(w, n)
  /\ result = "none" => heard = <<>>

Sized == \A i \in 1..Len(calls) : calls[i].op = "read" => calls[i].size \in Nat \ {0}
CommandInv(k, w, b) ==
  Transfer(k, w, b) /\ Between(k, w, b) /\ Gathered /\ Returned(w)
Carry ==
  /\ HeardTyped /\ Pulse /\ AtRest /\ IsCall(call) /\ Sized
  /\ CommandInv(Command1, Wire(call), At(call, pos - 1))

\* The command the driver is at, and its place in the message of its call.
LEMMA Current ==
  ASSUME DrvTyped, IsCall(call), InScript
  PROVE  /\ pos \in 1..Len(Script(call)) /\ Sound(Command1) /\ Placed(call)
         /\ Fits(Command1, Wire(call), At(call, pos - 1)) /\ At(call, pos - 1) <= Len(Wire(call))
         /\ At(call, pos - 1) \in Nat /\ Len(Wire(call)) \in Nat /\ Wire(call) \in Seq(Message)
         /\ At(call, pos) = Place(Command1, At(call, pos - 1)) + (IF Command1.ctl.stp THEN 2 ELSE 1)
<1>1. pos \in 1..Len(Script(call)) /\ Placed(call)
  BY CallPlaced DEF DrvTyped
<1> QED
  BY <1>1, PlaceAt DEF Command1, Placed

\* A step that stays at its command.
LEMMA StaysAt ==
  ASSUME IsCall(call), Sized, call' = call, pos' = pos, calls' = calls,
         HeardTyped', Pulse', AtRest', NEW k, NEW w, NEW b,
         k = Command1, w = Wire(call), b = At(call, pos - 1), CommandInv(k, w, b)'
  PROVE  Carry'
<1>1. Command1' = k /\ Wire(call)' = w /\ At(call, pos - 1)' = b
  BY DEF Command1
<1>2. CommandInv(Command1, Wire(call), At(call, pos - 1))'
  BY <1>1
<1>3. IsCall(call)' /\ Sized'
  BY DEF Sized
<1> QED
  BY <1>2, <1>3 DEF Carry

\* An edge while a transfer is in progress.
LEMMA Busy ==
  ASSUME ClkCnt >= 1, BusTyped, DrvTyped, Carry, NEW a, Clock(a), Tip, UNCHANGED drvVars
  PROVE  Carry'
<1>1. PICK k, w, b : k = Command1 /\ w = Wire(call) /\ b = At(call, pos - 1)
  OBVIOUS
<1>2. CommandInv(k, w, b) /\ HeardTyped /\ Pulse /\ IsCall(call) /\ Sized
  BY <1>1 DEF Carry
<1>3. pc = "finish" /\ cr = k.ctl /\ (k.ctl.wr => dr = k.byte)
  BY <1>2 DEF CommandInv, Transfer
<1>4. Fits(k, w, b)
  BY <1>1, <1>2, <1>3, Current DEF InScript
<1>5. (sclk => ~sclk') /\ (sclk' => clkCtr' = 0) /\ clkdiv = ClkCnt
  BY <1>2, <1>3, PulseStep DEF Clock, Pulse
<1>6. /\ clkdiv' = clkdiv /\ dr' = dr
      /\ \/ Tip' /\ cr' = cr /\ ~cmdDoneAck' /\ (cmdDone' <=> st' = "DoneAck") /\ Engine(k, w, b)'
         \/ ~Tip' /\ st' = "DoneAck" /\ cmdDoneAck' /\ Ended(k, w, b)'
  BY <1>2, <1>4, <1>5, BusyEdge DEF CommandInv
<1>7. /\ HeardTyped' /\ Len(heard') \in Nat /\ Len(heard) <= Len(heard') /\ Len(heard) \in Nat
      /\ \A i \in 1..Len(heard) : heard'[i] = heard[i]
  BY <1>2, HeardGrows DEF Clock, HeardTyped
<1>8. pc' = "finish" /\ got' = got /\ call' = call /\ pos' = pos /\ calls' = calls
  BY <1>3 DEF drvVars
<1>9. Transfer(k, w, b)'
  BY <1>3, <1>6, <1>8 DEF Transfer
<1>10. AtRest' /\ Between(k, w, b)'
  BY <1>3, <1>6, <1>8 DEF AtRest, Between
<1>11. Gathered'
  <2>1. /\ Len(got) = IF call.op = "read" /\ pos > 3 THEN pos - 4 ELSE 0
        /\ \A i \in 1..Len(got) : 5 + i <= Len(heard) /\ got[i] = heard[5 + i]
    BY <1>2, <1>3 DEF CommandInv, Gathered, InScript
  <2>2. ASSUME NEW i \in 1..Len(got) PROVE 5 + i <= Len(heard') /\ got[i] = heard'[5 + i]
    <3>1. 5 + i \in 1..Len(heard)
      BY <1>7, <2>1
    <3> QED
      BY <1>7, <2>1, <3>1
  <2> QED
    BY <1>8, <2>1, <2>2 DEF Gathered
<1>12. Returned(w)'
  BY <1>8 DEF Returned, InScript
<1>13. Pulse'
  BY <1>5, <1>6 DEF Pulse
<1> QED
  BY <1>1, <1>2, <1>7, <1>8, <1>9, <1>10, <1>11, <1>12, <1>13, StaysAt DEF CommandInv

\* An edge without a transfer: nothing happens on the bus.
LEMMA Still ==
  ASSUME ClkCnt >= 1, BusTyped, DrvTyped, Carry, NEW a, Clock(a), ~Tip
  PROVE  /\ RegIdle(a) /\ st' = "Idle" /\ cmdDoneAck' = FALSE /\ (cmdDone' <=> st = "DoneAck")
         /\ ackOut' = ackOut /\ dout' = dout /\ heard' = heard /\ HeardTyped' /\ AtRest'
         /\ sclk' => clkCtr' = 0
<1>1. PICK k, w, b : k = Command1 /\ w = Wire(call) /\ b = At(call, pos - 1)
  OBVIOUS
<1>2. Between(k, w, b) /\ HeardTyped /\ Pulse /\ AtRest
  BY <1>1 DEF Carry, CommandInv
<1>3. pc = "init" => HoldHigh
  BY <1>2 DEF Between
<1>4. /\ RegIdle(a) /\ st' = "Idle" /\ cmdDoneAck' = FALSE /\ (cmdDone' <=> st = "DoneAck")
      /\ ackOut' = ackOut /\ dout' = dout
      /\ HoldHigh \/ HoldLow => heard' = heard
  BY <1>2, <1>3, RestEdge DEF Quiet
<1>5. HoldHigh \/ HoldLow
  BY <1>2 DEF Between, Ready, Ended, DrvTyped
<1>6. sclk' => clkCtr' = 0
  BY <1>2, PulseStep DEF Clock, Pulse
<1>7. HeardTyped' /\ AtRest'
  BY <1>2, <1>4, <1>5 DEF HeardTyped, AtRest
<1> QED
  BY <1>4, <1>5, <1>6, <1>7

\* The lines after it.
LEMMA StillLines ==
  ASSUME ClkCnt >= 1, BusTyped, DrvTyped, Carry, NEW a, Clock(a), ~Tip, NEW k, NEW w, NEW b,
         k = Command1, w = Wire(call), b = At(call, pos - 1)
  PROVE  /\ pc = "init" => HoldHigh'
         /\ pc \in {"idle", "configure", "config"} => HoldHigh' \/ (HoldLow' /\ Free')
         /\ pc \in {"wait", "data", "control"} => Told(w, b)' /\ Ready(k)'
         /\ pc \in {"finish", "status", "fetch", "error"} /\ dr' = dr => Ended(k, w, b)'
<1>1. Between(k, w, b) /\ AtRest
  BY DEF Carry, CommandInv
<1>2. pc = "init" => HoldHigh
  BY <1>1 DEF Between
<1>3. /\ HoldHigh => HoldHigh' /\ heard' = heard
      /\ HoldLow /\ Free => HoldLow' /\ Free' /\ heard' = heard
      /\ Told(w, b) /\ (HoldHigh \/ HoldLow) => Told(w, b)'
      /\ Ready(k) => Ready(k)' /\ heard' = heard
      /\ Ended(k, w, b) /\ (k.ctl.wr => dr = k.byte) /\ dr' = dr => Ended(k, w, b)' /\ heard' = heard
  BY <1>1, <1>2, RestKeeps
<1>4. Ready(k) => HoldHigh \/ HoldLow
  BY DEF Ready
<1> QED
  BY <1>1, <1>3, <1>4 DEF Between

\* What an access that writes no register leaves alone.
LEMMA NoWrite ==
  ASSUME NEW a, RegIdle(a), a.op # "write"
  PROVE  dr' = dr /\ cr' = cr /\ clkdiv' = clkdiv /\ (Tip' <=> Tip)
BY DEF RegIdle, Tip

\* Which accesses write, and what.
LEMMA AccessKinds ==
  /\ NoAccess.op # "write" /\ \A x : Read(x).op # "write"
  /\ \A x, v : Write(x, v).op = "write" /\ Write(x, v).adr = x /\ Write(x, v).val = v
BY DEF NoAccess, Read, Write

\* What a step that is heard nowhere keeps of the bytes read and of the result.
LEMMA StillGathers ==
  ASSUME heard' = heard, got' = got, call' = call, pos' = pos, result' = result, NEW w
  PROVE  /\ Gathered /\ (InScript' => InScript) => Gathered'
         /\ Returned(w) /\ (~InScript' => ~InScript) => Returned(w)'
<1>1. \A n : /\ Told(w, n)' <=> Told(w, n)
             /\ Refused(w, n)' <=> Refused(w, n)
             /\ RefusedEnd(w, n)' <=> RefusedEnd(w, n)
  BY DEF Told, Refused, RefusedEnd
<1>2. Told(w, Len(w))' <=> Told(w, Len(w))
  BY <1>1
<1>3. (\E n \in 0..Len(w) : Refused(w, n) \/ RefusedEnd(w, n))'
        <=> \E n \in 0..Len(w) : Refused(w, n) \/ RefusedEnd(w, n)
  BY <1>1
<1>4. Gathered /\ (InScript' => InScript) => Gathered'
  BY DEF Gathered
<1>5. ReadSize(call)' = ReadSize(call)
  OBVIOUS
<1>6. Returned(w) /\ (~InScript' => ~InScript) => Returned(w)'
  BY <1>2, <1>3, <1>5 DEF Returned
<1> QED
  BY <1>4, <1>6

\* A clock without an access changes nothing on a bus at rest.
LEMMA TickCarry ==
  ASSUME ClkCnt >= 1, BusTyped, DrvTyped, Carry, Tick, ~Tip
  PROVE  Carry'
<1>1. PICK k, w, b : k = Command1 /\ w = Wire(call) /\ b = At(call, pos - 1)
  OBVIOUS
<1>2. CommandInv(k, w, b) /\ IsCall(call) /\ Sized /\ Pulse
  BY <1>1 DEF Carry
<1>3. Clock(NoAccess) /\ UNCHANGED <<calls, call, pos, pc, result, got, word>>
  BY DEF Tick, drvVars
<1>4. /\ RegIdle(NoAccess) /\ ackOut' = ackOut /\ heard' = heard /\ HeardTyped' /\ AtRest'
      /\ sclk' => clkCtr' = 0
  BY <1>3, Still
<1>5. dr' = dr /\ clkdiv' = clkdiv /\ ~Tip'
  BY <1>4, NoWrite, AccessKinds
<1>6. /\ pc = "init" => HoldHigh'
      /\ pc \in {"idle", "configure", "config"} => HoldHigh' \/ (HoldLow' /\ Free')
      /\ pc \in {"wait", "data", "control"} => Told(w, b)' /\ Ready(k)'
      /\ pc \in {"finish", "status", "fetch", "error"} => Ended(k, w, b)'
  BY <1>1, <1>3, <1>5, StillLines
<1>7. Between(k, w, b)'
  BY <1>2, <1>3, <1>4, <1>5, <1>6 DEF Between, CommandInv
<1>8. Gathered' /\ Returned(w)'
  BY <1>2, <1>3, <1>4, StillGathers DEF CommandInv, InScript
<1>9. CommandInv(k, w, b)' /\ Pulse'
  BY <1>2, <1>3, <1>4, <1>5, <1>7, <1>8 DEF CommandInv, Transfer, Pulse
<1> QED
  BY <1>1, <1>2, <1>3, <1>4, <1>9, StaysAt

\* The poll of TIP that finds it low goes on to the command or its outcome.
LEMMA WaitCarry ==
  ASSUME ClkCnt >= 1, BusTyped, DrvTyped, Carry, WaitEndOfTransfer, ~Tip
  PROVE  Carry'
<1>1. PICK k, w, b : k = Command1 /\ w = Wire(call) /\ b = At(call, pos - 1)
  OBVIOUS
<1>2. CommandInv(k, w, b) /\ IsCall(call) /\ Sized /\ Pulse
  BY <1>1 DEF Carry
<1>3. /\ pc \in {"wait", "finish"} /\ Clock(Read("SR"))
      /\ UNCHANGED <<calls, call, pos, result, got, word>>
      /\ pc = "wait" => pc' = IF k.ctl.wr THEN "data" ELSE "control"
      /\ pc = "finish" => pc' = IF k.ctl.wr THEN "status" ELSE "fetch"
  BY <1>1 DEF WaitEndOfTransfer, PollDone
<1>4. /\ RegIdle(Read("SR")) /\ ackOut' = ackOut /\ heard' = heard /\ HeardTyped' /\ AtRest'
      /\ sclk' => clkCtr' = 0
  BY <1>3, Still
<1>5. dr' = dr /\ clkdiv' = clkdiv /\ ~Tip'
  BY <1>4, NoWrite, AccessKinds
<1>6. /\ pc = "wait" => Told(w, b)' /\ Ready(k)'
      /\ pc = "finish" => Ended(k, w, b)'
  BY <1>1, <1>3, <1>5, StillLines
<1>7. Between(k, w, b)'
  BY <1>2, <1>3, <1>4, <1>5, <1>6 DEF Between, CommandInv
<1>8. Gathered' /\ Returned(w)'
  <2>1. InScript /\ InScript'
    BY <1>3 DEF InScript
  <2> QED
    BY <1>2, <1>3, <1>4, <2>1, StillGathers DEF CommandInv
<1>9. CommandInv(k, w, b)' /\ Pulse'
  BY <1>2, <1>3, <1>4, <1>5, <1>7, <1>8 DEF CommandInv, Transfer, Pulse
<1> QED
  BY <1>1, <1>2, <1>3, <1>4, <1>9, StaysAt

\* The byte of the command is in the data register.
LEMMA DataCarry ==
  ASSUME ClkCnt >= 1, BusTyped, DrvTyped, Carry, WriteData, ~Tip
  PROVE  Carry'
<1>1. PICK k, w, b : k = Command1 /\ w = Wire(call) /\ b = At(call, pos - 1)
  OBVIOUS
<1>2. CommandInv(k, w, b) /\ IsCall(call) /\ Sized /\ Pulse
  BY <1>1 DEF Carry
<1>3. /\ pc = "data" /\ pc' = "control" /\ Clock(Write("DR", k.byte))
      /\ UNCHANGED <<calls, call, pos, result, got, word>>
  BY <1>1 DEF WriteData
<1>4. /\ RegIdle(Write("DR", k.byte)) /\ heard' = heard /\ HeardTyped' /\ AtRest'
      /\ sclk' => clkCtr' = 0
  BY <1>3, Still
<1>5. dr' = k.byte /\ cr' = cr /\ clkdiv' = clkdiv
  BY <1>4, AccessKinds DEF RegIdle
<1>6. Told(w, b)' /\ Ready(k)'
  BY <1>1, <1>3, StillLines
<1>7. Between(k, w, b)' /\ ~Tip'
  BY <1>3, <1>5, <1>6 DEF Between, Tip
<1>8. Gathered' /\ Returned(w)'
  <2>1. InScript /\ InScript'
    BY <1>3 DEF InScript
  <2> QED
    BY <1>2, <1>3, <1>4, <2>1, StillGathers DEF CommandInv
<1>9. CommandInv(k, w, b)' /\ Pulse'
  BY <1>2, <1>3, <1>4, <1>5, <1>7, <1>8 DEF CommandInv, Transfer, Pulse
<1> QED
  BY <1>1, <1>2, <1>3, <1>4, <1>9, StaysAt

\* The command is given to the core.
LEMMA ControlCarry ==
  ASSUME ClkCnt >= 1, BusTyped, DrvTyped, Carry, WriteControl, ~Tip
  PROVE  Carry'
<1>1. PICK k, w, b : k = Command1 /\ w = Wire(call) /\ b = At(call, pos - 1)
  OBVIOUS
<1>2. CommandInv(k, w, b) /\ IsCall(call) /\ Sized /\ Pulse /\ AtRest
  BY <1>1 DEF Carry
<1>3. /\ pc = "control" /\ pc' = "finish" /\ Clock(Write("CR", k.ctl))
      /\ UNCHANGED <<calls, call, pos, result, got, word>>
  BY <1>1 DEF WriteControl
<1>4. /\ RegIdle(Write("CR", k.ctl)) /\ heard' = heard /\ HeardTyped' /\ AtRest'
      /\ st' = "Idle" /\ cmdDoneAck' = FALSE /\ (cmdDone' <=> st = "DoneAck")
      /\ sclk' => clkCtr' = 0
  BY <1>3, Still
<1>5. dr' = dr /\ cr' = k.ctl /\ clkdiv' = clkdiv /\ st # "DoneAck"
  BY <1>2, <1>3, <1>4, AccessKinds DEF RegIdle, AtRest
<1>6. Told(w, b)' /\ Ready(k)'
  BY <1>1, <1>3, StillLines
<1>7. Tip'
  <2>1. Sound(k)
    BY <1>1, <1>2, <1>3, Current DEF InScript
  <2> QED
    BY <1>5, <2>1 DEF Sound, Tip
<1>8. Transfer(k, w, b)'
  <2>1. Engine(k, w, b)'
    BY <1>4, <1>6 DEF Engine
  <2>2. k.ctl.wr => dr' = k.byte
    BY <1>2, <1>3, <1>5 DEF CommandInv, Between
  <2> QED
    BY <1>3, <1>4, <1>5, <2>1, <2>2 DEF Transfer
<1>9. Gathered' /\ Returned(w)'
  <2>1. InScript /\ InScript'
    BY <1>3 DEF InScript
  <2> QED
    BY <1>2, <1>3, <1>4, <2>1, StillGathers DEF CommandInv
<1>10. CommandInv(k, w, b)' /\ Pulse'
  BY <1>2, <1>3, <1>4, <1>5, <1>7, <1>8, <1>9 DEF CommandInv, Between, Pulse
<1> QED
  BY <1>1, <1>2, <1>3, <1>4, <1>10, StaysAt

\* The error path: the STOP bit alone starts no transfer.
LEMMA GiveUpCarry ==
  ASSUME ClkCnt >= 1, BusTyped, DrvTyped, Carry, GiveUp, ~Tip
  PROVE  Carry'
<1> DEFINE v == Control({"STP"})
<1>1. PICK k, w, b : k = Command1 /\ w = Wire(call) /\ b = At(call, pos - 1)
  OBVIOUS
<1>2. CommandInv(k, w, b) /\ IsCall(call) /\ Sized /\ Pulse
  BY <1>1 DEF Carry
<1>3. /\ pc = "error" /\ pc' = "idle" /\ Clock(Write("CR", v)) /\ result' = k.err
      /\ UNCHANGED <<calls, call, pos, got, word>>
  BY <1>1 DEF GiveUp
<1> HIDE DEF v
<1>4. /\ RegIdle(Write("CR", v)) /\ heard' = heard /\ HeardTyped' /\ AtRest' /\ ackOut' = ackOut
      /\ sclk' => clkCtr' = 0
  BY <1>3, Still
<1>5. dr' = dr /\ cr' = v /\ clkdiv' = clkdiv
  BY <1>4, AccessKinds DEF RegIdle
<1>6. ~Tip'
  BY <1>5, NoTransfer DEF Tip, v
<1>7. ackOut' # 0 /\ k.ctl.wr /\ Ended(k, w, b)'
  <2>1. ackOut # 0 /\ k.ctl.wr
    BY <1>2, <1>3 DEF CommandInv, Between
  <2> QED
    BY <1>1, <1>3, <1>4, <1>5, <2>1, StillLines
<1>8. /\ Sound(k) /\ Fits(k, w, b) /\ b <= Len(w) /\ b \in Nat /\ Len(w) \in Nat
      /\ Place(k, b) + 1 \in 0..Len(w)
  <2>1. Sound(k) /\ Fits(k, w, b) /\ b <= Len(w) /\ b \in Nat /\ Len(w) \in Nat
    BY <1>1, <1>2, <1>3, Current DEF InScript
  <2> QED
    BY <2>1 DEF Fits, Place
<1> DEFINE t == Place(k, b) + 1
<1>9. (HoldHigh \/ (HoldLow /\ Free))' /\ (Refused(w, t) \/ RefusedEnd(w, t))'
  <2>1. CASE k.ctl.stp
    BY <1>7, <2>1 DEF Ended, Stopped
  <2>2. CASE ~k.ctl.stp
    BY <1>7, <2>2 DEF Ended, Settled, Free
  <2> QED
    BY <2>1, <2>2
<1>10. Between(k, w, b)'
  BY <1>3, <1>9 DEF Between
<1>11. Returned(w)'
  <2>1. result' \in {"ENODEV", "EBADACK"}
    BY <1>3, <1>7, <1>8 DEF Sound
  <2> HIDE DEF t
  <2>2. \E n \in 0..Len(w) : (Refused(w, n) \/ RefusedEnd(w, n))'
    BY <1>8, <1>9 DEF t
  <2> QED
    BY <2>1, <2>2 DEF Returned
<1>12. Gathered'
  BY <1>3 DEF Gathered, InScript
<1>13. CommandInv(k, w, b)' /\ Pulse'
  BY <1>2, <1>3, <1>4, <1>5, <1>6, <1>10, <1>11, <1>12 DEF CommandInv, Transfer, Pulse
<1> QED
  BY <1>1, <1>2, <1>3, <1>4, <1>13, StaysAt

\* i2c_init and i2c_configure write a register between two calls.
LEMMA IdleWriteCarry ==
  ASSUME ClkCnt >= 1, BusTyped, DrvTyped, Carry, ~Tip, I2cInit \/ ConfigureStop \/ ConfigureIrq
  PROVE  Carry'
<1>1. PICK k, w, b : k = Command1 /\ w = Wire(call) /\ b = At(call, pos - 1)
  OBVIOUS
<1>2. CommandInv(k, w, b) /\ IsCall(call) /\ Sized /\ Pulse
  BY <1>1 DEF Carry
<1> DEFINE Good == /\ heard' = heard /\ HeardTyped' /\ AtRest' /\ ~Tip' /\ clkdiv' = ClkCnt
                   /\ sclk' => clkCtr' = 0
                   /\ HoldHigh' \/ (HoldLow' /\ Free')
                   /\ pc' \in {"idle", "config"} /\ ~InScript
                   /\ UNCHANGED <<calls, call, pos, result, got, word>>
<1>3. ASSUME I2cInit PROVE Good
  <2>1. /\ pc = "init" /\ pc' = "idle" /\ Clock(Write("CD", ClkCnt))
        /\ UNCHANGED <<calls, call, pos, result, got, word>>
    BY <1>3 DEF I2cInit
  <2>2. /\ RegIdle(Write("CD", ClkCnt)) /\ heard' = heard /\ HeardTyped' /\ AtRest'
        /\ sclk' => clkCtr' = 0
    BY <2>1, Still
  <2>3. cr' = cr /\ clkdiv' = ClkCnt
    BY <2>2, AccessKinds DEF RegIdle
  <2>4. ~Tip' /\ HoldHigh'
    BY <1>1, <2>1, <2>3, StillLines DEF Tip
  <2> QED
    BY <2>1, <2>2, <2>3, <2>4 DEF InScript
<1>4. ASSUME NEW bits, "WR" \notin bits, "RD" \notin bits, Clock(Write("CR", Control(bits))),
             pc \in {"configure", "config"}, pc' \in {"idle", "config"},
             UNCHANGED <<calls, call, pos, result, got, word>>
      PROVE  Good
  <2> DEFINE v == Control(bits)
  <2>1. ~v.wr /\ ~v.rd
    BY <1>4, NoTransfer
  <2> HIDE DEF v
  <2>2. /\ RegIdle(Write("CR", v)) /\ heard' = heard /\ HeardTyped' /\ AtRest'
        /\ sclk' => clkCtr' = 0
    BY <1>4, Still DEF v
  <2>3. cr' = v /\ clkdiv' = clkdiv
    BY <2>2, AccessKinds DEF RegIdle
  <2>4. ~Tip' /\ (HoldHigh' \/ (HoldLow' /\ Free'))
    <3>1. ~Tip'
      BY <2>1, <2>3 DEF Tip
    <3>2. Clock(Write("CR", v))
      BY <1>4 DEF v
    <3> QED
      BY <1>1, <1>4, <3>1, <3>2, StillLines
  <2>5. clkdiv' = ClkCnt
    BY <1>2, <1>4, <2>3 DEF Pulse
  <2> QED
    BY <1>4, <2>2, <2>4, <2>5 DEF InScript
<1>5. ASSUME ConfigureStop PROVE Good
  <2>1. "WR" \notin {"STP"} /\ "RD" \notin {"STP"}
    OBVIOUS
  <2> QED
    BY <1>4, <1>5, <2>1 DEF ConfigureStop
<1>6. ASSUME ConfigureIrq PROVE Good
  <2> DEFINE bits == IF call.irq THEN {"IEN"} ELSE {}
  <2>1. "WR" \notin bits /\ "RD" \notin bits
    OBVIOUS
  <2>2. /\ Clock(Write("CR", Control(bits))) /\ pc = "config" /\ pc' = "idle"
        /\ UNCHANGED <<calls, call, pos, result, got, word>>
    BY <1>6 DEF ConfigureIrq
  <2> HIDE DEF bits
  <2> QED
    BY <1>4, <2>1, <2>2
<1>7. Good
  BY <1>3, <1>5, <1>6
<1>8. Between(k, w, b)' /\ Transfer(k, w, b)' /\ Pulse'
  BY <1>7 DEF Between, Transfer, Pulse
<1>9. Gathered' /\ Returned(w)'
  <2>1. ~InScript'
    BY <1>7 DEF InScript
  <2> QED
    BY <1>2, <1>7, <2>1, StillGathers DEF CommandInv
<1> QED
  BY <1>1, <1>2, <1>7, <1>8, <1>9, StaysAt DEF CommandInv

\* The calls that read, and how far: the commands 4.. of a read bring the bytes.
LEMMA ReadPosition ==
  ASSUME DrvTyped, IsCall(call), InScript
  PROVE  /\ Command1.ctl.wr <=> ~(call.op = "read" /\ pos > 3)
         /\ call.op = "read" => Len(Script(call)) = 3 + call.size /\ call.size \in Nat \ {0}
         /\ Len(Wire(call)) = Len(Script(call)) + 1 + (IF call.op = "read" THEN 1 ELSE 0)
                              + (IF Stops(call) THEN 1 ELSE 0)
         /\ Len(Wire(call)) = At(call, Len(Script(call))) /\ Len(Script(call)) \in Nat
         /\ ~Command1.ctl.wr => ~Command1.ctl.sta /\ At(call, pos - 1) = pos + 1
         /\ ReadSize(call) = IF call.op = "read" THEN call.size ELSE 0
<1> DEFINE n == Len(Script(call))
<1>1. pos \in 1..n /\ Placed(call)
  BY Current
<1>2. call.op # "configure"
  <2>1. ASSUME call.op = "configure" PROVE FALSE
    <3>1. n = 0
      BY <2>1, NothingPlaced
    <3> QED
      BY <1>1, <3>1
  <2> QED
    BY <2>1
<1>3. Len(Wire(call)) = At(call, n) /\ ReadSize(call) = IF call.op = "read" THEN call.size ELSE 0
  BY <1>1 DEF Placed, ReadSize
<1>4. CASE call.op = "write"
  <2>1. call.device \in Byte /\ call.index \in Byte /\ call.data \in Seq(Byte)
    BY <1>4 DEF IsCall
  <2>2. n \in Nat /\ n >= 2 /\ WriteCommand(Command1, pos, n)
    BY <1>1, <1>4, <2>1, WriteScript DEF Command1
  <2>3. Command1.ctl.wr
    BY <2>2 DEF WriteCommand
  <2> HIDE DEF n
  <2>4. At(call, n) = n + 1 + (IF Stops(call) THEN 1 ELSE 0)
    BY <1>4, <2>2 DEF At, n
  <2> QED
    BY <1>3, <1>4, <2>2, <2>3, <2>4 DEF n
<1>5. CASE call.op = "read"
  <2>1. call.device \in Byte /\ call.index \in Byte /\ call.size \in Nat \ {0}
    BY <1>5 DEF IsCall
  <2>2. n = 3 + call.size /\ ReadCommand(Command1, pos, n)
    BY <1>1, <1>5, <2>1, ReadScript DEF Command1
  <2>3. n \in Nat /\ n >= 4 /\ pos \in Nat /\ pos >= 1 /\ pos <= n
    BY <1>1, <2>1, <2>2
  <2> HIDE DEF n
  <2>4. At(call, n) = n + 2 + (IF Stops(call) THEN 1 ELSE 0)
    BY <1>5, <2>3 DEF At, n
  <2>5. /\ Command1.ctl.wr <=> ~(pos > 3)
        /\ pos > 3 => ~Command1.ctl.sta
    BY <2>2, <2>3 DEF ReadCommand
  <2>6. pos > 3 => At(call, pos - 1) = pos + 1
    <3> DEFINE q == pos - 1
    <3>1. pos > 3 => q \in Nat /\ q # 0 /\ q >= 3 /\ q # n /\ q + 2 = pos + 1
      BY <2>3
    <3> HIDE DEF q
    <3>2. pos > 3 => At(call, q) = q + 1 + 1 + 0
      BY <1>5, <3>1 DEF At, n
    <3> QED
      BY <3>1, <3>2 DEF q
  <2> QED
    BY <1>3, <1>5, <2>1, <2>2, <2>3, <2>4, <2>5, <2>6 DEF n
<1> QED
  BY <1>2, <1>4, <1>5 DEF IsCall

\* On from a command that was carried out: to the next one, or out of the call.
LEMMA AdvanceCarry ==
  ASSUME ClkCnt >= 1, BusTyped, DrvTyped, Carry, ~Tip, NEW a, Clock(a), a.op # "write",
         pc \in {"status", "fetch"}, pc = "status" => ackOut = 0,
         NEW bytes \in Seq(Byte), Advance(bytes), call' = call, calls' = calls,
         bytes = IF pc = "fetch" THEN Append(got, dout) ELSE got
  PROVE  Carry'
<1> DEFINE n == Len(Script(call))
           w == Wire(call)
           k == Command1
           b == At(call, pos - 1)
           t == At(call, pos)
<1>1. /\ HeardTyped /\ Pulse /\ AtRest /\ IsCall(call) /\ Sized /\ Between(k, w, b) /\ Gathered
  BY DEF Carry, CommandInv
<1>2. /\ Ended(k, w, b) /\ (k.ctl.wr => dr = k.byte)
      /\ (pc = "status" <=> k.ctl.wr) /\ InScript
  BY <1>1 DEF Between, InScript
<1>3. /\ pos \in 1..n /\ Sound(k) /\ Placed(call) /\ b \in Nat /\ Len(w) \in Nat
      /\ t = Place(k, b) + (IF k.ctl.stp THEN 2 ELSE 1)
  BY <1>1, <1>2, Current
<1>4. /\ k.ctl.wr <=> ~(call.op = "read" /\ pos > 3)
      /\ call.op = "read" => n = 3 + call.size /\ call.size \in Nat \ {0}
      /\ Len(w) = At(call, n) /\ n \in Nat
      /\ ~k.ctl.wr => ~k.ctl.sta /\ b = pos + 1
      /\ ReadSize(call) = IF call.op = "read" THEN call.size ELSE 0
  BY <1>1, <1>2, ReadPosition
<1>5. /\ RegIdle(a) /\ ackOut' = ackOut /\ heard' = heard /\ HeardTyped' /\ AtRest'
      /\ sclk' => clkCtr' = 0
  BY Still
<1>6. dr' = dr /\ clkdiv' = clkdiv /\ ~Tip'
  BY <1>5, NoWrite
<1>7. /\ Told(w, t)
      /\ IF pos < n THEN Ready(Script(call)[pos + 1]) ELSE HoldHigh \/ (HoldLow /\ Free)
  <2>1. k.ctl.wr => ackOut = 0 /\ dr = k.byte
    BY <1>2
  <2> QED
    BY <1>1, <1>2, <1>3, <2>1, GoesOn DEF Command1
<1>8. got' = bytes /\ pos \in Nat
  BY <1>3, <1>4 DEF Advance
<1>9. Pulse' /\ IsCall(call)' /\ Sized'
  BY <1>1, <1>2, <1>5, <1>6 DEF Pulse, Sized, InScript
<1>10. Transfer(Command1, Wire(call), At(call, pos - 1))'
  BY <1>6 DEF Transfer
\* The bytes read now are the bytes heard at their places.
<1>11. /\ Len(bytes) = IF call.op = "read" /\ pos >= 3 THEN pos - 3 ELSE 0
       /\ \A i \in 1..Len(bytes) : 5 + i <= Len(heard) /\ bytes[i] = heard[5 + i]
  <2>1. /\ Len(got) = IF call.op = "read" /\ pos > 3 THEN pos - 4 ELSE 0
        /\ \A i \in 1..Len(got) : 5 + i <= Len(heard) /\ got[i] = heard[5 + i]
    BY <1>1, <1>2 DEF Gathered
  <2>2. CASE pc = "status"
    BY <1>2, <1>4, <1>8, <2>1, <2>2
  <2>3. CASE pc # "status"
    <3>1. ~k.ctl.wr /\ call.op = "read" /\ pos > 3 /\ b = pos + 1 /\ Place(k, b) = b
      BY <1>2, <1>4, <2>3 DEF Place
    <3>2. dout = heard[pos + 2] /\ Len(heard) >= pos + 2
      <4>1. dout = heard[Place(k, b) + 1]
        BY <1>2, <3>1 DEF Ended, Stopped, Given, ReadAll
      <4>2. Len(heard) = t
        BY <1>7 DEF Told
      <4> HIDE DEF b, t, k
      <4>3. t >= pos + 2 /\ Place(k, b) + 1 = pos + 2
        BY <1>3, <1>8, <3>1
      <4> QED
        BY <1>8, <4>1, <4>2, <4>3
    <3>3. /\ bytes = Append(got, dout) /\ got \in Seq(Byte) /\ dout \in Byte
      BY <2>3 DEF DrvTyped, BusTyped
    <3>4. /\ Len(bytes) = Len(got) + 1 /\ bytes[Len(got) + 1] = dout
          /\ \A i \in 1..Len(got) : bytes[i] = got[i]
      BY <3>3
    <3>5. Len(got) = pos - 4 /\ Len(bytes) = pos - 3
      BY <1>8, <2>1, <3>1, <3>4
    <3>6. ASSUME NEW i \in 1..Len(bytes) PROVE 5 + i <= Len(heard) /\ bytes[i] = heard[5 + i]
      <4>1. CASE i = Len(got) + 1
        <5>1. 5 + i = pos + 2
          BY <1>8, <3>5, <4>1
        <5> QED
          BY <3>2, <3>4, <4>1, <5>1
      <4>2. CASE i # Len(got) + 1
        <5>1. i \in 1..Len(got)
          BY <1>8, <3>5, <4>2
        <5> QED
          BY <2>1, <3>4, <5>1
      <4> QED
        BY <4>1, <4>2
    <3> QED
      BY <1>8, <3>1, <3>5, <3>6
  <2> QED
    BY <2>2, <2>3
<1>12. ASSUME pos < n PROVE Carry'
  <2> DEFINE l == Script(call)[pos + 1]
  <2>1. pc' = "wait" /\ pos' = pos + 1
    BY <1>12 DEF Advance
  <2>2. PICK x, y, z : x = l /\ y = w /\ z = t
    OBVIOUS
  <2>3. Told(y, z) /\ Ready(x) /\ AtRest /\ pc # "init"
    BY <1>1, <1>7, <1>12, <2>2
  <2>4. HoldHigh \/ HoldLow
    BY <2>3 DEF Ready
  <2>5. Told(y, z)' /\ Ready(x)'
    BY <2>3, <2>4, RestKeeps
  <2>6. Command1' = x /\ Wire(call)' = y /\ At(call, pos - 1)' = z
    <3>1. pos' - 1 = pos
      BY <1>8, <2>1
    <3>2. Command1' = Script(call)[pos']
      BY DEF Command1
    <3>3. At(call, pos - 1)' = At(call, pos)
      BY <3>1
    <3> QED
      BY <2>1, <2>2, <3>2, <3>3
  <2>7. Between(x, y, z)' /\ Transfer(x, y, z)' /\ Returned(y)'
    BY <1>6, <2>1, <2>5 DEF Between, Transfer, Returned, InScript
  <2>8. Gathered'
    <3>1. /\ Len(bytes) = IF call.op = "read" /\ pos + 1 > 3 THEN pos + 1 - 4 ELSE 0
      BY <1>8, <1>11
    <3> QED
      BY <1>5, <1>8, <1>11, <2>1, <3>1 DEF Gathered
  <2>9. CommandInv(Command1, Wire(call), At(call, pos - 1))'
    <3>1. CommandInv(x, y, z)'
      BY <2>7, <2>8 DEF CommandInv
    <3> QED
      BY <2>6, <3>1
  <2> QED
    BY <1>5, <1>9, <2>9 DEF Carry
<1>13. ASSUME ~(pos < n) PROVE Carry'
  <2>1. pc' = "idle" /\ pos' = pos /\ result' = "SUCCESS" /\ pos = n
    BY <1>3, <1>4, <1>8, <1>13 DEF Advance
  <2>2. PICK x, y, z : x = k /\ y = w /\ z = b
    OBVIOUS
  <2>3. t = Len(w)
    BY <1>4, <2>1
  <2>4. Told(y, Len(y)) /\ (HoldHigh \/ (HoldLow /\ Free)) /\ AtRest /\ pc # "init"
    BY <1>1, <1>7, <1>13, <2>2, <2>3
  <2>5. Told(y, Len(y))' /\ (HoldHigh \/ (HoldLow /\ Free))'
    BY <2>4, RestKeeps
  <2>6. Between(x, y, z)' /\ Transfer(x, y, z)' /\ Gathered'
    BY <1>6, <2>1, <2>5 DEF Between, Transfer, Gathered, InScript
  <2>7. Len(bytes) = ReadSize(call)
    BY <1>4, <1>8, <1>11, <2>1
  <2>8. ASSUME NEW i \in 1..Len(bytes) PROVE bytes[i] = heard[Len(heard) - 1 - Len(bytes) + i]
    <3>1. call.op = "read"
      BY <1>11
    <3>2. Len(w) = n + 2 + (IF Stops(call) THEN 1 ELSE 0) /\ n \in Nat
      <4>1. Len(w) = n + 1 + (IF call.op = "read" THEN 1 ELSE 0) + (IF Stops(call) THEN 1 ELSE 0) /\ n \in Nat
        BY <1>1, <1>2, ReadPosition
      <4> HIDE DEF n, w
      <4> QED
        BY <3>1, <4>1
    <3>3. Len(heard) = n + 3
      <4>1. Stops(call) /\ Len(heard) = Len(w)
        BY <2>2, <2>4, <3>1 DEF Stops, Told
      <4> HIDE DEF n, w
      <4> QED
        BY <3>2, <4>1
    <3>4. Len(bytes) = n - 3
      BY <1>8, <1>11, <2>1, <3>1
    <3> HIDE DEF n
    <3>a. i \in Nat
      OBVIOUS
    <3>5. Len(heard) - 1 - Len(bytes) + i = 5 + i
      BY ONLY <3>2, <3>3, <3>4, <3>a, n \in Nat
    <3> QED
      BY <1>11, <3>5
  <2>9. Returned(y)'
    BY <1>5, <1>8, <2>1, <2>5, <2>7, <2>8 DEF Returned
  <2>10. CommandInv(x, y, z)'
    BY <2>6, <2>9 DEF CommandInv
  <2> QED
    BY <1>1, <1>5, <1>9, <2>1, <2>2, <2>10, StaysAt
<1> QED
  BY <1>12, <1>13

\* The acknowledge: on with the call, or to the error path.
LEMMA AckCarry ==
  ASSUME ClkCnt >= 1, BusTyped, DrvTyped, Carry, CheckAck, ~Tip
  PROVE  Carry'
<1>1. PICK k, w, b : k = Command1 /\ w = Wire(call) /\ b = At(call, pos - 1)
  OBVIOUS
<1>2. CommandInv(k, w, b) /\ IsCall(call) /\ Sized /\ Pulse
  BY <1>1 DEF Carry
<1>3. pc = "status" /\ Clock(Read("SR")) /\ call' = call /\ calls' = calls
  BY DEF CheckAck
<1>4. CASE ackOut = 0
  <2>1. Advance(got) /\ got \in Seq(Byte)
    BY <1>4 DEF CheckAck, DrvTyped
  <2> QED
    BY <1>3, <1>4, <2>1, AdvanceCarry, AccessKinds
<1>5. CASE ackOut # 0
  <2>1. pc' = "error" /\ UNCHANGED <<pos, got, result, word>>
    BY <1>5 DEF CheckAck
  <2>2. /\ RegIdle(Read("SR")) /\ ackOut' = ackOut /\ heard' = heard /\ HeardTyped' /\ AtRest'
        /\ sclk' => clkCtr' = 0
    BY <1>3, Still
  <2>3. dr' = dr /\ clkdiv' = clkdiv /\ ~Tip'
    BY <2>2, NoWrite, AccessKinds
  <2>4. Ended(k, w, b)'
    BY <1>1, <1>3, <2>3, StillLines
  <2>5. Between(k, w, b)'
    BY <1>2, <1>3, <1>5, <2>1, <2>2, <2>3, <2>4 DEF Between, CommandInv
  <2>6. Gathered' /\ Returned(w)'
    <3>1. InScript /\ InScript'
      BY <1>3, <2>1 DEF InScript
    <3> QED
      BY <1>2, <1>3, <2>1, <2>2, <3>1, StillGathers DEF CommandInv
  <2>7. CommandInv(k, w, b)' /\ Pulse'
    BY <1>2, <1>3, <2>1, <2>2, <2>3, <2>5, <2>6 DEF CommandInv, Transfer, Pulse
  <2> QED
    BY <1>1, <1>2, <1>3, <2>1, <2>2, <2>7, StaysAt
<1> QED
  BY <1>4, <1>5

\* The byte read is taken and the call goes on.
LEMMA FetchCarry ==
  ASSUME ClkCnt >= 1, BusTyped, DrvTyped, Carry, FetchByte, ~Tip
  PROVE  Carry'
<1>1. /\ pc = "fetch" /\ Clock(Read("DR")) /\ call' = call /\ calls' = calls
      /\ Advance(Append(got, dout)) /\ Append(got, dout) \in Seq(Byte)
  BY DEF FetchByte, DrvTyped, BusTyped
<1> QED
  BY <1>1, AdvanceCarry, AccessKinds

\* The next call of the program is one, its reads of one byte or more.
LEMMA NextCall ==
  ASSUME DrvTyped, Sized, Call
  PROVE  /\ IsCall(call') /\ Sized'
         /\ pc' = IF call'.op = "configure" THEN "configure" ELSE "wait"
<1> DEFINE c == Head(calls)
<1>1. /\ pc = "idle" /\ calls # <<>>
      /\ call' = IF c.op = "write" /\ c.data = "word|1"
                 THEN [c EXCEPT !.data = <<word[1], ToRead(word[2])>>] ELSE c
      /\ pc' = IF c.op = "configure" THEN "configure" ELSE "wait"
      /\ calls' = Tail(calls)
  BY DEF Call
<1>2. c \in Calls /\ c = calls[1] /\ 1 \in 1..Len(calls)
  BY <1>1 DEF DrvTyped
<1>3. c.op = "read" => c.size \in Nat \ {0}
  BY <1>2 DEF Sized
<1>4. Sized'
  <2>1. calls \in Seq(Calls) /\ calls # <<>>
    BY <1>1 DEF DrvTyped
  <2>2. ASSUME NEW i \in 1..Len(Tail(calls)) PROVE Tail(calls)[i] = calls[i + 1] /\ i + 1 \in 1..Len(calls)
    BY <2>1
  <2> QED
    BY <1>1, <2>2 DEF Sized
<1> HIDE DEF c
<1>5. CASE c.op = "write" /\ c.data = "word|1"
  <2>1. c.device \in Byte /\ c.index \in Byte
        /\ c \in [op : {"write"}, device : Byte, index : Byte, data : {"word|1"} \cup Seq(Byte)]
    BY <1>2, <1>5 DEF Calls
  <2>2. <<word[1], ToRead(word[2])>> \in Seq(Byte)
    <3>1. word[1] \in Byte /\ ToRead(word[2]) \in Byte
      BY DirectionByte DEF DrvTyped
    <3> QED
      BY <3>1
  <2>3. call' = [c EXCEPT !.data = <<word[1], ToRead(word[2])>>]
    BY <1>1, <1>5
  <2>4. /\ call'.op = c.op /\ call'.device = c.device /\ call'.index = c.index
        /\ call'.data = <<word[1], ToRead(word[2])>>
    BY <2>1, <2>3
  <2> QED
    BY <1>1, <1>4, <1>5, <2>1, <2>2, <2>4 DEF IsCall
<1>6. CASE ~(c.op = "write" /\ c.data = "word|1")
  <2>1. call' = c
    BY <1>1, <1>6
  <2>2. \/ c \in [op : {"write"}, device : Byte, index : Byte, data : {"word|1"} \cup Seq(Byte)]
        \/ c \in [op : {"read"}, device : Byte, index : Byte, size : Nat]
        \/ c \in [op : {"configure"}, irq : BOOLEAN]
    BY <1>2 DEF Calls
  <2>3. IsCall(c)
    BY <1>3, <1>6, <2>2 DEF IsCall
  <2> QED
    BY <1>1, <1>4, <2>1, <2>3
<1> QED
  BY <1>5, <1>6

\* A call begins on a bus at rest, and nothing is heard of it yet.
LEMMA CallCarry ==
  ASSUME ClkCnt >= 1, BusTyped, DrvTyped, DrvTyped', Carry, Call, ~Tip
  PROVE  Carry'
<1>1. /\ HeardTyped /\ Pulse /\ AtRest /\ Sized
      /\ HoldHigh \/ (HoldLow /\ Free)
      /\ pc = "idle"
  <2>1. PICK k, w, b : k = Command1 /\ w = Wire(call) /\ b = At(call, pos - 1)
    OBVIOUS
  <2>2. HeardTyped /\ Pulse /\ AtRest /\ Sized /\ Between(k, w, b)
    BY <2>1 DEF Carry, CommandInv
  <2> QED
    BY <2>2 DEF Between, Call
<1>2. /\ pos' = 1 /\ got' = <<>> /\ result' = "none" /\ heard' = <<>>
      /\ UNCHANGED <<coreVars, clkCtr, sclk, regVars, dev, seen, word>>
  BY DEF Call
<1>3. /\ IsCall(call)' /\ Sized'
      /\ pc' = IF call'.op = "configure" THEN "configure" ELSE "wait"
  BY <1>1, NextCall
<1>4. HeardTyped' /\ Pulse' /\ AtRest' /\ ~Tip'
  <2>1. HeardTyped'
    BY <1>2 DEF HeardTyped
  <2>2. Pulse' /\ ~Tip'
    BY <1>1, <1>2 DEF Pulse, regVars, Tip
  <2>3. AtRest'
    BY <1>1, <1>2 DEF AtRest, coreVars, regVars, Tip
  <2> QED
    BY <2>1, <2>2, <2>3
<1>5. HoldHigh' \/ (HoldLow' /\ Free')
  BY <1>1, <1>2 DEF HoldHigh, HoldLow, Free, Away, Listening, coreVars
<1>6. PICK x, y, z : x = Command1' /\ y = Wire(call)' /\ z = At(call, pos - 1)'
  OBVIOUS
<1>7. z = 0
  BY <1>2, <1>6 DEF At
<1>8. Told(y, z)'
  BY <1>2, <1>7 DEF Told
<1>9. pc' = "wait" => Ready(x)'
  <2> SUFFICES ASSUME pc' = "wait" PROVE Ready(x)'
    OBVIOUS
  <2> DEFINE c == call'
             n == Len(Script(c))
  <2>1. IsCall(c) /\ c.op # "configure" /\ x = Script(c)[1]
    BY <1>2, <1>3, <1>6 DEF Command1
  <2>2. 1 \in 1..n
    BY <1>2 DEF DrvTyped, InScript
  <2> HIDE DEF c
  <2>3. x.ctl.sta
    <3>1. CASE c.op = "write"
      <4>1. WriteCommand(x, 1, n)
        BY <2>1, <2>2, <3>1, WriteScript DEF IsCall
      <4> QED
        BY <4>1 DEF WriteCommand
    <3>2. CASE c.op = "read"
      <4>1. ReadCommand(x, 1, n)
        BY <2>1, <2>2, <3>2, ReadScript DEF IsCall
      <4> QED
        BY <4>1 DEF ReadCommand
    <3> QED
      BY <2>1, <3>1, <3>2 DEF IsCall
  <2> QED
    BY <1>5, <2>3 DEF Ready
<1>10. Between(x, y, z)' /\ Transfer(x, y, z)' /\ Gathered' /\ Returned(y)'
  BY <1>2, <1>3, <1>4, <1>5, <1>8, <1>9 DEF Between, Transfer, Gathered, Returned, InScript
<1>11. CommandInv(Command1, Wire(call), At(call, pos - 1))'
  <2>1. CommandInv(x, y, z)'
    BY <1>10 DEF CommandInv
  <2> QED
    BY <1>6, <2>1
<1> QED
  BY <1>3, <1>4, <1>11 DEF Carry

\* After reset nothing was heard and the bus is free.
LEMMA CarryInit == ASSUME Init PROVE Carry
<1>1. ~Tip
  BY NoTransfer DEF Init, BusInit, Tip
<1>2. HoldHigh /\ st = "Reset" /\ pc = "init" /\ call.op = "configure"
  BY DEF Init, BusInit, HoldHigh, Away, Off
<1>3. heard = <<>> /\ result = "none"
  BY DEF Init, BusInit
<1>4. HeardTyped /\ Pulse /\ AtRest /\ IsCall(call)
  BY <1>1, <1>2, <1>3 DEF HeardTyped, Pulse, AtRest, IsCall, Init, BusInit
<1>5. Sized
  <2>1. calls \in Programs /\ calls \in Seq(Calls)
    BY ProgramsAssumption DEF Init
  <2>2. ASSUME NEW i \in 1..Len(calls), calls[i].op = "read" PROVE calls[i].size \in Nat \ {0}
    <3> DEFINE c == calls[i]
    <3>1. c \in Calls /\ c.op = "read" /\ c.size >= 1
      BY <2>1, <2>2, UseAssumption
    <3> HIDE DEF c
    <3>2. c \in [op : {"read"}, device : Byte, index : Byte, size : Nat]
      BY <3>1 DEF Calls
    <3>3. c.size \in Nat
      BY <3>2
    <3> QED
      BY <3>1, <3>3 DEF c
  <2> QED
    BY <2>2 DEF Sized
<1>6. CommandInv(Command1, Wire(call), At(call, pos - 1))
  BY <1>1, <1>2, <1>3 DEF CommandInv, Transfer, Between, Gathered, Returned, InScript
<1> QED
  BY <1>4, <1>5, <1>6 DEF Carry

\* During a transfer the driver does nothing but look at the status register.
LEMMA OnlyPolls ==
  ASSUME Carry, Tip, Next
  PROVE  UNCHANGED drvVars /\ \E a : Clock(a)
<1>1. pc = "finish"
  BY DEF Carry, CommandInv, Transfer
<1>2. Tick \/ WaitEndOfTransfer
  BY <1>1 DEF Next, Driver, I2cInit, Call, WriteData, WriteControl, CheckAck, GiveUp, FetchByte,
     ConfigureStop, ConfigureIrq
<1>3. CASE Tick
  BY <1>3 DEF Tick
<1>4. CASE WaitEndOfTransfer
  BY <1>1, <1>4 DEF WaitEndOfTransfer, PollDone, drvVars
<1> QED
  BY <1>2, <1>3, <1>4

\* Nothing of it changes with the variables it is about.
LEMMA SameCommand ==
  ASSUME UNCHANGED <<st, ctr, dout, ackOut, sclOut, sdaOut, sclIn, sdaIn, sclk, dr, cr, dev, seen, heard>>,
         NEW k, NEW w, NEW b
  PROVE  /\ Engine(k, w, b)' <=> Engine(k, w, b)
         /\ Ended(k, w, b)' <=> Ended(k, w, b)
         /\ Ready(k)' <=> Ready(k)
         /\ \A n : /\ Told(w, n)' <=> Told(w, n)
                   /\ Refused(w, n)' <=> Refused(w, n)
                   /\ RefusedEnd(w, n)' <=> RefusedEnd(w, n)
<1>1. /\ st' = st /\ ctr' = ctr /\ dout' = dout /\ ackOut' = ackOut /\ sclOut' = sclOut
      /\ sdaOut' = sdaOut /\ sclIn' = sclIn /\ sdaIn' = sdaIn /\ sclk' = sclk /\ dr' = dr
      /\ cr' = cr /\ dev' = dev /\ seen' = seen /\ heard' = heard
  OBVIOUS
<1>2. /\ Low' <=> Low /\ (Fall' <=> Fall)
      /\ (Away' <=> Away) /\ (Listening' <=> Listening) /\ (Free' <=> Free) /\ (Loose' <=> Loose)
      /\ (HoldLow' <=> HoldLow) /\ (HoldHigh' <=> HoldHigh)
  BY <1>1 DEF Low, Fall, Away, Listening, Free, Loose, HoldLow, HoldHigh
<1>3. \A n : /\ Told(w, n)' <=> Told(w, n)
             /\ Refused(w, n)' <=> Refused(w, n)
             /\ RefusedEnd(w, n)' <=> RefusedEnd(w, n)
             /\ Sending(n)' <=> Sending(n)
             /\ Copied(n)' <=> Copied(n)
             /\ \A first : Taking(n, first)' <=> Taking(n, first)
  BY <1>1 DEF Told, Refused, RefusedEnd, Sending, Copied, Taking
<1>4. /\ (Took(k, w, b)' <=> Took(k, w, b)) /\ (Answered(k, w, b)' <=> Answered(k, w, b))
      /\ (Settled(k, w, b)' <=> Settled(k, w, b)) /\ (ReadAll(k, w, b)' <=> ReadAll(k, w, b))
  BY <1>1, <1>2, <1>3 DEF Took, Answered, Settled, ReadAll, ToSend
<1>5. /\ (Given(k, w, b)' <=> Given(k, w, b)) /\ (Outcome(k, w, b)' <=> Outcome(k, w, b))
      /\ (Stopped(k, w, b)' <=> Stopped(k, w, b)) /\ (Waiting(k, w, b)' <=> Waiting(k, w, b))
      /\ (Acked(k, w, b)' <=> Acked(k, w, b))
      /\ \A n : Fetching(k, w, b, n)' <=> Fetching(k, w, b, n)
  BY <1>1, <1>2, <1>3, <1>4 DEF Given, Outcome, Stopped, Waiting, Acked, Fetching, AckBit
<1>6. (Ended(k, w, b)' <=> Ended(k, w, b)) /\ (Ready(k)' <=> Ready(k))
  BY <1>1, <1>2, <1>3, <1>4, <1>5 DEF Ended, Ready
<1>a. /\ Told(w, b)' <=> Told(w, b)
      /\ Told(w, b + 1)' <=> Told(w, b + 1)
      /\ Told(w, Place(k, b))' <=> Told(w, Place(k, b))
  BY <1>3
<1>7. Starting(k, w, b)' <=> Starting(k, w, b)
  <2>1. InStartA(k, w, b)' <=> InStartA(k, w, b)
    BY <1>1, <1>a DEF InStartA, Low, Fall, Rise, High, Free, Away, Listening, Loose, Taking, HoldHigh, HoldLow
  <2>2. InStartB(k, w, b)' <=> InStartB(k, w, b)
    BY <1>1, <1>a DEF InStartB, Low, Fall, Rise, High, Free, Away, Listening, Loose, Taking, HoldHigh, HoldLow
  <2>3. InStartC(k, w, b)' <=> InStartC(k, w, b)
    BY <1>1, <1>a DEF InStartC, Low, Fall, Rise, High, Free, Away, Listening, Loose, Taking, HoldHigh, HoldLow
  <2>4. InStartD(k, w, b)' <=> InStartD(k, w, b)
    BY <1>1, <1>a DEF InStartD, Low, Fall, Rise, High, Free, Away, Listening, Loose, Taking, HoldHigh, HoldLow
  <2> QED
    BY <1>1, <2>1, <2>2, <2>3, <2>4 DEF Starting
<1>8. Writing(k, w, b)' <=> Writing(k, w, b)
  <2>1. InWrA(k, w, b)' <=> InWrA(k, w, b)
    BY <1>1, <1>a, <1>4 DEF InWrA, Low, Fall, Rise, High, Free, Away, Listening, Loose, Taking
  <2>2. InWrB(k, w, b)' <=> InWrB(k, w, b)
    BY <1>1, <1>a, <1>4 DEF InWrB, Low, Fall, Rise, High, Free, Away, Listening, Loose, Taking
  <2>3. InWrC(k, w, b)' <=> InWrC(k, w, b)
    BY <1>1, <1>a, <1>4 DEF InWrC, Low, Fall, Rise, High, Free, Away, Listening, Loose, Taking
  <2>4. InWrD(k, w, b)' <=> InWrD(k, w, b)
    BY <1>1, <1>a, <1>4 DEF InWrD, Low, Fall, Rise, High, Free, Away, Listening, Loose, Taking
  <2>5. InWrE(k, w, b)' <=> InWrE(k, w, b)
    BY <1>1, <1>a, <1>4 DEF InWrE, Low, Fall, Rise, High, Free, Away, Listening, Loose, Taking
  <2>6. InRdAckA(k, w, b)' <=> InRdAckA(k, w, b)
    BY <1>1, <1>a, <1>4 DEF InRdAckA, Low, Fall, Rise, High, Free, Away, Listening, Loose, Taking
  <2>7. InRdAckB(k, w, b)' <=> InRdAckB(k, w, b)
    BY <1>1, <1>a, <1>4 DEF InRdAckB, Low, Fall, Rise, High, Free, Away, Listening, Loose, Taking
  <2>8. InRdAckC(k, w, b)' <=> InRdAckC(k, w, b)
    BY <1>1, <1>a, <1>4 DEF InRdAckC, Low, Fall, Rise, High, Free, Away, Listening, Loose, Taking
  <2>9. InRdAckD(k, w, b)' <=> InRdAckD(k, w, b)
    BY <1>1, <1>a, <1>4 DEF InRdAckD, Low, Fall, Rise, High, Free, Away, Listening, Loose, Taking
  <2>10. InRdAckE(k, w, b)' <=> InRdAckE(k, w, b)
    BY <1>1, <1>a, <1>4 DEF InRdAckE, Low, Fall, Rise, High, Free, Away, Listening, Loose, Taking
  <2> QED
    BY <1>1, <2>1, <2>2, <2>3, <2>4, <2>5, <2>6, <2>7, <2>8, <2>9, <2>10 DEF Writing
<1>9. Reading(k, w, b)' <=> Reading(k, w, b)
  <2>1. InRdA(k, w, b)' <=> InRdA(k, w, b)
    BY <1>1, <1>a, <1>4, <1>5 DEF InRdA, Low, Fall, Rise, High, Free, Away, Listening, Loose, AckBit, Sending, Copied, Fetching
  <2>2. InRdB(k, w, b)' <=> InRdB(k, w, b)
    BY <1>1, <1>a, <1>4, <1>5 DEF InRdB, Low, Fall, Rise, High, Free, Away, Listening, Loose, AckBit, Sending, Copied, Fetching
  <2>3. InRdC(k, w, b)' <=> InRdC(k, w, b)
    BY <1>1, <1>a, <1>4, <1>5 DEF InRdC, Low, Fall, Rise, High, Free, Away, Listening, Loose, AckBit, Sending, Copied, Fetching
  <2>4. InRdD(k, w, b)' <=> InRdD(k, w, b)
    BY <1>1, <1>a, <1>4, <1>5 DEF InRdD, Low, Fall, Rise, High, Free, Away, Listening, Loose, AckBit, Sending, Copied, Fetching
  <2>5. InRdE(k, w, b)' <=> InRdE(k, w, b)
    BY <1>1, <1>a, <1>4, <1>5 DEF InRdE, Low, Fall, Rise, High, Free, Away, Listening, Loose, AckBit, Sending, Copied, Fetching
  <2>6. InRdF(k, w, b)' <=> InRdF(k, w, b)
    BY <1>1, <1>a, <1>4, <1>5 DEF InRdF, Low, Fall, Rise, High, Free, Away, Listening, Loose, AckBit, Sending, Copied, Fetching
  <2>7. InWrAckA(k, w, b)' <=> InWrAckA(k, w, b)
    BY <1>1, <1>a, <1>4, <1>5 DEF InWrAckA, Low, Fall, Rise, High, Free, Away, Listening, Loose, AckBit, Sending, Copied, Fetching
  <2>8. InWrAckB(k, w, b)' <=> InWrAckB(k, w, b)
    BY <1>1, <1>a, <1>4, <1>5 DEF InWrAckB, Low, Fall, Rise, High, Free, Away, Listening, Loose, AckBit, Sending, Copied, Fetching
  <2>9. InWrAckC(k, w, b)' <=> InWrAckC(k, w, b)
    BY <1>1, <1>a, <1>4, <1>5 DEF InWrAckC, Low, Fall, Rise, High, Free, Away, Listening, Loose, AckBit, Sending, Copied, Fetching
  <2>10. InWrAckD(k, w, b)' <=> InWrAckD(k, w, b)
    BY <1>1, <1>a, <1>4, <1>5 DEF InWrAckD, Low, Fall, Rise, High, Free, Away, Listening, Loose, AckBit, Sending, Copied, Fetching
  <2> QED
    BY <1>1, <2>1, <2>2, <2>3, <2>4, <2>5, <2>6, <2>7, <2>8, <2>9, <2>10 DEF Reading
<1>10. Stopping(k, w, b)' <=> Stopping(k, w, b)
  <2>1. InStopA(k, w, b)' <=> InStopA(k, w, b)
    BY <1>1, <1>5 DEF InStopA, Low, Fall, Rise, High, Free, Away, Listening, Loose
  <2>2. InStopB(k, w, b)' <=> InStopB(k, w, b)
    BY <1>1, <1>5 DEF InStopB, Low, Fall, Rise, High, Free, Away, Listening, Loose
  <2>3. InStopC(k, w, b)' <=> InStopC(k, w, b)
    BY <1>1, <1>5 DEF InStopC, Low, Fall, Rise, High, Free, Away, Listening, Loose
  <2> QED
    BY <1>1, <2>1, <2>2, <2>3 DEF Stopping
<1>11. Engine(k, w, b)' <=> Engine(k, w, b)
  BY <1>1, <1>3, <1>6, <1>7, <1>8, <1>9, <1>10 DEF Engine, Underway
<1> QED
  BY <1>3, <1>6, <1>11

\* Each step of the system carries the call on.
LEMMA CarryStep ==
  ASSUME BusTyped, DrvTyped, Carry, [Next]_vars
  PROVE  Carry'
<1>1. ClkCnt >= 1 /\ BusTyped' /\ DrvTyped'
  BY DrvStep, UseAssumption
<1>2. CASE Next /\ Tip
  BY <1>1, <1>2, OnlyPolls, Busy
<1>3. CASE Tick /\ ~Tip
  BY <1>1, <1>3, TickCarry
<1>4. CASE WaitEndOfTransfer /\ ~Tip
  BY <1>1, <1>4, WaitCarry
<1>5. CASE WriteData /\ ~Tip
  BY <1>1, <1>5, DataCarry
<1>6. CASE WriteControl /\ ~Tip
  BY <1>1, <1>6, ControlCarry
<1>7. CASE CheckAck /\ ~Tip
  BY <1>1, <1>7, AckCarry
<1>8. CASE FetchByte /\ ~Tip
  BY <1>1, <1>8, FetchCarry
<1>9. CASE GiveUp /\ ~Tip
  BY <1>1, <1>9, GiveUpCarry
<1>10. CASE (I2cInit \/ ConfigureStop \/ ConfigureIrq) /\ ~Tip
  BY <1>1, <1>10, IdleWriteCarry
<1>11. CASE Call /\ ~Tip
  BY <1>1, <1>11, CallCarry
<1>12. CASE UNCHANGED vars
  <2>1. /\ Command1' = Command1 /\ Wire(call)' = Wire(call)
        /\ At(call, pos - 1)' = At(call, pos - 1)
    BY <1>12 DEF Command1, vars, drvVars
  <2>2. PICK k, w, b : k = Command1 /\ w = Wire(call) /\ b = At(call, pos - 1)
    OBVIOUS
  <2>3. CommandInv(k, w, b) /\ HeardTyped /\ Pulse /\ AtRest /\ IsCall(call) /\ Sized
    BY <2>2 DEF Carry
  <2>4. /\ UNCHANGED <<st, ctr, dout, ackOut, cmdDone, sclOut, sdaOut, sclIn, sdaIn, clkCtr, sclk>>
        /\ UNCHANGED <<clkdiv, dr, cr, ipe, cmdDoneAck, dev, seen, heard>>
        /\ UNCHANGED <<calls, call, pos, pc, result, got, word>>
    BY <1>12 DEF vars, busVars, coreVars, regVars, drvVars
  <2>5. HeardTyped' /\ Pulse' /\ AtRest'
    BY <2>3, <2>4 DEF HeardTyped, Pulse, AtRest, Tip
  <2>6. CommandInv(k, w, b)'
    <3>1. Tip' <=> Tip
      BY <2>4 DEF Tip
    <3>2. /\ Engine(k, w, b)' <=> Engine(k, w, b)
          /\ Ended(k, w, b)' <=> Ended(k, w, b)
          /\ Ready(k)' <=> Ready(k)
          /\ Told(w, b)' <=> Told(w, b)
      BY <2>4, SameCommand
    <3>3. (HoldHigh' <=> HoldHigh) /\ (HoldLow' <=> HoldLow) /\ (Free' <=> Free)
      BY <2>4 DEF HoldHigh, HoldLow, Free, Away, Listening
    <3>4. Transfer(k, w, b)' /\ Between(k, w, b)'
      BY <2>3, <2>4, <3>1, <3>2, <3>3 DEF CommandInv, Transfer, Between
    <3>5. InScript' <=> InScript
      BY <2>4 DEF InScript
    <3>6. Gathered' /\ Returned(w)'
      BY <2>3, <2>4, <3>5, StillGathers DEF CommandInv
    <3> QED
      BY <3>4, <3>6 DEF CommandInv
  <2> QED
    BY <2>2, <2>3, <2>4, <2>5, <2>6, StaysAt
<1> QED
  BY <1>2, <1>3, <1>4, <1>5, <1>6, <1>7, <1>8, <1>9, <1>10, <1>11, <1>12 DEF Next, Driver

\* The inductive invariant of the whole: types, and the bus carries the call.
LEMMA CarryInvariant == Spec => [](BusTyped /\ DrvTyped /\ Carry)
<1> DEFINE I == BusTyped /\ DrvTyped /\ Carry
<1>1. Init => I
  BY DrvInit, CarryInit
<1>2. I /\ [Next]_vars => I'
  BY DrvStep, CarryStep
<1> HIDE DEF I
<1>3. Spec => []I
  BY <1>1, <1>2, PTL DEF Spec
<1> QED
  BY <1>3, PTL DEF I

\* For every program of calls, every device and every divisor i2c_init may set:
\* the bus carries the bytes of the call in order and nothing else, each byte,
\* START and STOP once, until a byte is not acknowledged (i2c.c, i2c_core.vhd).
THEOREM BusRight == Spec => []BusCarriesCall
<1>1. ASSUME DrvTyped, Carry PROVE BusCarriesCall
  <2>1. PICK k, w, b : k = Command1 /\ w = Wire(call) /\ b = At(call, pos - 1)
    OBVIOUS
  <2>2. CommandInv(k, w, b) /\ HeardTyped /\ IsCall(call)
    BY <1>1, <2>1 DEF Carry
  <2>3. w \in Seq(Message) /\ Len(w) \in Nat
    BY <2>1, <2>2, CallPlaced DEF Placed
  <2>4. Sofar(w) \/ heard = <<>>
    <3>1. CASE InScript
      <4>1. Fits(k, w, b) /\ b <= Len(w) /\ b \in Nat
        BY <1>1, <2>1, <2>2, <3>1, Current
      <4>2. CASE Tip
        BY <2>2, <4>1, <4>2, EngineSofar DEF CommandInv, Transfer
      <4>3. CASE ~Tip
        <5>1. Told(w, b) \/ Ended(k, w, b)
          BY <2>2, <3>1, <4>3 DEF CommandInv, Between, InScript
        <5> QED
          BY <4>1, <5>1, SofarAt, EndedSofar
      <4> QED
        BY <4>2, <4>3
    <3>2. CASE ~InScript
      <4>1. /\ result = "SUCCESS" => Told(w, Len(w))
            /\ result \in {"ENODEV", "EBADACK"} => \E n \in 0..Len(w) : Refused(w, n) \/ RefusedEnd(w, n)
            /\ result = "none" => heard = <<>>
        BY <2>2, <3>2 DEF CommandInv, Returned
      <4>2. Len(w) \in 0..Len(w)
        BY <2>3
      <4>3. result \in {"none", "SUCCESS", "ENODEV", "EBADACK"}
        BY <1>1 DEF DrvTyped, Errors
      <4> QED
        BY <4>1, <4>2, <4>3 DEF Sofar
    <3> QED
      BY <3>1, <3>2
  <2>5. CASE Sofar(w)
    BY <2>1, <2>2, <2>3, <2>5, SofarCarries DEF BusCarriesCall
  <2>6. CASE heard = <<>>
    BY <2>6 DEF BusCarriesCall
  <2> QED
    BY <2>4, <2>5, <2>6
<1>2. BusTyped /\ DrvTyped /\ Carry => BusCarriesCall
  BY <1>1
<1> QED
  BY <1>2, CarryInvariant, PTL

\* I2C_SUCCESS is returned only after the whole message was carried down to its
\* STOP, with the bytes the device sent; an error only after a refusal.
THEOREM ResultRight == Spec => []ResultTruthful
<1>1. ASSUME DrvTyped, Carry PROVE ResultTruthful
  <2> SUFFICES ASSUME pc = "idle"
               PROVE  /\ result = "SUCCESS" =>
                           /\ Len(heard) = Len(Wire(call)) /\ NACK \notin {heard[i] : i \in 1..Len(heard)}
                           /\ Len(got) = ReadSize(call)
                           /\ \A i \in 1..Len(got) : got[i] = heard[Len(heard) - 1 - Len(got) + i]
                      /\ result \in {"ENODEV", "EBADACK"} => NACK \in {heard[i] : i \in 1..Len(heard)}
    BY DEF ResultTruthful
  <2>1. PICK w : w = Wire(call) /\ Returned(w)
    BY <1>1 DEF Carry, CommandInv
  <2>2. HeardTyped /\ w \in Seq(Message) /\ Len(w) \in Nat /\ Len(heard) \in Nat
    BY <1>1, <2>1, CallPlaced DEF Placed, Carry, HeardTyped
  <2>3. ~InScript
    BY DEF InScript
  <2>4. ASSUME result = "SUCCESS"
        PROVE  /\ Len(heard) = Len(w) /\ NACK \notin {heard[i] : i \in 1..Len(heard)}
               /\ Len(got) = ReadSize(call)
               /\ \A i \in 1..Len(got) : got[i] = heard[Len(heard) - 1 - Len(got) + i]
    <3>1. /\ Told(w, Len(w)) /\ Len(got) = ReadSize(call)
          /\ \A i \in 1..Len(got) : got[i] = heard[Len(heard) - 1 - Len(got) + i]
      BY <2>1, <2>3, <2>4 DEF Returned
    <3>2. Len(heard) = Len(w) /\ \A i \in 1..Len(w) : Carried(heard[i], w[i])
      BY <3>1 DEF Told
    <3>3. ASSUME NEW i \in 1..Len(heard) PROVE heard[i] # NACK
      <4>1. w[i] \in Message /\ Carried(heard[i], w[i])
        BY <2>2, <3>2
      <4> QED
        BY <4>1, NackAlone DEF Carried, Message
    <3> QED
      BY <3>1, <3>2, <3>3
  <2>5. ASSUME result \in {"ENODEV", "EBADACK"} PROVE NACK \in {heard[i] : i \in 1..Len(heard)}
    <3>1. PICK n \in 0..Len(w) : Refused(w, n) \/ RefusedEnd(w, n)
      BY <2>1, <2>3, <2>5 DEF Returned
    <3>2. heard[n + 1] = NACK /\ n + 1 \in 1..Len(heard)
      BY <2>2, <3>1 DEF Refused, RefusedEnd
    <3> QED
      BY <3>2
  <2> QED
    BY <2>1, <2>4, <2>5
<1>2. BusTyped /\ DrvTyped /\ Carry => ResultTruthful
  BY <1>1
<1> QED
  BY <1>2, CarryInvariant, PTL
=============================================================================
