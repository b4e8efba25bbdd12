------------------------------ MODULE VgaMaster ------------------------------
(***************************************************************************)
(* Master_component.vhd: the Avalon burst reader of the VGA controller.    *)
(* MasterClock is one rising edge of clk_50; its parameters are the input  *)
(* signals sampled on that edge.                                           *)
(***************************************************************************)
EXTENDS Naturals

CONSTANTS
  BurstSize,    \* words of a read burst (32)
  AddrInc,      \* bytes of a word (4)
  AddrSpace     \* addresses wrap at this value (2^32)

ASSUME MasterAssumption ==
  /\ BurstSize \in Nat \ {0, 1}
  /\ AddrInc \in Nat \ {0}
  /\ AddrSpace \in Nat \ {0}

VARIABLES
  state,        \* state_reg
  addr,         \* current_address_reg
  counter       \* counter_reg: words of the burst that came back

masterVars == <<state, addr, counter>>

MasterStates ==
  {"INIT", "INITREAD1", "INITREAD2", "RUN", "RUNREAD1", "RUNREAD2"}

CounterSpace == 2 * BurstSize      \* counter_reg has 6 bits: it wraps at 64

Started(com) == com % 2 = 1        \* DisplayCom(0)

Reading   == state \in {"INITREAD1", "RUNREAD1"}     \* read_burst
Receiving == state \in {"INITREAD2", "RUNREAD2"}     \* en_in = readdatavalid

MasterInit(fbAdd) == state = "INIT" /\ addr = fbAdd /\ counter = 0

StInit(com, fbAdd) ==
  /\ state = "INIT"
  /\ state' = IF Started(com) THEN "INITREAD1" ELSE "INIT"
  /\ addr' = fbAdd
  /\ counter' = 0

StInitRead1(com, waitreq) ==
  /\ state = "INITREAD1"
  /\ state' = IF ~Started(com) THEN "INIT"
              ELSE IF ~waitreq THEN "INITREAD2" ELSE state
  /\ UNCHANGED <<addr, counter>>

\* Fault: the counter has a seventh bit.
CountWordWide(valid) ==
  /\ counter' = IF valid THEN counter + 1 ELSE counter
  /\ addr' = IF valid THEN (addr + AddrInc) % AddrSpace ELSE addr

CountWord(valid) ==
  /\ counter' = IF valid THEN (counter + 1) % CounterSpace ELSE counter
  /\ addr' = IF valid THEN (addr + AddrInc) % AddrSpace ELSE addr

\* Fault: the initial fill is one burst.
StInitRead2OneBurst(com, valid) ==
  /\ state = "INITREAD2"
  /\ state' = IF ~Started(com) THEN "INIT"
              ELSE IF counter = BurstSize - 1 THEN "RUN" ELSE state
  /\ CountWord(valid)

(***************************************************************************)
(* The two bursts of the initial fill are told apart by the counter alone; *)
(* the test looks at the count before this edge and not at readdatavalid.  *)
(***************************************************************************)
StInitRead2(com, valid) ==
  /\ state = "INITREAD2"
  /\ state' = IF ~Started(com) THEN "INIT"
              ELSE IF counter = BurstSize - 1 THEN "INITREAD1"
              ELSE IF counter = 2 * BurstSize - 1 THEN "RUN" ELSE state
  /\ CountWord(valid)

\* Fault: the end of the frame is taken to be its last word.
StRunEarlyWrap(com, fbAdd, fbLen, half, empty) ==
  /\ state = "RUN"
  /\ state' = IF ~Started(com) \/ empty THEN "INIT"
              ELSE IF half THEN "RUNREAD1" ELSE state
  /\ counter' = 0
  /\ addr' = IF addr = fbAdd + fbLen * AddrInc - AddrInc THEN fbAdd ELSE addr

(***************************************************************************)
(* The end of the frame is compared without the wrap of the address.       *)
(***************************************************************************)
StRun(com, fbAdd, fbLen, half, empty) ==
  /\ state = "RUN"
  /\ state' = IF ~Started(com) \/ empty THEN "INIT"
              ELSE IF half THEN "RUNREAD1" ELSE state
  /\ counter' = 0
  /\ addr' = IF addr = fbAdd + fbLen * AddrInc THEN fbAdd ELSE addr

StRunRead1(com, empty, waitreq) ==
  /\ state = "RUNREAD1"
  /\ state' = IF ~Started(com) \/ empty THEN "INIT"
              ELSE IF ~waitreq THEN "RUNREAD2" ELSE state
  /\ counter' = 0
  /\ UNCHANGED addr

StRunRead2(com, empty, valid) ==
  /\ state = "RUNREAD2"
  /\ state' = IF ~Started(com) \/ empty THEN "INIT"
              ELSE IF counter = BurstSize - 1 THEN "RUN" ELSE state
  /\ CountWord(valid)

MasterClock(com, fbAdd, fbLen, half, empty, waitreq, valid) ==
  \/ StInit(com, fbAdd)
  \/ StInitRead1(com, waitreq)
  \/ StInitRead2(com, valid)
  \/ StRun(com, fbAdd, fbLen, half, empty)
  \/ StRunRead1(com, empty, waitreq)
  \/ StRunRead2(com, empty, valid)

MasterTypeOK ==
  /\ state \in MasterStates
  /\ addr \in Nat
  /\ counter \in 0 .. CounterSpace - 1
=============================================================================
