-------------------------------- MODULE CamFsm --------------------------------
(***************************************************************************)
(* camera_sampler_fsm.vhd: finds frames and pairs of rows in the camera    *)
(* signals.  FsmClock is one rising edge of pixclk; f, l and d are the     *)
(* synchronised frame_valid, line_valid and data sampled on that edge.     *)
(***************************************************************************)
EXTENDS Naturals

CONSTANTS
  RowSpace      \* the row pair counter wraps at this value (2^16)

ASSUME FsmAssumption == RowSpace \in Nat \ {0}

VARIABLES
  fsm,          \* state_reg
  rowPairs,     \* l_cnt_reg: pairs of rows begun in this frame
  err,          \* err_reg: a frame ended within a pair of rows
  pixel         \* reg_d

fsmVars == <<fsm, rowPairs, err, pixel>>

FsmStates == {"IDLE", "WAIT_F_END", "WAIT_F_NEW", "WAIT_L_NEW_1", "R_ROW_1",
              "WAIT_L_NEW_2", "R_ROW_2", "BLANK", "SNAPSHOT"}

ScanRow1 == fsm = "R_ROW_1"
ScanRow2 == fsm = "R_ROW_2"
SamplerIdle == fsm = "IDLE"       \* sta_idle and cmd_clear

FsmInit(d) == fsm = "IDLE" /\ rowPairs = 0 /\ err = FALSE /\ pixel = d

\* Fault: a snapshot is not told from a capture that goes on.
AfterFrameNoSnapshot(start, snapshot) == IF start THEN "WAIT_F_NEW" ELSE "IDLE"

\* Where a frame that ended leads to.
AfterFrame(start, snapshot) ==
  CASE start /\ snapshot  -> "SNAPSHOT"
    [] start /\ ~snapshot -> "WAIT_F_NEW"
    [] ~start             -> "IDLE"

FsmIdle(start, f) ==
  /\ fsm = "IDLE"
  /\ fsm' = CASE start /\ f  -> "WAIT_F_END"
              [] start /\ ~f -> "WAIT_F_NEW"
              [] OTHER       -> fsm
  /\ rowPairs' = 0 /\ err' = FALSE

\* Fault: the end of the frame that was running is not noticed.
FsmWaitFEndStuck(start, f) ==
  /\ fsm = "WAIT_F_END"
  /\ fsm' = IF start THEN fsm ELSE "IDLE"
  /\ UNCHANGED <<rowPairs, err>>

FsmWaitFEnd(start, f) ==
  /\ fsm = "WAIT_F_END"
  /\ fsm' = CASE ~start      -> "IDLE"
              [] start /\ ~f -> "WAIT_F_NEW"
              [] OTHER       -> fsm
  /\ UNCHANGED <<rowPairs, err>>

FsmWaitFNew(start, f) ==
  /\ fsm = "WAIT_F_NEW"
  /\ fsm' = CASE ~start     -> "IDLE"
              [] start /\ f -> "WAIT_L_NEW_1"
              [] OTHER      -> fsm
  /\ rowPairs' = 0 /\ UNCHANGED err

FsmWaitLNew1(start, snapshot, f, l) ==
  /\ fsm = "WAIT_L_NEW_1"
  /\ fsm' = CASE f /\ l  -> "R_ROW_1"
              [] f /\ ~l -> fsm
              [] ~f      -> AfterFrame(start, snapshot)
  /\ rowPairs' = IF f /\ l THEN (rowPairs + 1) % RowSpace ELSE rowPairs
  /\ UNCHANGED err

FsmRow1(f, l) ==
  /\ fsm = "R_ROW_1"
  /\ fsm' = IF ~l THEN "WAIT_L_NEW_2" ELSE fsm
  /\ err' = (err \/ ~f) /\ UNCHANGED rowPairs

\* Fault: an odd number of rows is not noticed.
FsmWaitLNew2NoError(f, l) ==
  /\ fsm = "WAIT_L_NEW_2"
  /\ fsm' = IF l THEN "R_ROW_2" ELSE fsm
  /\ UNCHANGED <<rowPairs, err>>

\* The second row is waited for beyond the end of the frame.
FsmWaitLNew2(f, l) ==
  /\ fsm = "WAIT_L_NEW_2"
  /\ fsm' = IF l THEN "R_ROW_2" ELSE fsm
  /\ err' = (err \/ ~f) /\ UNCHANGED rowPairs

\* Fault: the last pair of rows is left out.
FsmRow2Early(height, f, l) ==
  /\ fsm = "R_ROW_2"
  /\ fsm' = CASE l                           -> fsm
              [] ~l /\ rowPairs + 1 = height -> "BLANK"
              [] ~l /\ rowPairs + 1 # height -> "WAIT_L_NEW_1"
  /\ err' = (err \/ ~f) /\ UNCHANGED rowPairs

FsmRow2(height, f, l) ==
  /\ fsm = "R_ROW_2"
  /\ fsm' = CASE l                        -> fsm
              [] ~l /\ rowPairs = height  -> "BLANK"
              [] ~l /\ rowPairs # height  -> "WAIT_L_NEW_1"
  /\ err' = (err \/ ~f) /\ UNCHANGED rowPairs

FsmBlank(start, snapshot, f) ==
  /\ fsm = "BLANK"
  /\ fsm' = IF f THEN fsm ELSE AfterFrame(start, snapshot)
  /\ UNCHANGED <<rowPairs, err>>

\* Fault: a stop leaves the snapshot bit to be cleared first.
FsmSnapshotNoStop(start, snapshot) ==
  /\ fsm = "SNAPSHOT"
  /\ fsm' = IF snapshot THEN fsm ELSE "IDLE"
  /\ UNCHANGED <<rowPairs, err>>

FsmSnapshot(start, snapshot) ==
  /\ fsm = "SNAPSHOT"
  /\ fsm' = IF start /\ snapshot THEN fsm ELSE "IDLE"
  /\ UNCHANGED <<rowPairs, err>>

FsmClock(start, snapshot, height, f, l, d) ==
  /\ pixel' = d
  /\ \/ FsmIdle(start, f)
     \/ FsmWaitFEnd(start, f)
     \/ FsmWaitFNew(start, f)
     \/ FsmWaitLNew1(start, snapshot, f, l)
     \/ FsmRow1(f, l)
     \/ FsmWaitLNew2(f, l)
     \/ FsmRow2(height, f, l)
     \/ FsmBlank(start, snapshot, f)
     \/ FsmSnapshot(start, snapshot)

FsmTypeOK == fsm \in FsmStates /\ rowPairs \in 0 .. RowSpace - 1 /\ err \in BOOLEAN
=============================================================================
