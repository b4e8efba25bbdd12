---------------------------- MODULE CmosGenerator ----------------------------
(***************************************************************************)
(* cmos_sensor_output_generator.vhd: the stand-in for the image sensor.    *)
(* GenClock is one rising edge of its clock.  The pixel data is the number *)
(* of the pixel in the frame.                                              *)
(*                                                                         *)
(* The source has a counter per blanking state; each is set to 1 on the    *)
(* way into the one state that reads it, so one counter stands for all.    *)
(***************************************************************************)
EXTENDS Integers

CONSTANTS
  GenSpace      \* counters and settings wrap at this value (2^CONFIG_REG_WIDTH)

ASSUME GenAssumption == GenSpace \in Nat \ {0, 1}

VARIABLES
  gen,          \* reg_state
  conf,         \* the frame format, by register
  genStart,     \* reg_start
  genStop,      \* reg_stop
  gw, gh,       \* width and height counters
  gb            \* the blank counter of the current state

genVars == <<gen, conf, genStart, genStop, gw, gh, gb>>

GenStates == {"IDLE", "FRAME_FRAME_BLANK", "FRAME_LINE_BLANK", "VALID",
              "LINE_LINE_BLANK", "LINE_FRAME_BLANK"}

\* Width, height, and the blanks frame-frame, frame-line, line-line, line-frame.
ConfRegs == {"width", "height", "ff", "fl", "ll", "lf"}

\* The reset values, which are also the documented minimum values.
ConfMin == [r \in ConfRegs |-> IF r \in {"fl", "lf"} THEN 0 ELSE 1]

GenInit(format) == /\ gen = "IDLE" /\ conf = format
                   /\ genStart = FALSE /\ genStop = FALSE
                   /\ gw = 0 /\ gh = 0 /\ gb = 0

FrameValid == gen \notin {"IDLE", "FRAME_FRAME_BLANK"}
LineValid  == gen = "VALID"
PixelNo    == (gh - 1) * conf.width + (gw - 1)
-----------------------------------------------------------------------------
(* MM_WRITE                                                                *)

GenNoWrite == genStart' = FALSE /\ genStop' = FALSE /\ UNCHANGED conf

GenConfigure(r, value) ==
  /\ genStart' = FALSE /\ genStop' = FALSE
  /\ conf' = IF gen = "IDLE" THEN [conf EXCEPT ![r] = value % GenSpace] ELSE conf

\* Each command is dropped in the states that are not its own.
GenCommand(command) ==
  /\ genStart' = (command = "START" /\ gen = "IDLE")
  /\ genStop' = (command = "STOP" /\ gen # "IDLE")
  /\ UNCHANGED conf
-----------------------------------------------------------------------------
(* NEXT_STATE_LOGIC                                                        *)

Up(n) == (n + 1) % GenSpace

FirstLine == gen' = "VALID" /\ gw' = 1 /\ gh' = 1

\* Fault: no blank between frame_valid and the first line.
BeginFrameNoBlank(blank) == FirstLine /\ gb' = blank

BeginFrame(blank) ==
  \/ conf.fl > 0 /\ gen' = "FRAME_LINE_BLANK" /\ gb' = 1 /\ UNCHANGED <<gw, gh>>
  \/ conf.fl = 0 /\ FirstLine /\ gb' = blank

GenIdle ==
  /\ gen = "IDLE"
  /\ IF genStart THEN BeginFrame(gb) ELSE UNCHANGED <<gen, gw, gh, gb>>

\* Fault: a stop in the last clock of a blank is not looked at.
BlankStopLost(s, setting, Then) ==
  /\ gen = s
  /\ \/ gb = setting /\ Then
     \/ genStop /\ gb # setting /\ gen' = "IDLE" /\ gb' = Up(gb) /\ UNCHANGED <<gw, gh>>
     \/ ~genStop /\ gb # setting /\ gb' = Up(gb) /\ UNCHANGED <<gen, gw, gh>>

\* A blanking state ends when its counter equals its setting, or on a stop.
Blank(s, setting, Then) ==
  /\ gen = s
  /\ \/ genStop /\ gen' = "IDLE" /\ gb' = Up(gb) /\ UNCHANGED <<gw, gh>>
     \/ ~genStop /\ gb = setting /\ Then
     \/ ~genStop /\ gb # setting /\ gb' = Up(gb) /\ UNCHANGED <<gen, gw, gh>>

GenFrameFrameBlank == Blank("FRAME_FRAME_BLANK", conf.ff, BeginFrame(Up(gb)))
GenFrameLineBlank  == Blank("FRAME_LINE_BLANK", conf.fl, FirstLine /\ gb' = Up(gb))

GenLineLineBlank ==
  Blank("LINE_LINE_BLANK", conf.ll,
        gen' = "VALID" /\ gw' = 1 /\ gh' = Up(gh) /\ gb' = Up(gb))

GenLineFrameBlank ==
  Blank("LINE_FRAME_BLANK", conf.lf,
        gen' = "FRAME_FRAME_BLANK" /\ gb' = 1 /\ UNCHANGED <<gw, gh>>)

\* Fault: one line too many.
LineEndLate ==
  CASE gh <= conf.height               -> "LINE_LINE_BLANK"
    [] gh > conf.height /\ conf.lf > 0 -> "LINE_FRAME_BLANK"
    [] OTHER                           -> "FRAME_FRAME_BLANK"

\* What follows the last pixel of a line.
LineEnd ==
  CASE gh < conf.height                 -> "LINE_LINE_BLANK"
    [] gh = conf.height /\ conf.lf > 0  -> "LINE_FRAME_BLANK"
    [] gh = conf.height /\ conf.lf = 0  -> "FRAME_FRAME_BLANK"
    [] OTHER                            -> "VALID"

GenValid ==
  /\ gen = "VALID"
  /\ gw' = Up(gw) /\ UNCHANGED gh
  /\ \/ genStop /\ gen' = "IDLE" /\ UNCHANGED gb
     \/ /\ ~genStop /\ gw = conf.width
        /\ gen' = LineEnd
        /\ gb' = IF LineEnd = "VALID" THEN gb ELSE 1
     \/ ~genStop /\ gw # conf.width /\ UNCHANGED <<gen, gb>>

GenClock == \/ GenIdle \/ GenFrameFrameBlank \/ GenFrameLineBlank
            \/ GenValid \/ GenLineLineBlank \/ GenLineFrameBlank

GenTypeOK ==
  /\ gen \in GenStates
  /\ conf \in [ConfRegs -> 0 .. GenSpace - 1]
  /\ {genStart, genStop} \subseteq BOOLEAN
  /\ {gw, gh, gb} \subseteq 0 .. GenSpace - 1
=============================================================================
