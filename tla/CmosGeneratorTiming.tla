------------------------- MODULE CmosGeneratorTiming -------------------------
(***************************************************************************)
(* The image generator under any sequence of register writes, one per      *)
(* clock; the monitors count what a camera interface sees.                 *)
(***************************************************************************)
EXTENDS CmosGenerator

CONSTANTS
  Settings      \* the values software writes to each format register

\* From the documented minimum of each register up to its width.
ASSUME SettingsAssumption ==
  \A r \in ConfRegs : Settings[r] \subseteq ConfMin[r] .. GenSpace - 1

VARIABLES
  px,           \* pixels of the current line before this clock
  lines,        \* lines of the current frame that are complete
  quiet,        \* clocks since the last line of this run, or none yet
  stopped       \* clocks, up to 2, since a STOP that stands: no START was written
                \* after it nor in the clock before it

monitors == <<px, lines, quiet, stopped>>
timingVars == <<genVars, monitors>>

None == 0 - 1

TimingInit == GenInit(ConfMin) /\ px = 0 /\ lines = 0 /\ quiet = None /\ stopped = None

Watch(command) ==
  /\ px' = IF LineValid /\ LineValid' THEN px + 1 ELSE 0
  /\ lines' = IF ~FrameValid' THEN 0
              ELSE IF LineValid /\ ~LineValid' THEN lines + 1 ELSE lines
  /\ quiet' = CASE gen' = "IDLE" -> None
                [] gen' = "VALID" -> 0
                [] OTHER -> IF quiet = None THEN None ELSE quiet + 1
  /\ stopped' = CASE command = "STOP"  -> IF genStart THEN None ELSE 0
                  [] command = "START" -> None
                  [] OTHER -> IF stopped \in {None, 2} THEN stopped
                              ELSE stopped + 1

Write(command) ==
  CASE command = "NONE"      -> GenNoWrite
    [] command = "CONFIGURE" -> \E r \in ConfRegs : \E n \in Settings[r] :
                                  GenConfigure(r, n)
    [] OTHER                 -> GenCommand(command)

TimingNext ==
  \E command \in {"NONE", "CONFIGURE", "START", "STOP"} :
    GenClock /\ Write(command) /\ Watch(command)

TimingSpec == TimingInit /\ [][TimingNext]_timingVars
-----------------------------------------------------------------------------
\* A line that is not cut short has as many pixels as set, numbered on from
\* the line before, and a frame as many lines, whatever was written meanwhile.
FrameShape ==
  [][/\ LineValid /\ ~LineValid' /\ ~genStop
          => px + 1 = conf.width /\ PixelNo = lines * conf.width + px
     /\ FrameValid /\ ~FrameValid' /\ ~genStop
          => (IF LineValid THEN lines + 1 ELSE lines) = conf.height]_timingVars

\* Between two lines of a run there are the blanks that were set.
Blanking ==
  [][LineValid' /\ ~LineValid /\ quiet # None
       => quiet = IF lines = 0 THEN conf.lf + conf.ff + conf.fl
                  ELSE conf.ll]_timingVars

\* Two clocks after a STOP the status register says idle, in whatever state it
\* came, unless there was a START since.  Only a STOP in the clock after a START
\* is lost: it comes before the state that would take it.
StopIdles == stopped = 2 => gen = "IDLE"
=============================================================================
