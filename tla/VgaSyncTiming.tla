---------------------------- MODULE VgaSyncTiming ----------------------------
(***************************************************************************)
(* The raster generator of vga_sync.vhd on its own, for any FIFO: the      *)
(* monitors below measure, in pixel clocks, what a display sees.           *)
(***************************************************************************)
EXTENDS Integers, VgaSync

CONSTANTS
  Timings      \* the settings of the timing registers to look at

VARIABLES
  t,           \* the timing registers, set before the display is started
  hlow,        \* pixel clocks hsync has been low
  line,        \* pixel clocks since the last falling edge of hsync
  frame,       \* pixel clocks since the last falling edge of vsync
  pixels       \* pixels enabled since then

monitors == <<hlow, line, frame, pixels>>
timingVars == <<sync, hcount, vcount, t, hlow, line, frame, pixels>>

NoEdge == 0 - 1     \* no falling edge yet since the raster began to count

HFall == HsyncOut(t) /\ ~HsyncOut(t)'
VFall == VsyncOut(t) /\ ~VsyncOut(t)'

TimingInit ==
  /\ SyncInit
  /\ t \in Timings
  /\ hlow = 0 /\ line = NoEdge /\ frame = NoEdge /\ pixels = 0

\* A monitor that restarts at each edge, and waits for the first one.
Measure(m, edge) ==
  m' = IF sync' = "IDLE" THEN NoEdge
       ELSE IF edge THEN 1
       ELSE IF m = NoEdge THEN NoEdge ELSE m + 1

Tick(full, empty) ==
  /\ SyncClock(t, full, empty)
  /\ UNCHANGED t
  /\ Measure(line, sync = "CNT" /\ HFall)
  /\ hlow' = IF sync' = "CNT" /\ ~HsyncOut(t)' /\ line' # NoEdge
             THEN hlow + 1 ELSE 0
  /\ Measure(frame, sync = "CNT" /\ VFall)
  /\ pixels' = IF sync' = "IDLE" \/ (sync = "CNT" /\ VFall) THEN 0
               ELSE IF DispEna(t) THEN pixels + 1 ELSE pixels

TimingNext == \E full, empty \in BOOLEAN : Tick(full, empty)

TimingSpec == TimingInit /\ [][TimingNext]_timingVars
-----------------------------------------------------------------------------
LineClocks  == t.HS + t.HBP + t.Hdata + t.HFP
FrameClocks == LineClocks * (t.VS + t.VBP + t.Vdata + t.VFP)

\* Falling edges of hsync are one line apart while the raster counts.
LinePeriod ==
  [][sync = "CNT" /\ sync' = "CNT" /\ HFall /\ line # NoEdge
       => line = LineClocks]_timingVars

\* Falling edges of vsync are one frame apart, and in between the FIFO is
\* asked for exactly one word per visible pixel.
FramePeriod ==
  [][sync = "CNT" /\ sync' = "CNT" /\ VFall /\ frame # NoEdge
       => frame = FrameClocks /\ pixels = t.Hdata * t.Vdata]_timingVars

\* hsync is low for as many pixels as the sync pulse register says.
HsyncPulse ==
  [][hlow > 0 /\ hlow' = 0 /\ sync' = "CNT" => hlow = t.HS]_timingVars
=============================================================================
