------------------------------- MODULE VgaSync -------------------------------
(***************************************************************************)
(* vga_sync.vhd: the raster generator.  SyncClock is one rising edge of    *)
(* the pixel clock; t is the record of the eight timing registers.         *)
(***************************************************************************)
EXTENDS Naturals

CONSTANTS
  CountSpace    \* the 16-bit counters and sums wrap at this value (2^16)

ASSUME SyncAssumption == CountSpace \in Nat \ {0}

VARIABLES
  sync,         \* state_reg of vga_sync
  hcount,       \* hcount_reg
  vcount        \* vcount_reg

syncVars == <<sync, hcount, vcount>>

HPeriod(t) == (t.HS + t.HBP + t.Hdata + t.HFP) % CountSpace
VPeriod(t) == (t.VS + t.VBP + t.Vdata + t.VFP) % CountSpace

\* x - 1 on an unsigned of the counters' width
Pred(x) == (x + CountSpace - 1) % CountSpace

SyncInit == sync = "IDLE" /\ hcount = 0 /\ vcount = 0

\* Fault: one pixel too many is enabled on a line.
DispEnaWide(t) == sync = "CNT" /\ hcount <= t.Hdata /\ vcount < t.Vdata

\* disp_ena, which is also new_pixel, the read request of the FIFO
DispEna(t) == sync = "CNT" /\ hcount < t.Hdata /\ vcount < t.Vdata

HsyncOut(t) == \/ hcount < (t.Hdata + t.HFP) % CountSpace
               \/ hcount > (t.Hdata + t.HFP + t.HS) % CountSpace
VsyncOut(t) == \/ vcount < (t.Vdata + t.VFP) % CountSpace
               \/ vcount > (t.Vdata + t.VFP + t.VS) % CountSpace

\* Fault: the raster waits where the FIFO ran empty.
SyncIdleHold(t, full) ==
  /\ sync = "IDLE"
  /\ sync' = IF full THEN "CNT" ELSE "IDLE"
  /\ UNCHANGED <<hcount, vcount>>

(***************************************************************************)
(* Without a full FIFO the raster is parked at the start of the sync       *)
(* pulses, so the first pixel it shows is the first one of a frame.        *)
(***************************************************************************)
SyncIdle(t, full) ==
  /\ sync = "IDLE"
  /\ sync' = IF full THEN "CNT" ELSE "IDLE"
  /\ hcount' = (t.Hdata + t.HFP) % CountSpace
  /\ vcount' = (t.Vdata + t.VFP) % CountSpace

\* Fault: the last count of a line and of a frame is the period itself.
SyncCountLong(t, empty) ==
  /\ sync = "CNT"
  /\ sync' = IF empty THEN "IDLE" ELSE "CNT"
  /\ IF hcount < HPeriod(t)
     THEN hcount' = (hcount + 1) % CountSpace /\ UNCHANGED vcount
     ELSE /\ hcount' = 0
          /\ vcount' = IF vcount < VPeriod(t)
                       THEN (vcount + 1) % CountSpace ELSE 0

SyncCount(t, empty) ==
  /\ sync = "CNT"
  /\ sync' = IF empty THEN "IDLE" ELSE "CNT"
  /\ IF hcount < Pred(HPeriod(t))
     THEN hcount' = (hcount + 1) % CountSpace /\ UNCHANGED vcount
     ELSE /\ hcount' = 0
          /\ vcount' = IF vcount < Pred(VPeriod(t))
                       THEN (vcount + 1) % CountSpace ELSE 0

SyncClock(t, full, empty) == SyncIdle(t, full) \/ SyncCount(t, empty)

SyncTypeOK ==
  /\ sync \in {"IDLE", "CNT"}
  /\ hcount \in 0 .. CountSpace - 1
  /\ vcount \in 0 .. CountSpace - 1
=============================================================================
