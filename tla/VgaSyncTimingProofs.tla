-------------------------- MODULE VgaSyncTimingProofs --------------------------
(***************************************************************************)
(* For every setting of the timing registers that a display can use, and   *)
(* a FIFO that runs empty at any pixel clock: lines and frames last as     *)
(* long as the registers say, and a frame reads one word per pixel.        *)
(***************************************************************************)
EXTENDS VgaSyncTiming, TLAPS

\* Pictures and pulses that are there at all, and counters that hold a line
\* and a frame.
Usable(m) ==
  /\ {m.Hdata, m.HFP, m.HS, m.HBP, m.Vdata, m.VFP, m.VS, m.VBP} \subseteq Nat
  /\ m.Hdata >= 1 /\ m.HS >= 1 /\ m.Vdata >= 1 /\ m.VS >= 1
  /\ m.Hdata + m.HFP + m.HS < CountSpace /\ m.HS + m.HBP + m.Hdata + m.HFP <= CountSpace
  /\ m.Vdata + m.VFP + m.VS < CountSpace /\ m.VS + m.VBP + m.Vdata + m.VFP <= CountSpace

Settings == \A m \in Timings : Usable(m)

\* Where the pulses begin
HEdge == t.Hdata + t.HFP
VEdge == t.Vdata + t.VFP
FrameLines == t.VS + t.VBP + t.Vdata + t.VFP

\* Clocks of this line since its pulse began, and lines of this frame
LineAt  == IF hcount >= HEdge THEN hcount - HEdge ELSE hcount - HEdge + LineClocks
FrameAt == IF vcount >= VEdge THEN vcount - VEdge ELSE vcount - VEdge + FrameLines

\* Pixels read since the pulse of this frame began
Read == CASE vcount < t.Vdata -> vcount * t.Hdata + IF hcount < t.Hdata THEN hcount ELSE t.Hdata
          [] vcount >= VEdge  -> 0
          [] OTHER            -> t.Vdata * t.Hdata

Raster ==
  /\ hcount \in 0 .. LineClocks - 1 /\ vcount \in 0 .. FrameLines - 1
  /\ line \in {NoEdge, LineAt + 1}
  /\ frame \in {NoEdge, FrameAt * LineClocks + hcount + 1}
  /\ pixels = Read

TInv ==
  /\ t \in Timings /\ sync \in {"IDLE", "CNT"}
  /\ sync = "IDLE" => line = NoEdge /\ frame = NoEdge /\ pixels = 0
  /\ sync = "CNT" => Raster

-----------------------------------------------------------------------------
(* Numbers *)

LEMMA ModSmall == ASSUME NEW b \in Nat \ {0}, NEW a \in 0 .. b - 1 PROVE a % b = a
OBVIOUS

\* The last count of a period, for one that is as long as the counter, too.
LEMMA LastCount ==
  ASSUME NEW n \in 1 .. CountSpace
  PROVE  Pred(n % CountSpace) = n - 1
<1>1. CountSpace \in Nat \ {0}
  BY SyncAssumption
<1>2. CASE n = CountSpace
  <2>1. n % CountSpace = 0 /\ (0 + CountSpace - 1) % CountSpace = CountSpace - 1
    BY <1>1, <1>2
  <2> QED
    BY <1>2, <2>1 DEF Pred
<1>3. CASE n # CountSpace
  <2>1. n \in 0 .. CountSpace - 1 /\ n - 1 \in 0 .. CountSpace - 1
    BY <1>1, <1>3
  <2>2. n % CountSpace = n /\ (n - 1) % CountSpace = n - 1
    BY <1>1, <2>1, ModSmall
  <2>3. (n + CountSpace - 1) % CountSpace = (n - 1) % CountSpace
    BY <1>1
  <2> QED
    BY <2>2, <2>3 DEF Pred
<1> QED
  BY <1>2, <1>3

LEMMA Sizes ==
  ASSUME Settings, t \in Timings
  PROVE  /\ {t.Hdata, t.HFP, t.HS, t.HBP, t.Vdata, t.VFP, t.VS, t.VBP} \subseteq Nat
         /\ CountSpace \in Nat \ {0}
         /\ t.Hdata >= 1 /\ t.HS >= 1 /\ t.Vdata >= 1 /\ t.VS >= 1
         /\ HEdge \in 1 .. LineClocks - 1 /\ VEdge \in 1 .. FrameLines - 1
         /\ LineClocks \in 1 .. CountSpace /\ FrameLines \in 1 .. CountSpace
         /\ t.Hdata <= HEdge /\ t.Vdata <= VEdge
         /\ HEdge + t.HS <= LineClocks /\ VEdge + t.VS <= FrameLines
         /\ HEdge + t.HS < CountSpace /\ VEdge + t.VS < CountSpace
<1>1. Usable(t) /\ CountSpace \in Nat \ {0}
  BY SyncAssumption DEF Settings
<1> QED
  BY <1>1 DEF Usable, HEdge, VEdge, FrameLines, LineClocks

\* The counters and pulses, freed of the width of the registers.
LEMMA Widths ==
  ASSUME Settings, t \in Timings
  PROVE  /\ Pred(HPeriod(t)) = LineClocks - 1 /\ Pred(VPeriod(t)) = FrameLines - 1
         /\ (t.Hdata + t.HFP) % CountSpace = HEdge /\ (t.Vdata + t.VFP) % CountSpace = VEdge
         /\ HsyncOut(t) <=> hcount < HEdge \/ hcount > HEdge + t.HS
         /\ VsyncOut(t) <=> vcount < VEdge \/ vcount > VEdge + t.VS
<1>1. /\ {t.Hdata, t.HFP, t.HS, t.HBP, t.Vdata, t.VFP, t.VS, t.VBP} \subseteq Nat
      /\ CountSpace \in Nat \ {0}
      /\ LineClocks \in 1 .. CountSpace /\ FrameLines \in 1 .. CountSpace
      /\ HEdge + t.HS < CountSpace /\ VEdge + t.VS < CountSpace
      /\ HEdge \in Nat /\ VEdge \in Nat
  BY Sizes
<1>2. Pred(HPeriod(t)) = LineClocks - 1 /\ Pred(VPeriod(t)) = FrameLines - 1
  BY <1>1, LastCount DEF HPeriod, VPeriod, LineClocks, FrameLines
<1>3. HEdge % CountSpace = HEdge /\ VEdge % CountSpace = VEdge
  <2>1. HEdge \in 0 .. CountSpace - 1 /\ VEdge \in 0 .. CountSpace - 1
    BY <1>1
  <2> QED
    BY <1>1, <2>1, ModSmall
<1>4. (HEdge + t.HS) % CountSpace = HEdge + t.HS /\ (VEdge + t.VS) % CountSpace = VEdge + t.VS
  <2>1. HEdge + t.HS \in 0 .. CountSpace - 1 /\ VEdge + t.VS \in 0 .. CountSpace - 1
    BY <1>1
  <2> QED
    BY <1>1, <2>1, ModSmall
<1> QED
  BY <1>2, <1>3, <1>4 DEF HsyncOut, VsyncOut, HEdge, VEdge

-----------------------------------------------------------------------------
(* What a clock does while the raster counts *)

LEMMA SameSizes ==
  ASSUME t' = t
  PROVE  /\ LineClocks' = LineClocks /\ FrameLines' = FrameLines
         /\ HEdge' = HEdge /\ VEdge' = VEdge
BY DEF LineClocks, FrameLines, HEdge, VEdge

LEMMA Counts ==
  ASSUME Settings, t \in Timings, t' = t, Raster, NEW empty \in BOOLEAN, SyncCount(t, empty)
  PROVE  /\ hcount' \in 0 .. LineClocks - 1 /\ vcount' \in 0 .. FrameLines - 1
         /\ hcount < LineClocks - 1 => hcount' = hcount + 1 /\ vcount' = vcount
         /\ hcount = LineClocks - 1 =>
              /\ hcount' = 0
              /\ vcount' = IF vcount < FrameLines - 1 THEN vcount + 1 ELSE 0
         /\ HFall <=> hcount = HEdge - 1
         /\ VFall <=> hcount = LineClocks - 1 /\ vcount = VEdge - 1
<1>1. /\ hcount \in 0 .. LineClocks - 1 /\ vcount \in 0 .. FrameLines - 1
      /\ LineClocks \in 1 .. CountSpace /\ FrameLines \in 1 .. CountSpace
      /\ HEdge \in 1 .. LineClocks - 1 /\ VEdge \in 1 .. FrameLines - 1
      /\ t.HS \in Nat /\ t.VS \in Nat /\ t.HS >= 1 /\ t.VS >= 1 /\ CountSpace \in Nat \ {0}
  BY Sizes DEF Raster
<1>2. hcount < LineClocks - 1 => (hcount + 1) % CountSpace = hcount + 1
  <2>1. hcount < LineClocks - 1 => hcount + 1 \in 0 .. CountSpace - 1
    BY <1>1
  <2> QED
    BY <1>1, <2>1, ModSmall
<1>3. vcount < FrameLines - 1 => (vcount + 1) % CountSpace = vcount + 1
  <2>1. vcount < FrameLines - 1 => vcount + 1 \in 0 .. CountSpace - 1
    BY <1>1
  <2> QED
    BY <1>1, <2>1, ModSmall
<1>4. IF hcount < LineClocks - 1
      THEN hcount' = hcount + 1 /\ vcount' = vcount
      ELSE hcount' = 0 /\ vcount' = IF vcount < FrameLines - 1 THEN vcount + 1 ELSE 0
  BY <1>2, <1>3, Widths DEF SyncCount
<1>5. hcount' \in 0 .. LineClocks - 1 /\ vcount' \in 0 .. FrameLines - 1
  BY <1>1, <1>4
<1>6. /\ HsyncOut(t) <=> hcount < HEdge \/ hcount > HEdge + t.HS
      /\ VsyncOut(t) <=> vcount < VEdge \/ vcount > VEdge + t.VS
  BY Widths
<1>7. /\ HsyncOut(t)' <=> hcount' < HEdge \/ hcount' > HEdge + t.HS
      /\ VsyncOut(t)' <=> vcount' < VEdge \/ vcount' > VEdge + t.VS
  <2>1. HEdge % CountSpace = HEdge /\ VEdge % CountSpace = VEdge
    BY Widths DEF HEdge, VEdge
  <2>2. (HEdge + t.HS) % CountSpace = HEdge + t.HS /\ (VEdge + t.VS) % CountSpace = VEdge + t.VS
    <3>1. HEdge + t.HS \in 0 .. CountSpace - 1 /\ VEdge + t.VS \in 0 .. CountSpace - 1
      BY <1>1, Sizes
    <3> QED
      BY <1>1, <3>1, ModSmall
  <2>3. /\ HsyncOut(t)' <=> hcount' < HEdge % CountSpace \/ hcount' > (HEdge + t.HS) % CountSpace
        /\ VsyncOut(t)' <=> vcount' < VEdge % CountSpace \/ vcount' > (VEdge + t.VS) % CountSpace
    BY DEF HsyncOut, VsyncOut, HEdge, VEdge
  <2> QED
    BY <2>1, <2>2, <2>3
<1>8. HFall <=> hcount = HEdge - 1
  BY <1>1, <1>4, <1>6, <1>7 DEF HFall
<1>9. VFall <=> hcount = LineClocks - 1 /\ vcount = VEdge - 1
  BY <1>1, <1>4, <1>6, <1>7 DEF VFall
<1> QED
  BY <1>1, <1>4, <1>5, <1>8, <1>9

\* The lines of a frame since its pulse go up by one with each line.
LEMMA FrameAtMoves ==
  ASSUME Settings, t \in Timings, t' = t, vcount \in 0 .. FrameLines - 1
  PROVE  /\ FrameAt \in 0 .. FrameLines - 1
         /\ vcount = VEdge - 1 => FrameAt = FrameLines - 1
         /\ vcount' = vcount => FrameAt' = FrameAt
         /\ vcount' = (IF vcount < FrameLines - 1 THEN vcount + 1 ELSE 0) =>
              FrameAt' = IF vcount = VEdge - 1 THEN 0 ELSE FrameAt + 1
<1>1. VEdge \in 1 .. FrameLines - 1 /\ FrameLines \in Nat /\ VEdge' = VEdge /\ FrameLines' = FrameLines
  BY Sizes, SameSizes
<1> QED
  BY <1>1 DEF FrameAt

LEMMA LineKept ==
  ASSUME Settings, t \in Timings, t' = t, Raster, NEW empty \in BOOLEAN, SyncCount(t, empty),
         Measure(line, HFall), sync' = "CNT"
  PROVE  line' \in {NoEdge, LineAt' + 1}
<1>1. /\ hcount < LineClocks - 1 => hcount' = hcount + 1
      /\ hcount = LineClocks - 1 => hcount' = 0
      /\ HFall <=> hcount = HEdge - 1
  BY Counts
<1>2. /\ hcount \in 0 .. LineClocks - 1 /\ LineClocks \in Nat /\ HEdge \in 1 .. LineClocks - 1
      /\ LineClocks' = LineClocks /\ HEdge' = HEdge /\ line \in {NoEdge, LineAt + 1}
  BY Sizes, SameSizes DEF Raster
<1>3. CASE HFall
  <2>1. line' = 1 /\ hcount' = HEdge
    BY <1>1, <1>2, <1>3 DEF Measure
  <2> QED
    BY <1>2, <2>1 DEF LineAt
<1>4. CASE ~HFall
  <2>1. line' = IF line = NoEdge THEN NoEdge ELSE line + 1
    BY <1>4 DEF Measure
  <2>2. LineAt \in Int /\ LineAt' = LineAt + 1
    BY <1>1, <1>2, <1>4 DEF LineAt
  <2> QED
    BY <1>2, <2>1, <2>2
<1> QED
  BY <1>3, <1>4

LEMMA FrameKept ==
  ASSUME Settings, t \in Timings, t' = t, Raster, NEW empty \in BOOLEAN, SyncCount(t, empty),
         Measure(frame, VFall), sync' = "CNT"
  PROVE  frame' \in {NoEdge, FrameAt' * LineClocks' + hcount' + 1}
<1>1. /\ hcount < LineClocks - 1 => hcount' = hcount + 1 /\ vcount' = vcount
      /\ hcount = LineClocks - 1 =>
           /\ hcount' = 0
           /\ vcount' = IF vcount < FrameLines - 1 THEN vcount + 1 ELSE 0
      /\ VFall <=> hcount = LineClocks - 1 /\ vcount = VEdge - 1
  BY Counts
<1>2. /\ hcount \in 0 .. LineClocks - 1 /\ vcount \in 0 .. FrameLines - 1 /\ LineClocks \in Nat
      /\ LineClocks' = LineClocks /\ frame \in {NoEdge, FrameAt * LineClocks + hcount + 1}
  BY Sizes, SameSizes DEF Raster
<1>3. /\ FrameAt \in 0 .. FrameLines - 1
      /\ vcount' = vcount => FrameAt' = FrameAt
      /\ vcount' = (IF vcount < FrameLines - 1 THEN vcount + 1 ELSE 0) =>
           FrameAt' = IF vcount = VEdge - 1 THEN 0 ELSE FrameAt + 1
  BY <1>2, FrameAtMoves
<1>4. CASE VFall
  <2>1. frame' = 1
    BY <1>4 DEF Measure
  <2>2. hcount' = 0 /\ FrameAt' = 0
    BY <1>1, <1>3, <1>4
  <2>3. FrameAt' * LineClocks' + hcount' + 1 = 1
    BY <1>2, <2>2
  <2> QED
    BY <2>1, <2>3
<1>5. CASE ~VFall
  <2>1. frame' = IF frame = NoEdge THEN NoEdge ELSE frame + 1
    BY <1>5 DEF Measure
  <2>2. FrameAt \in Nat /\ FrameAt * LineClocks \in Nat
        /\ (FrameAt + 1) * LineClocks = FrameAt * LineClocks + LineClocks
    BY <1>2, <1>3
  <2>3. CASE hcount < LineClocks - 1
    <3>1. hcount' = hcount + 1 /\ FrameAt' = FrameAt
      BY <1>1, <1>3, <2>3
    <3>2. FrameAt' * LineClocks' + hcount' + 1 = FrameAt * LineClocks + hcount + 1 + 1
      BY <1>2, <2>2, <3>1
    <3> QED
      BY <1>2, <2>1, <3>2
  <2>4. CASE hcount = LineClocks - 1
    <3>1. hcount' = 0 /\ FrameAt' = FrameAt + 1
      BY <1>1, <1>3, <1>5, <2>4
    <3>2. FrameAt' * LineClocks' + hcount' + 1 = FrameAt * LineClocks + hcount + 1 + 1
      BY <1>2, <2>2, <2>4, <3>1
    <3> QED
      BY <1>2, <2>1, <3>2
  <2> QED
    BY <1>2, <2>3, <2>4
<1> QED
  BY <1>4, <1>5

\* A line that is shown adds as many pixels as it has.
LEMMA ReadKept ==
  ASSUME Settings, t \in Timings, t' = t, Raster, sync = "CNT", NEW empty \in BOOLEAN,
         SyncCount(t, empty)
  PROVE  Read' = IF VFall THEN 0 ELSE IF DispEna(t) THEN Read + 1 ELSE Read
<1>1. /\ hcount < LineClocks - 1 => hcount' = hcount + 1 /\ vcount' = vcount
      /\ hcount = LineClocks - 1 =>
           /\ hcount' = 0
           /\ vcount' = IF vcount < FrameLines - 1 THEN vcount + 1 ELSE 0
      /\ VFall <=> hcount = LineClocks - 1 /\ vcount = VEdge - 1
  BY Counts
<1>2. /\ hcount \in 0 .. LineClocks - 1 /\ vcount \in 0 .. FrameLines - 1 /\ LineClocks \in Nat
      /\ FrameLines \in Nat /\ t.Hdata \in Nat /\ t.Vdata \in Nat /\ t.Hdata >= 1 /\ t.Vdata >= 1
      /\ VEdge \in 1 .. FrameLines - 1 /\ t.Vdata <= VEdge /\ t.Hdata <= LineClocks - 1
      /\ VEdge' = VEdge
  BY Sizes, SameSizes DEF Raster
<1>3. DispEna(t) <=> hcount < t.Hdata /\ vcount < t.Vdata
  BY DEF DispEna
<1>4. /\ vcount * t.Hdata \in Nat /\ (vcount + 1) * t.Hdata = vcount * t.Hdata + t.Hdata
      /\ t.Vdata * t.Hdata \in Nat /\ 0 * t.Hdata = 0
  BY <1>2
<1>5. /\ vcount < t.Vdata => Read = vcount * t.Hdata + IF hcount < t.Hdata THEN hcount ELSE t.Hdata
      /\ vcount >= VEdge => Read = 0
      /\ vcount >= t.Vdata /\ vcount < VEdge => Read = t.Vdata * t.Hdata
  BY <1>2 DEF Read
<1>6. vcount' \in Nat =>
      /\ vcount' < t.Vdata =>
           Read' = vcount' * t.Hdata + IF hcount' < t.Hdata THEN hcount' ELSE t.Hdata
      /\ vcount' >= VEdge => Read' = 0
      /\ vcount' >= t.Vdata /\ vcount' < VEdge => Read' = t.Vdata * t.Hdata
  BY <1>2 DEF Read
<1>7. CASE hcount < LineClocks - 1
  <2>1. hcount' = hcount + 1 /\ vcount' = vcount /\ vcount' \in Nat /\ ~VFall
    BY <1>1, <1>2, <1>7
  <2>2. CASE vcount < t.Vdata
    <3>1. Read' = vcount * t.Hdata + IF hcount + 1 < t.Hdata THEN hcount + 1 ELSE t.Hdata
      BY <1>6, <2>1, <2>2
    <3> QED
      BY <1>2, <1>3, <1>4, <1>5, <2>1, <2>2, <3>1
  <2>3. CASE vcount >= VEdge
    BY <1>2, <1>3, <1>5, <1>6, <2>1, <2>3
  <2>4. CASE vcount >= t.Vdata /\ vcount < VEdge
    BY <1>2, <1>3, <1>5, <1>6, <2>1, <2>4
  <2> QED
    BY <1>2, <2>2, <2>3, <2>4
<1>8. CASE hcount = LineClocks - 1
  <2>1. hcount' = 0 /\ ~DispEna(t) /\ vcount' = IF vcount < FrameLines - 1 THEN vcount + 1 ELSE 0
    BY <1>1, <1>2, <1>3, <1>8
  <2>2. vcount' \in Nat
    BY <1>2, <2>1
  <2>3. CASE VFall
    <3>1. vcount' = VEdge
      BY <1>1, <1>2, <2>1, <2>3
    <3> QED
      BY <1>2, <1>6, <2>2, <2>3, <3>1
  <2>4. CASE ~VFall /\ vcount < VEdge
    <3>1. vcount' = vcount + 1 /\ vcount' < VEdge
      BY <1>1, <1>2, <1>8, <2>1, <2>4
    <3>2. CASE vcount' < t.Vdata
      <4>1. Read' = (vcount + 1) * t.Hdata + 0
        BY <1>2, <1>6, <2>1, <2>2, <3>1, <3>2
      <4>2. Read = vcount * t.Hdata + t.Hdata
        BY <1>2, <1>5, <1>8, <3>1, <3>2
      <4> QED
        BY <1>4, <2>1, <2>4, <4>1, <4>2
    <3>3. CASE vcount' = t.Vdata
      <4>1. Read' = t.Vdata * t.Hdata
        BY <1>2, <1>6, <2>2, <3>1, <3>3
      <4>2. Read = vcount * t.Hdata + t.Hdata
        BY <1>2, <1>5, <1>8, <3>1, <3>3
      <4>3. t.Vdata = vcount + 1
        BY <3>1, <3>3
      <4> QED
        BY <1>4, <2>1, <2>4, <4>1, <4>2, <4>3
    <3>4. CASE vcount' > t.Vdata
      <4>1. Read' = t.Vdata * t.Hdata /\ Read = t.Vdata * t.Hdata
        BY <1>2, <1>5, <1>6, <2>2, <3>1, <3>4
      <4> QED
        BY <2>1, <2>4, <4>1
    <3> QED
      BY <1>2, <2>2, <3>2, <3>3, <3>4
  <2>5. CASE ~VFall /\ vcount >= VEdge
    <3>1. Read = 0
      BY <1>5, <2>5
    <3>2. CASE vcount < FrameLines - 1
      <4>1. vcount' >= VEdge
        BY <1>2, <2>1, <2>5, <3>2
      <4> QED
        BY <1>6, <2>1, <2>2, <2>5, <3>1, <4>1
    <3>3. CASE vcount = FrameLines - 1
      <4>1. vcount' = 0
        BY <1>2, <2>1, <3>3
      <4>2. Read' = 0 * t.Hdata + 0
        BY <1>2, <1>6, <2>1, <2>2, <4>1
      <4> QED
        BY <1>4, <2>1, <2>5, <3>1, <4>2
    <3> QED
      BY <1>2, <3>2, <3>3
  <2> QED
    BY <1>2, <2>3, <2>4, <2>5
<1> QED
  BY <1>2, <1>7, <1>8

-----------------------------------------------------------------------------
(* The invariant *)

LEMMA TInvKept ==
  ASSUME Settings, TInv, [TimingNext]_timingVars
  PROVE  TInv'
<1>1. CASE UNCHANGED timingVars
  BY <1>1 DEF timingVars, TInv, Raster, LineAt, FrameAt, Read, LineClocks, FrameLines, HEdge, VEdge
<1>2. ASSUME NEW full \in BOOLEAN, NEW empty \in BOOLEAN, Tick(full, empty) PROVE TInv'
  <2>1. /\ t \in Timings /\ t' = t /\ SyncClock(t, full, empty)
        /\ Measure(line, sync = "CNT" /\ HFall) /\ Measure(frame, sync = "CNT" /\ VFall)
        /\ pixels' = IF sync' = "IDLE" \/ (sync = "CNT" /\ VFall) THEN 0
                     ELSE IF DispEna(t) THEN pixels + 1 ELSE pixels
    BY <1>2 DEF TInv, Tick
  <2>2. sync' \in {"IDLE", "CNT"}
    BY <2>1 DEF SyncClock, SyncIdle, SyncCount
  <2>3. CASE sync' = "IDLE"
    BY <2>1, <2>3 DEF TInv, Measure
  <2>4. CASE sync' = "CNT" /\ SyncIdle(t, full)
    <3>1. sync = "IDLE" /\ line = NoEdge /\ frame = NoEdge /\ pixels = 0
      BY <2>4 DEF SyncIdle, TInv
    <3>2. hcount' = HEdge /\ vcount' = VEdge
      BY <2>1, <2>4, Widths DEF SyncIdle
    <3>3. line' = NoEdge /\ frame' = NoEdge
      BY <2>1, <2>4, <3>1 DEF Measure
    <3>4. pixels' = 0
      BY <2>1, <2>4, <3>1 DEF DispEna
    <3>5. /\ HEdge \in 1 .. LineClocks - 1 /\ VEdge \in 1 .. FrameLines - 1
          /\ LineClocks \in Nat /\ FrameLines \in Nat /\ t.Vdata \in Nat /\ t.Vdata <= VEdge
          /\ LineClocks' = LineClocks /\ FrameLines' = FrameLines /\ VEdge' = VEdge
      BY <2>1, Sizes, SameSizes
    <3>6. Read' = 0
      BY <2>1, <3>2, <3>5 DEF Read
    <3>7. Raster'
      BY <3>2, <3>3, <3>4, <3>5, <3>6 DEF Raster
    <3> QED
      BY <2>1, <2>2, <2>4, <3>7 DEF TInv
  <2>5. CASE sync' = "CNT" /\ SyncCount(t, empty)
    <3>1. sync = "CNT" /\ Raster
      BY <2>5 DEF SyncCount, TInv
    <3>2. hcount' \in 0 .. LineClocks' - 1 /\ vcount' \in 0 .. FrameLines' - 1
      BY <2>1, <2>5, <3>1, Counts, SameSizes
    <3>3. line' \in {NoEdge, LineAt' + 1}
      <4>1. Measure(line, HFall)
        BY <2>1, <3>1 DEF Measure
      <4> QED
        BY <2>1, <2>5, <3>1, <4>1, LineKept
    <3>4. frame' \in {NoEdge, FrameAt' * LineClocks' + hcount' + 1}
      <4>1. Measure(frame, VFall)
        BY <2>1, <3>1 DEF Measure
      <4> QED
        BY <2>1, <2>5, <3>1, <4>1, FrameKept
    <3>5. pixels' = Read'
      BY <2>1, <2>5, <3>1, ReadKept DEF Raster
    <3>6. Raster'
      BY <3>2, <3>3, <3>4, <3>5 DEF Raster
    <3> QED
      BY <2>1, <2>2, <2>5, <3>6 DEF TInv
  <2> QED
    BY <2>1, <2>2, <2>3, <2>4, <2>5 DEF SyncClock
<1> QED
  BY <1>1, <1>2 DEF TimingNext

LEMMA TInvAlways == ASSUME Settings PROVE TimingSpec => []TInv
<1>1. TimingInit => TInv
  BY DEF TimingInit, SyncInit, TInv
<1>2. TInv /\ [TimingNext]_timingVars => TInv'
  BY TInvKept
<1> QED
  BY <1>1, <1>2, PTL DEF TimingSpec

\* An edge while the raster counts is where the counters say.
LEMMA AtEdges ==
  ASSUME Settings, TInv, [TimingNext]_timingVars, sync = "CNT", sync' = "CNT"
  PROVE  /\ HFall /\ line # NoEdge => line = LineClocks
         /\ VFall /\ frame # NoEdge => frame = FrameClocks /\ pixels = t.Hdata * t.Vdata
<1>1. CASE UNCHANGED timingVars
  <2>1. ~HFall /\ ~VFall
    BY <1>1 DEF timingVars, HFall, VFall, HsyncOut, VsyncOut
  <2> QED
    BY <2>1
<1>2. ASSUME NEW full \in BOOLEAN, NEW empty \in BOOLEAN, Tick(full, empty)
      PROVE  /\ HFall /\ line # NoEdge => line = LineClocks
             /\ VFall /\ frame # NoEdge => frame = FrameClocks /\ pixels = t.Hdata * t.Vdata
  <2>1. t \in Timings /\ t' = t /\ Raster /\ SyncCount(t, empty)
    BY <1>2 DEF TInv, Tick, SyncClock, SyncIdle
  <2>2. /\ HFall <=> hcount = HEdge - 1
        /\ VFall <=> hcount = LineClocks - 1 /\ vcount = VEdge - 1
    BY <2>1, Counts
  <2>3. /\ HEdge \in 1 .. LineClocks - 1 /\ LineClocks \in Nat /\ FrameLines \in Nat /\ t.Hdata \in Nat
        /\ VEdge \in 1 .. FrameLines - 1 /\ t.Vdata \in Nat /\ t.Vdata <= VEdge /\ t.Hdata <= LineClocks - 1
        /\ t.Hdata >= 1 /\ t.Vdata >= 1
    BY <2>1, Sizes
  <2>4. ASSUME HFall, line # NoEdge PROVE line = LineClocks
    <3>1. line = LineAt + 1 /\ hcount = HEdge - 1
      BY <2>1, <2>2, <2>4 DEF Raster
    <3> QED
      BY <2>3, <3>1 DEF LineAt
  <2>5. ASSUME VFall, frame # NoEdge PROVE frame = FrameClocks /\ pixels = t.Hdata * t.Vdata
    <3>1. hcount = LineClocks - 1 /\ vcount = VEdge - 1 /\ pixels = Read
          /\ frame = FrameAt * LineClocks + hcount + 1
      BY <2>1, <2>2, <2>5 DEF Raster
    <3>2. FrameAt = FrameLines - 1
      BY <2>3, <3>1 DEF FrameAt
    <3>3. (FrameLines - 1) * LineClocks = LineClocks * FrameLines - LineClocks
          /\ LineClocks * FrameLines \in Nat
      BY <2>3
    <3>4. frame = LineClocks * FrameLines
      BY <2>3, <3>1, <3>2, <3>3
    <3>5. pixels = t.Hdata * t.Vdata
      <4>1. CASE t.Vdata = VEdge
        <5>1. pixels = (t.Vdata - 1) * t.Hdata + t.Hdata
          BY <2>3, <3>1, <4>1 DEF Read
        <5>2. (t.Vdata - 1) * t.Hdata = t.Hdata * t.Vdata - t.Hdata /\ t.Hdata * t.Vdata \in Nat
          BY <2>3
        <5> QED
          BY <2>3, <5>1, <5>2
      <4>2. CASE t.Vdata < VEdge
        <5>1. pixels = t.Vdata * t.Hdata
          BY <2>3, <3>1, <4>2 DEF Read
        <5> QED
          BY <2>3, <5>1
      <4> QED
        BY <2>3, <4>1, <4>2
    <3> QED
      BY <3>4, <3>5 DEF FrameClocks, FrameLines
  <2> QED
    BY <2>4, <2>5
<1> QED
  BY <1>1, <1>2 DEF TimingNext

-----------------------------------------------------------------------------
(* Theorems *)

(***************************************************************************)
(* Falling edges of hsync are one line apart while vga_sync.vhd counts,    *)
(* for every usable setting of the timing registers.                       *)
(***************************************************************************)
THEOREM LinesInTime == ASSUME Settings PROVE TimingSpec => LinePeriod
<1> DEFINE Edge == sync = "CNT" /\ sync' = "CNT" /\ HFall /\ line # NoEdge => line = LineClocks
<1>1. TInv /\ [TimingNext]_timingVars => [Edge]_timingVars
  BY AtEdges
<1> QED
  BY <1>1, TInvAlways, PTL DEF TimingSpec, LinePeriod

(***************************************************************************)
(* Falling edges of vsync are one frame apart, and in between vga_sync.vhd *)
(* asks the FIFO for exactly one word per visible pixel.                   *)
(***************************************************************************)
THEOREM FramesInTime == ASSUME Settings PROVE TimingSpec => FramePeriod
<1> DEFINE Edge == sync = "CNT" /\ sync' = "CNT" /\ VFall /\ frame # NoEdge
                     => frame = FrameClocks /\ pixels = t.Hdata * t.Vdata
<1>1. TInv /\ [TimingNext]_timingVars => [Edge]_timingVars
  BY AtEdges
<1> QED
  BY <1>1, TInvAlways, PTL DEF TimingSpec, FramePeriod
=============================================================================
