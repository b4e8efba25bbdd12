------------------------- MODULE CmosGeneratorProofs -------------------------
(***************************************************************************)
(* The pixel stream of the image generator has the shape that was set, for *)
(* every width of the registers and all settings from the documented       *)
(* minimum up, whatever is written at any clock; a STOP idles it.          *)
(***************************************************************************)
EXTENDS CmosGeneratorTiming, TLAPS

\* Every variable has its range, and the format is never below its minimum.
Typed ==
  /\ GenTypeOK
  /\ px \in Nat /\ lines \in Nat
  /\ quiet \in Nat \cup {None} /\ stopped \in {None, 0, 1, 2}
  /\ \A r \in ConfRegs : conf[r] >= ConfMin[r]

\* The width counter is the number of the pixel in its line.
Pixels ==
  IF gen = "VALID" THEN gw = px + 1 /\ gw <= conf.width ELSE px = 0

\* The height counter is the number of the line in its frame, counted on
\* after the blank that follows a line.
Rows ==
  CASE gen = "VALID"            -> gh = lines + 1 /\ gh <= conf.height
    [] gen = "LINE_LINE_BLANK"  -> gh = lines /\ 0 < lines /\ lines < conf.height
    [] gen = "LINE_FRAME_BLANK" -> lines = conf.height
    [] OTHER                    -> lines = 0

\* The blank counter is the number of clocks in its blank, the blanks before
\* it were as long as set; before the first line of a run nothing is said.
Blanks ==
  quiet # None =>
    CASE gen = "VALID"             -> quiet = 0
      [] gen = "LINE_LINE_BLANK"   -> quiet = gb /\ gb <= conf.ll
      [] gen = "LINE_FRAME_BLANK"  -> quiet = gb /\ gb <= conf.lf
      [] gen = "FRAME_FRAME_BLANK" -> quiet = conf.lf + gb /\ gb <= conf.ff
      [] gen = "FRAME_LINE_BLANK"  -> quiet = conf.lf + conf.ff + gb /\ gb <= conf.fl
      [] OTHER                     -> FALSE

\* A STOP that stands has been taken or finds the generator idle, and no START
\* is under way.
Stopping ==
  stopped # None => /\ genStart = FALSE
                    /\ genStop = TRUE \/ gen = "IDLE"
                    /\ stopped # 0 => gen = "IDLE"

Shape == Typed /\ Pixels /\ Rows /\ Blanks

Commands == {"NONE", "CONFIGURE", "START", "STOP"}

-----------------------------------------------------------------------------
LEMMA ModRange == ASSUME NEW a \in Nat, NEW b \in Nat \ {0}
                  PROVE  a % b \in 0 .. b - 1
OBVIOUS

LEMMA ModSmall == ASSUME NEW b \in Nat \ {0}, NEW a \in 0 .. b - 1
                  PROVE  a % b = a
OBVIOUS

\* Counting on stays in the counter's width and wraps at its end only.
LEMMA UpIs ==
  ASSUME NEW n \in 0 .. GenSpace - 1
  PROVE  Up(n) \in 0 .. GenSpace - 1 /\ (n < GenSpace - 1 => Up(n) = n + 1)
<1>1. GenSpace \in Nat \ {0} /\ n + 1 \in Nat
  BY GenAssumption
<1>2. Up(n) \in 0 .. GenSpace - 1
  BY <1>1, ModRange DEF Up
<1>3. n < GenSpace - 1 => Up(n) = n + 1
  BY <1>1, ModSmall DEF Up
<1> QED
  BY <1>2, <1>3

\* A register write keeps the format within its bounds, and leaves it alone
\* unless the generator is idle.
LEMMA WriteKeeps ==
  ASSUME Typed, NEW command \in Commands, Write(command)
  PROVE  /\ conf' \in [ConfRegs -> 0 .. GenSpace - 1]
         /\ \A r \in ConfRegs : conf'[r] >= ConfMin[r]
         /\ genStart' \in BOOLEAN /\ genStop' \in BOOLEAN
         /\ gen # "IDLE" => conf' = conf
<1> USE DEF Typed, GenTypeOK, Commands
<1>1. CASE command = "NONE"
  BY <1>1 DEF Write, GenNoWrite
<1>2. CASE command = "CONFIGURE"
  <2>1. PICK r \in ConfRegs : \E n \in Settings[r] : GenConfigure(r, n)
    BY <1>2 DEF Write
  <2>2. PICK n \in Settings[r] : GenConfigure(r, n)
    BY <2>1
  <2>3. n \in ConfMin[r] .. GenSpace - 1 /\ ConfMin[r] \in {0, 1}
    BY SettingsAssumption DEF ConfMin
  <2>4. n % GenSpace = n
    BY <2>3, ModSmall, GenAssumption
  <2>5. CASE gen = "IDLE"
    <3>1. conf' = [conf EXCEPT ![r] = n] /\ genStart' = FALSE /\ genStop' = FALSE
      BY <2>2, <2>4, <2>5 DEF GenConfigure
    <3>2. n \in 0 .. GenSpace - 1 /\ n >= ConfMin[r]
      BY <2>3, GenAssumption
    <3> QED
      BY <2>5, <3>1, <3>2
  <2>6. CASE gen # "IDLE"
    BY <2>2, <2>6 DEF GenConfigure
  <2> QED
    BY <2>5, <2>6
<1>3. CASE command \in {"START", "STOP"}
  <2>1. GenCommand(command)
    BY <1>3 DEF Write
  <2> QED
    BY <2>1 DEF GenCommand
<1> QED
  BY <1>1, <1>2, <1>3

\* The invariant after one clock, state by state.
LEMMA ClockKeepsShape ==
  ASSUME Shape, NEW command \in Commands, GenClock, Write(command), Watch(command)
  PROVE  Shape'
<1> DEFINE Range == 0 .. GenSpace - 1
<1>1. /\ GenSpace \in Nat /\ GenSpace > 1
      /\ gw \in Range /\ gh \in Range /\ gb \in Range /\ gen \in GenStates
      /\ \A r \in ConfRegs : conf[r] \in Range /\ conf'[r] \in Range
      /\ conf.width >= 1 /\ conf.height >= 1 /\ conf.ff >= 1 /\ conf.ll >= 1
      /\ conf'.width >= 1 /\ conf'.height >= 1
      /\ px \in Nat /\ lines \in Nat /\ quiet \in Nat \cup {None}
  BY GenAssumption, WriteKeeps DEF Shape, Typed, GenTypeOK, ConfRegs, ConfMin
<1>2. /\ conf' \in [ConfRegs -> Range] /\ \A r \in ConfRegs : conf'[r] >= ConfMin[r]
      /\ genStart' \in BOOLEAN /\ genStop' \in BOOLEAN
      /\ gen # "IDLE" => conf' = conf
  BY WriteKeeps DEF Shape
<1>3. /\ px' = IF LineValid /\ LineValid' THEN px + 1 ELSE 0
      /\ lines' = IF ~FrameValid' THEN 0
                  ELSE IF LineValid /\ ~LineValid' THEN lines + 1 ELSE lines
      /\ quiet' = CASE gen' = "IDLE" -> None
                    [] gen' = "VALID" -> 0
                    [] OTHER -> IF quiet = None THEN None ELSE quiet + 1
  BY DEF Watch
<1>4. stopped' \in {None, 0, 1, 2}
  BY DEF Watch, Shape, Typed
<1>5. /\ Up(gw) \in Range /\ Up(gh) \in Range /\ Up(gb) \in Range
      /\ gw < GenSpace - 1 => Up(gw) = gw + 1
      /\ gh < GenSpace - 1 => Up(gh) = gh + 1
      /\ gb < GenSpace - 1 => Up(gb) = gb + 1
  BY <1>1, UpIs
<1>6. /\ conf.width \in Range /\ conf.height \in Range /\ conf.ll \in Range
      /\ conf.lf \in Range /\ conf.ff \in Range /\ conf.fl \in Range
  BY <1>1 DEF ConfRegs
<1>7. /\ px' \in Nat /\ lines' \in Nat /\ quiet' \in Nat \cup {None}
  BY <1>1, <1>3
<1> DEFINE Next4 == gen' \in GenStates /\ gw' \in Range /\ gh' \in Range /\ gb' \in Range
                    /\ Pixels' /\ Rows' /\ Blanks'
<1> SUFFICES Next4
  BY <1>2, <1>4, <1>7 DEF Shape, Typed, GenTypeOK
<1> USE DEF Shape, Pixels, Rows, Blanks, GenStates, LineValid, FrameValid, FirstLine, None
<1>8. CASE GenIdle
  BY <1>1, <1>3, <1>8 DEF GenIdle, BeginFrame
<1>9. CASE GenFrameFrameBlank
  BY <1>1, <1>2, <1>3, <1>5, <1>6, <1>9 DEF GenFrameFrameBlank, Blank, BeginFrame
<1>10. CASE GenFrameLineBlank
  BY <1>1, <1>2, <1>3, <1>5, <1>6, <1>10 DEF GenFrameLineBlank, Blank
<1>11. CASE GenLineLineBlank
  BY <1>1, <1>2, <1>3, <1>5, <1>6, <1>11 DEF GenLineLineBlank, Blank
<1>12. CASE GenLineFrameBlank
  BY <1>1, <1>2, <1>3, <1>5, <1>6, <1>12 DEF GenLineFrameBlank, Blank
<1>13. CASE GenValid
  BY <1>1, <1>2, <1>3, <1>5, <1>6, <1>13 DEF GenValid, LineEnd
<1> QED
  BY <1>8, <1>9, <1>10, <1>11, <1>12, <1>13 DEF GenClock

-----------------------------------------------------------------------------
LEMMA ShapeInvariant == TimingSpec => []Shape
<1>1. TimingInit => Shape
  <2> SUFFICES ASSUME TimingInit PROVE Shape
    OBVIOUS
  <2>1. conf = ConfMin /\ conf \in [ConfRegs -> 0 .. GenSpace - 1]
    BY GenAssumption DEF TimingInit, GenInit, ConfMin
  <2>2. \A r \in ConfRegs : conf[r] >= ConfMin[r]
    BY <2>1 DEF ConfMin
  <2>3. gen = "IDLE" /\ genStart = FALSE /\ genStop = FALSE /\ gw = 0 /\ gh = 0 /\ gb = 0
        /\ px = 0 /\ lines = 0 /\ quiet = None /\ stopped = None
    BY DEF TimingInit, GenInit, None
  <2>4. GenTypeOK
    <3>1. {genStart, genStop} \subseteq BOOLEAN
      BY <2>3
    <3>2. {gw, gh, gb} \subseteq 0 .. GenSpace - 1 /\ gen \in GenStates
      BY <2>3, GenAssumption DEF GenStates
    <3> QED
      BY <2>1, <3>1, <3>2 DEF GenTypeOK
  <2> QED
    BY <2>2, <2>3, <2>4 DEF Shape, Typed, Pixels, Rows, Blanks
<1>2. Shape /\ [TimingNext]_timingVars => Shape'
  <2>1. ASSUME Shape, TimingNext PROVE Shape'
    BY <2>1, ClockKeepsShape DEF TimingNext, Commands
  <2>2. ASSUME Shape, UNCHANGED timingVars PROVE Shape'
    BY <2>2 DEF timingVars, genVars, monitors, Shape, Typed, GenTypeOK, Pixels, Rows, Blanks
  <2> QED
    BY <2>1, <2>2
<1> QED
  BY <1>1, <1>2, PTL DEF TimingSpec

\* Every register of the generator keeps its width and the state machine its
\* states, whatever is written when.
THEOREM TypeCorrect == TimingSpec => []GenTypeOK
BY ShapeInvariant, PTL DEF Shape, Typed

-----------------------------------------------------------------------------
\* What a line and a frame that are not cut short have at their end.
LEMMA EndsInShape ==
  ASSUME Shape, NEW command \in Commands, GenClock, Write(command), Watch(command)
  PROVE  /\ LineValid /\ ~LineValid' /\ ~genStop
              => px + 1 = conf.width /\ PixelNo = lines * conf.width + px
         /\ FrameValid /\ ~FrameValid' /\ ~genStop
              => (IF LineValid THEN lines + 1 ELSE lines) = conf.height
<1>1. /\ gen \in GenStates /\ px \in Nat /\ lines \in Nat
      /\ gh \in Nat /\ gw \in Nat /\ gb \in Nat
      /\ conf.width \in Nat /\ conf.height \in Nat
  BY GenAssumption DEF Shape, Typed, GenTypeOK, ConfRegs
<1>2. ASSUME LineValid, ~LineValid', ~genStop
      PROVE  px + 1 = conf.width /\ PixelNo = lines * conf.width + px
  <2>1. GenValid
    BY <1>2 DEF GenClock, GenIdle, GenFrameFrameBlank, GenFrameLineBlank, GenLineLineBlank,
                GenLineFrameBlank, Blank, LineValid
  <2>2. gw = conf.width /\ gw = px + 1 /\ gh = lines + 1
    BY <1>2, <2>1 DEF GenValid, LineValid, Shape, Pixels, Rows
  <2>3. gh - 1 = lines /\ gw - 1 = px
    BY <1>1, <2>2
  <2> QED
    BY <2>2, <2>3 DEF PixelNo
<1>3. ASSUME FrameValid, ~FrameValid', ~genStop
      PROVE  (IF LineValid THEN lines + 1 ELSE lines) = conf.height
  BY <1>1, <1>3 DEF GenClock, GenIdle, GenFrameFrameBlank, GenFrameLineBlank, GenValid,
     GenLineLineBlank, GenLineFrameBlank, Blank, FirstLine, LineEnd, FrameValid, LineValid,
     GenStates, Shape, Rows
<1> QED
  BY <1>2, <1>3

\* Every line that is not cut short has the pixels that were set, numbered on
\* from the line before, and every frame the lines (VALID, LINE_FRAME_BLANK).
THEOREM FramesInShape == TimingSpec => FrameShape
<1> DEFINE Ends ==
      /\ LineValid /\ ~LineValid' /\ ~genStop
           => px + 1 = conf.width /\ PixelNo = lines * conf.width + px
      /\ FrameValid /\ ~FrameValid' /\ ~genStop
           => (IF LineValid THEN lines + 1 ELSE lines) = conf.height
<1>1. Shape /\ [TimingNext]_timingVars => [Ends]_timingVars
  BY EndsInShape DEF TimingNext, Commands
<1> HIDE DEF Ends
<1>2. TimingSpec => [][Ends]_timingVars
  BY <1>1, ShapeInvariant, PTL DEF TimingSpec
<1> QED
  BY <1>2 DEF FrameShape, Ends

-----------------------------------------------------------------------------
\* The blanks that end when a line begins.
LEMMA BlanksAsSet ==
  ASSUME Shape, NEW command \in Commands, GenClock, Write(command), Watch(command),
         LineValid', ~LineValid, quiet # None
  PROVE  quiet = IF lines = 0 THEN conf.lf + conf.ff + conf.fl ELSE conf.ll
<1>1. /\ gen \in GenStates /\ lines \in Nat /\ gb \in Nat /\ quiet \in Nat
      /\ conf.ll \in Nat /\ conf.lf \in Nat /\ conf.ff \in Nat /\ conf.fl \in Nat
  BY GenAssumption DEF Shape, Typed, GenTypeOK, ConfRegs
<1> USE DEF Shape, Rows, Blanks, LineValid, GenStates
<1>2. CASE GenFrameFrameBlank
  BY <1>1, <1>2 DEF GenFrameFrameBlank, Blank, BeginFrame
<1>3. CASE GenFrameLineBlank
  BY <1>1, <1>3 DEF GenFrameLineBlank, Blank
<1>4. CASE GenLineLineBlank
  BY <1>1, <1>4 DEF GenLineLineBlank, Blank
<1>5. CASE GenIdle \/ GenValid \/ GenLineFrameBlank
  BY <1>1, <1>5 DEF GenIdle, GenValid, GenLineFrameBlank, Blank
<1> QED
  BY <1>2, <1>3, <1>4, <1>5 DEF GenClock

\* Between two lines of a run, and between two frames, there are exactly the
\* blanks that were set, a blank of 0 clocks included.
THEOREM BlanksKept == TimingSpec => Blanking
<1> DEFINE Begins ==
      LineValid' /\ ~LineValid /\ quiet # None
        => quiet = IF lines = 0 THEN conf.lf + conf.ff + conf.fl ELSE conf.ll
<1>1. Shape /\ [TimingNext]_timingVars => [Begins]_timingVars
  BY BlanksAsSet DEF TimingNext, Commands
<1> HIDE DEF Begins
<1>2. TimingSpec => [][Begins]_timingVars
  BY <1>1, ShapeInvariant, PTL DEF TimingSpec
<1> QED
  BY <1>2 DEF Blanking, Begins

-----------------------------------------------------------------------------
\* A stop that was taken idles the generator, and only a start wakes it.
LEMMA StopTaken ==
  ASSUME gen \in GenStates, GenClock
  PROVE  /\ genStop = TRUE /\ gen # "IDLE" => gen' = "IDLE"
         /\ gen = "IDLE" /\ genStart = FALSE => gen' = "IDLE"
BY DEF GenClock, GenIdle, GenFrameFrameBlank, GenFrameLineBlank, GenValid, GenLineLineBlank,
       GenLineFrameBlank, Blank, GenStates

LEMMA ClockKeepsStopping ==
  ASSUME Typed, Stopping, NEW command \in Commands, GenClock, Write(command), Watch(command)
  PROVE  Stopping'
<1>1. /\ gen \in GenStates /\ stopped \in {None, 0, 1, 2} /\ genStart \in BOOLEAN
  BY DEF Typed, GenTypeOK
<1>2. CASE command = "STOP"
  <2>1. stopped' = IF genStart THEN None ELSE 0
    BY <1>2 DEF Watch
  <2>2. genStart' = FALSE /\ genStop' = (gen # "IDLE")
    BY <1>2 DEF Write, GenCommand
  <2>3. genStart = FALSE /\ gen = "IDLE" => gen' = "IDLE"
    BY <1>1, StopTaken
  <2>4. CASE genStart
    BY <2>1, <2>4 DEF Stopping
  <2>5. CASE ~genStart
    BY <1>1, <2>1, <2>2, <2>3, <2>5 DEF Stopping, None
  <2> QED
    BY <2>4, <2>5
<1>3. CASE command = "START"
  BY <1>3 DEF Watch, Stopping
<1>4. CASE command \in {"NONE", "CONFIGURE"}
  <2>1. genStart' = FALSE
    BY <1>4 DEF Write, GenNoWrite, GenConfigure
  <2>2. stopped' # None => stopped # None
    BY <1>4 DEF Watch
  <2>3. stopped # None => gen' = "IDLE"
    BY <1>1, StopTaken DEF Stopping
  <2> QED
    BY <2>1, <2>2, <2>3 DEF Stopping
<1> QED
  BY <1>2, <1>3, <1>4 DEF Commands

\* Two clocks after a STOP that did not meet a START the generator is idle, in
\* whatever state and at whatever count the STOP came.
THEOREM StopsIdle == TimingSpec => []StopIdles
<1>1. TimingInit => Stopping
  BY DEF TimingInit, Stopping
<1>2. Shape /\ Stopping /\ [TimingNext]_timingVars => Stopping'
  <2>1. ASSUME Shape, Stopping, TimingNext PROVE Stopping'
    BY <2>1, ClockKeepsStopping DEF TimingNext, Commands, Shape
  <2>2. ASSUME Stopping, UNCHANGED timingVars PROVE Stopping'
    BY <2>2 DEF timingVars, genVars, monitors, Stopping
  <2> QED
    BY <2>1, <2>2
<1>3. Stopping => StopIdles
  BY DEF Stopping, StopIdles, None
<1> QED
  BY <1>1, <1>2, <1>3, ShapeInvariant, PTL DEF TimingSpec
=============================================================================
