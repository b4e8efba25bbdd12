--------------------------- MODULE CamCaptureProofs ---------------------------
(***************************************************************************)
(* For sensors of every format that the sampler can follow, pictures of    *)
(* every size, and software that starts and stops sensor and capture at    *)
(* any clock: the words of a picture are those of one frame, in order,     *)
(* each of its own four pixels, and a picture that ends without an error   *)
(* has all of them, for as many pairs of rows as its frame had to give.    *)
(* Undisturbed, and with frames that hold the picture, the sampler is the  *)
(* PictureSource that the camera controller relies on.                     *)
(***************************************************************************)
EXTENDS CamCapture, TLAPS

Cols == conf.width
Rows == conf.height

\* The formats the sampler can follow: between two rows and between two frames
\* it has the clocks it needs, a row fits its line FIFO and has whole words, or
\* more pixels than the picture; its counters can hold the picture.
Followed ==
  /\ \A f \in Formats :
       /\ f \in [ConfRegs -> 0 .. GenSpace - 1]
       /\ f.width >= 2 /\ f.height >= 1 /\ f.ff >= 1 /\ f.fl >= 1 /\ f.ll >= 2
       /\ f.width <= LineDepth
       /\ f.width % 2 = 0 \/ 2 * Width <= f.width
  /\ Height < RowSpace /\ Width < WidthSpace

-----------------------------------------------------------------------------
(* Sensor and synchroniser *)

Sensor ==
  /\ conf \in Formats /\ gen \in GenStates /\ parity \in {0, 1}
  /\ gw \in 0 .. GenSpace - 1 /\ gh \in 0 .. GenSpace - 1 /\ gb \in 0 .. GenSpace - 1
  /\ gen = "VALID" => gw \in 1 .. Cols /\ gh \in 1 .. Rows
  /\ gen = "LINE_LINE_BLANK" => gb \in 1 .. conf.ll /\ gh \in 1 .. Rows - 1
  /\ gen = "LINE_FRAME_BLANK" => gb \in 1 .. conf.lf
  /\ gen = "FRAME_FRAME_BLANK" => gb \in 1 .. conf.ff
  /\ gen = "FRAME_LINE_BLANK" => gb \in 1 .. conf.fl

\* The synchroniser holds what the sensor put out one clock ago.
Synced ==
  /\ sf \in BOOLEAN /\ sl \in BOOLEAN /\ (sl => sf)
  /\ gen = "VALID" =>
       sf /\ (sl <=> gw > 1) /\ (sl => sd = <<parity, PixelNo - 1>>)
  /\ gen = "LINE_LINE_BLANK" =>
       sf /\ (sl <=> gb = 1) /\ (sl => sd = <<parity, gh * Cols - 1>>)
  /\ gen = "LINE_FRAME_BLANK" =>
       sf /\ (sl <=> gb = 1) /\ (sl => sd = <<parity, gh * Cols - 1>>)
  /\ gen = "FRAME_FRAME_BLANK" => (sf <=> gb = 1)
  /\ gen = "FRAME_LINE_BLANK" => ~sl /\ (sf <=> gb > 1)

\* The pixel that the state machine looks at is number c of row r, the next
\* one stands at the synchroniser.
InRow(r, c) ==
  /\ c \in 0 .. Cols - 1 /\ pixel = <<parity, r * Cols + c>>
  /\ sl => c + 1 < Cols /\ sd = <<parity, r * Cols + c + 1>>
  /\ ~sl /\ sf => c = Cols - 1
  /\ gen = "VALID" => sl
  /\ gen \in {"VALID", "LINE_LINE_BLANK", "LINE_FRAME_BLANK"} => gh = r + 1
  /\ gen = "FRAME_LINE_BLANK" => ~sf

\* Between two rows, row r is the next one unless the frame is over.
Between(r) ==
  /\ sl => sd = <<parity, r * Cols>>
  /\ gen = "VALID" => gh = r + 1 /\ gw <= 2
  /\ gen = "LINE_LINE_BLANK" => gh = r /\ ~sl
  /\ gen \in {"LINE_FRAME_BLANK", "FRAME_FRAME_BLANK"} => ~sl
  /\ gen = "FRAME_LINE_BLANK" => r = 0 \/ ~sf

\* The first clock of a frame.
FrameStarts ==
  sf => /\ ~sl
        /\ \/ gen \in {"FRAME_LINE_BLANK", "IDLE"}
           \/ gen = "VALID" /\ gh = 1 /\ gw = 1

-----------------------------------------------------------------------------
(* The converter *)

Given == IF voReg THEN wordNo + 1 ELSE wordNo
\* Words whose four pixels are together
Made == IF vReg THEN Given + 1 ELSE Given

\* Pixels before this pair of rows, and words
Above == 2 * (rowPairs - 1) * Cols
Base == (rowPairs - 1) * RowWords

\* The line FIFO holds the row above from pixel c on.
Line(c) == \A n \in 1 .. Len(lineFifo) : lineFifo[n] = <<parity, Above + c + (n - 1)>>

\* Row 2 with pixel c at the converter.
Scanned(c) ==
  /\ conv = "IDLE" => c = 0 /\ Made = Base
  /\ conv = "WR_1" => /\ c = 2 * pixCount + 1 /\ pixCount < RowWords /\ Made = Base + pixCount
                      /\ lineOut = <<parity, Above + 2 * pixCount>>
                      /\ dataReg = <<parity, Above + Cols + 2 * pixCount>>
  /\ conv = "WR_2" => /\ c = 2 * pixCount /\ pixCount \in 1 .. RowWords
                      /\ Made = Base + pixCount - 1
  /\ conv \in {"CLR", "BLANK"} => c > 2 * Width /\ Made = Base + RowWords
  /\ conv \in {"IDLE", "WR_1", "WR_2"} => Len(lineFifo) = Cols - c /\ Line(c)
  /\ conv = "BLANK" => lineFifo = <<>>

\* After row 2: the last word of the pair comes through.
Flushing ==
  /\ conv \in {"WR_2", "CLR", "BLANK", "IDLE"}
  /\ Made = IF conv = "WR_2" THEN rowPairs * RowWords - 1 ELSE rowPairs * RowWords
  /\ conv \in {"IDLE", "BLANK"} => lineFifo = <<>>

Rest == {"IDLE", "SNAPSHOT", "WAIT_F_NEW", "WAIT_F_END"}
InPicture ==
  \/ fsm \in {"R_ROW_1", "WAIT_L_NEW_2", "R_ROW_2", "BLANK"}
  \/ fsm = "WAIT_L_NEW_1" /\ rowPairs # 0

Sampling ==
  /\ fsm = "R_ROW_1" =>
       /\ rowPairs \in 1 .. Height /\ InRow(2 * (rowPairs - 1), Len(lineFifo)) /\ Line(0)
       /\ conv = "IDLE" /\ Made = Base
  /\ fsm = "WAIT_L_NEW_2" =>
       /\ rowPairs \in 1 .. Height /\ Between(2 * (rowPairs - 1) + 1) /\ Line(0)
       /\ conv = "IDLE" /\ Made = Base /\ Len(lineFifo) = Cols
  /\ fsm = "R_ROW_2" =>
       /\ rowPairs \in 1 .. Height
       /\ \E c \in 0 .. Cols - 1 : InRow(2 * (rowPairs - 1) + 1, c) /\ Scanned(c)
  /\ fsm = "WAIT_L_NEW_1" /\ rowPairs # 0 =>
       /\ rowPairs \in 1 .. Height - 1 /\ Between(2 * rowPairs)
       /\ Flushing /\ (sl => conv \in {"CLR", "IDLE"})
  /\ fsm = "WAIT_L_NEW_1" /\ rowPairs = 0 =>
       Between(0) /\ conv = "IDLE" /\ lineFifo = <<>>
  /\ fsm = "BLANK" => rowPairs = Height /\ Flushing
  /\ fsm \in {"WAIT_F_NEW", "WAIT_F_END"} =>
       conv \in {"CLR", "IDLE"} /\ (conv = "IDLE" => lineFifo = <<>>)

Pixels == {0, 1} \X Int
Typed ==
  /\ lineFifo \in Seq(Pixels) /\ pixel \in Pixels /\ sd \in Pixels
  /\ wordNo \in Nat /\ rowPairs \in Nat /\ pixCount \in Nat
  /\ {voReg, vReg, flawed, start, snapshot} \subseteq BOOLEAN
  /\ colours = [x \in Colours |-> colours[x]]
  /\ fsm \in FsmStates /\ conv \in ConverterStates /\ err \in BOOLEAN

Control ==
  /\ fsm = "WAIT_F_NEW" => FrameStarts
  /\ fsm \in Rest => conv \in {"WR_2", "CLR", "IDLE"}
  /\ (vReg => conv \in {"WR_1", "CLR"}) /\ (conv = "CLR" => vReg)
  /\ err => flawed
  /\ InPicture => (flawed <=> err)
  /\ ~err => Sampling

\* A word on its way to the output has its own four pixels.
Stages ==
  /\ conv = "WR_2" => \E p \in {0, 1} : /\ colours.g1 = Word(p, Made).g1 /\ colours.b = Word(p, Made).b
                                        /\ lineOut = Word(p, Made).r /\ dataReg = Word(p, Made).g2
  /\ vReg => \E p \in {0, 1} : colours = Word(p, Given)
  /\ voReg => \E p \in {0, 1} : out = Word(p, wordNo)

\* The rows of the picture are rows of the frame, and a frame that ends after
\* a pair of rows without a stop of the sensor has ended with these.
Over == {"LINE_FRAME_BLANK", "FRAME_FRAME_BLANK", "FRAME_LINE_BLANK"}
PairsReached ==
  /\ fsm \in {"R_ROW_2", "BLANK", "WAIT_L_NEW_1"} => 2 * rowPairs <= Rows
  /\ fsm = "R_ROW_2" /\ gen = "FRAME_FRAME_BLANK" /\ sf => 2 * rowPairs = Rows
  /\ fsm = "WAIT_L_NEW_1" /\ rowPairs # 0 /\ gen \in Over => 2 * rowPairs = Rows
Reached ==
  /\ sl => sd[2] < Rows * Cols
  /\ gen = "IDLE" /\ genStart => ~sf
  /\ gen = "LINE_FRAME_BLANK" => gh = Rows
  /\ ~err => PairsReached

\* After a picture without an error, until the next one begins.
Ended ==
  pairs # 0 => /\ ~InPicture /\ ~err
               /\ Made = IF conv = "WR_2" THEN pairs * RowWords - 1 ELSE pairs * RowWords
               /\ pairs \in 1 .. Height /\ pairs <= FramePairs
               /\ entire => pairs = FramePairs

-----------------------------------------------------------------------------
(* Numbers *)

LEMMA ModSmall == ASSUME NEW b \in Nat \ {0}, NEW a \in 0 .. b - 1
                  PROVE  a % b = a
OBVIOUS

\* Word q of row pair k is word k * R + q of the picture.
LEMMA RowOfWord ==
  ASSUME NEW R \in Nat \ {0}, NEW k \in Nat, NEW q \in 0 .. R - 1
  PROVE  (k * R + q) \div R = k /\ (k * R + q) % R = q
OBVIOUS

\* Counting on stays below a bound that is itself in the counter's width.
LEMMA UpIs ==
  ASSUME NEW m \in 0 .. GenSpace - 1, NEW n \in 0 .. m - 1
  PROVE  Up(n) = n + 1
BY GenAssumption DEF Up

LEMMA FormatTyped ==
  ASSUME Followed, conf \in Formats
  PROVE  /\ Cols \in 2 .. GenSpace - 1 /\ Rows \in 1 .. GenSpace - 1
         /\ conf.ff \in 1 .. GenSpace - 1 /\ conf.fl \in 1 .. GenSpace - 1
         /\ conf.ll \in 2 .. GenSpace - 1 /\ conf.lf \in 0 .. GenSpace - 1
         /\ Cols <= LineDepth /\ (Cols % 2 = 0 \/ 2 * Width <= Cols)
         /\ Height \in Nat \ {0} /\ Width \in Nat \ {0} /\ LineDepth \in Nat
         /\ GenSpace \in Nat
         /\ conf \in [ConfRegs -> 0 .. GenSpace - 1]
BY GenAssumption, CaptureAssumption, ConverterAssumption DEF Followed, Cols, Rows, ConfRegs

LEMMA RowWordsTyped ==
  ASSUME Followed, conf \in Formats
  PROVE  /\ RowWords \in 1 .. Width
         /\ 2 * RowWords <= Cols
         /\ RowWords # Width => 2 * RowWords = Cols
<1>1. /\ Cols \in Nat /\ Cols >= 2 /\ Width \in Nat /\ Width >= 1
      /\ Cols % 2 = 0 \/ 2 * Width <= Cols
  BY FormatTyped
<1>2. RowWords = IF 2 * Width <= Cols THEN Width ELSE Cols \div 2
  BY DEF RowWords, Cols
<1>3. CASE 2 * Width <= Cols
  BY <1>1, <1>2, <1>3
<1>4. CASE ~(2 * Width <= Cols)
  <2>1. Cols = 2 * (Cols \div 2) /\ Cols \div 2 \in Nat
    BY <1>1, <1>4
  <2> QED
    BY <1>1, <1>2, <1>4, <2>1
<1> QED
  BY <1>3, <1>4

\* The four pixels of a word, by pair of rows and column.
LEMMA WordAt ==
  ASSUME Followed, conf \in Formats, NEW p, NEW k \in Nat, NEW q \in 0 .. RowWords - 1
  PROVE  LET top == 2 * k * Cols + 2 * q
         IN  Word(p, k * RowWords + q) =
               [g1 |-> <<p, top>>, r |-> <<p, top + 1>>,
                b |-> <<p, top + Cols>>, g2 |-> <<p, top + Cols + 1>>]
<1>1. RowWords \in Nat \ {0}
  BY RowWordsTyped, FormatTyped
<1>2. (k * RowWords + q) \div RowWords = k /\ (k * RowWords + q) % RowWords = q
  BY <1>1, RowOfWord
<1> QED
  BY <1>2 DEF Word, Cols

LEMMA SameColours ==
  ASSUME NEW f, f = [x \in Colours |-> f[x]], NEW a, NEW b, NEW c, NEW d,
         f.g1 = a, f.r = b, f.b = c, f.g2 = d
  PROVE  f = [g1 |-> a, r |-> b, b |-> c, g2 |-> d]
BY DEF Colours

-----------------------------------------------------------------------------
(* Sensor and synchroniser step by step *)

SensorClock ==
  /\ GenClock /\ conf' = conf
  /\ sf' = FrameValid /\ sl' = LineValid /\ sd' = PixelOut
  /\ parity' = IF ~LineValid /\ LineValid' /\ gh' = 1 THEN 1 - parity ELSE parity

LEMMA SensorPart == ASSUME PixClk PROVE SensorClock
BY DEF PixClk, SensorClock, GenNoWrite, GenCommand, SamplerClock, SyncClock, Watch

\* What a clock does to the sensor, by the state it was in.
SensorMoves ==
  /\ gen = "IDLE" => gen' \in {"IDLE", "FRAME_LINE_BLANK"} /\ (gen' # "IDLE" => gb' = 1)
  /\ gen = "FRAME_FRAME_BLANK" =>
       \/ gen' = "IDLE"
       \/ gen' = "FRAME_LINE_BLANK" /\ gb' = 1
       \/ gen' = gen /\ gb < conf.ff /\ gb' = gb + 1
  /\ gen = "FRAME_LINE_BLANK" =>
       \/ gen' = "IDLE"
       \/ gen' = "VALID" /\ gw' = 1 /\ gh' = 1
       \/ gen' = gen /\ gb < conf.fl /\ gb' = gb + 1
  /\ gen = "LINE_LINE_BLANK" =>
       \/ gen' = "IDLE"
       \/ gen' = "VALID" /\ gb = conf.ll /\ gw' = 1 /\ gh' = gh + 1
       \/ gen' = gen /\ gb < conf.ll /\ gb' = gb + 1 /\ gh' = gh
  /\ gen = "LINE_FRAME_BLANK" =>
       \/ gen' = "IDLE"
       \/ gen' = "FRAME_FRAME_BLANK" /\ gb' = 1
       \/ gen' = gen /\ gb < conf.lf /\ gb' = gb + 1 /\ gh' = gh
  /\ gen = "VALID" =>
       /\ gh' = gh
       /\ \/ gen' = "IDLE"
          \/ gen' = "VALID" /\ gw < Cols /\ gw' = gw + 1
          \/ gen' = "LINE_LINE_BLANK" /\ gw = Cols /\ gh < Rows /\ gb' = 1
          \/ gen' = "LINE_FRAME_BLANK" /\ gw = Cols /\ gh = Rows /\ gb' = 1 /\ conf.lf > 0
          \/ gen' = "FRAME_FRAME_BLANK" /\ gw = Cols /\ gh = Rows /\ gb' = 1 /\ conf.lf = 0

LEMMA SensorMovesSo ==
  ASSUME Followed, Sensor, GenClock
  PROVE  /\ SensorMoves
         /\ gw' \in 0 .. GenSpace - 1 /\ gh' \in 0 .. GenSpace - 1 /\ gb' \in 0 .. GenSpace - 1
<1> DEFINE Range == 0 .. GenSpace - 1
<1>1. /\ Cols \in 2 .. GenSpace - 1 /\ Rows \in 1 .. GenSpace - 1
      /\ conf.ff \in 1 .. GenSpace - 1 /\ conf.fl \in 1 .. GenSpace - 1
      /\ conf.ll \in 2 .. GenSpace - 1 /\ conf.lf \in Range /\ GenSpace \in Nat
  BY FormatTyped DEF Sensor
<1>2. \A n \in Range : Up(n) \in Range /\ \A m \in Range : n < m => Up(n) = n + 1
  <2>1. \A n \in Range : Up(n) \in Range
    BY <1>1, GenAssumption DEF Up
  <2> QED
    BY <2>1, UpIs
<1>3. gw \in Range /\ gh \in Range /\ gb \in Range
  BY DEF Sensor
<1>4. /\ Up(gw) \in Range /\ Up(gh) \in Range /\ Up(gb) \in Range
      /\ \A m \in Range : (gw < m => Up(gw) = gw + 1) /\ (gh < m => Up(gh) = gh + 1)
                            /\ (gb < m => Up(gb) = gb + 1)
  BY <1>2, <1>3
<1> DEFINE Ranges == gw' \in Range /\ gh' \in Range /\ gb' \in Range
<1> USE DEF Sensor, SensorMoves
<1>5. CASE GenIdle
  BY <1>1, <1>3, <1>5 DEF GenIdle, BeginFrame, FirstLine
<1>6. CASE GenFrameFrameBlank
  BY <1>1, <1>3, <1>4, <1>6 DEF GenFrameFrameBlank, Blank, BeginFrame, FirstLine
<1>7. CASE GenFrameLineBlank
  BY <1>1, <1>3, <1>4, <1>7 DEF GenFrameLineBlank, Blank, FirstLine
<1>8. CASE GenLineLineBlank
  BY <1>1, <1>3, <1>4, <1>8 DEF GenLineLineBlank, Blank
<1>9. CASE GenLineFrameBlank
  BY <1>1, <1>3, <1>4, <1>9 DEF GenLineFrameBlank, Blank
<1>10. CASE GenValid
  BY <1>1, <1>3, <1>4, <1>10 DEF GenValid, LineEnd, Cols, Rows
<1> QED
  BY <1>5, <1>6, <1>7, <1>8, <1>9, <1>10 DEF GenClock

\* The number of the pixel that the sensor puts out, by row and column.
LEMMA PixelIs ==
  ASSUME Followed, Sensor, gen = "VALID"
  PROVE  /\ PixelNo \in Int
         /\ \A r \in Int : gh = r + 1 => PixelNo = r * Cols + (gw - 1)
<1>1. Cols \in Int /\ gw \in Int /\ gh \in Int
  BY FormatTyped DEF Sensor
<1>2. (gh - 1) * Cols \in Int
  BY <1>1
<1>3. PixelNo = (gh - 1) * Cols + (gw - 1)
  BY DEF PixelNo, Cols
<1>4. PixelNo \in Int
  BY <1>1, <1>2, <1>3
<1>5. ASSUME NEW r \in Int, gh = r + 1 PROVE PixelNo = r * Cols + (gw - 1)
  <2>1. gh - 1 = r
    BY <1>1, <1>5
  <2> QED
    BY <1>3, <2>1
<1> QED
  BY <1>4, <1>5

LEMMA SensorKept ==
  ASSUME Followed, Sensor, SensorClock
  PROVE  Sensor'
<1>1. SensorMoves /\ gw' \in 0 .. GenSpace - 1 /\ gh' \in 0 .. GenSpace - 1 /\ gb' \in 0 .. GenSpace - 1
  BY SensorMovesSo DEF SensorClock
<1>2. /\ Cols \in 2 .. GenSpace - 1 /\ Rows \in 1 .. GenSpace - 1
      /\ conf.ff \in 1 .. GenSpace - 1 /\ conf.fl \in 1 .. GenSpace - 1
      /\ conf.ll \in 2 .. GenSpace - 1 /\ conf.lf \in 0 .. GenSpace - 1 /\ GenSpace \in Nat
  BY FormatTyped DEF Sensor
<1>3. conf' = conf /\ Cols' = Cols /\ Rows' = Rows
  BY DEF SensorClock, Cols, Rows
<1>4. parity' \in {0, 1}
  BY DEF SensorClock, Sensor
<1>5. gen' \in GenStates
  BY <1>1 DEF SensorMoves, Sensor, GenStates
<1> QED
  BY <1>1, <1>2, <1>3, <1>4, <1>5 DEF Sensor, SensorMoves, GenStates

LEMMA SyncedKept ==
  ASSUME Followed, Sensor, Synced, SensorClock
  PROVE  Synced'
<1>1. SensorMoves
  BY SensorMovesSo DEF SensorClock
<1>2. /\ Cols \in 2 .. GenSpace - 1 /\ Rows \in 1 .. GenSpace - 1
      /\ conf.ff \in 1 .. GenSpace - 1 /\ conf.fl \in 1 .. GenSpace - 1
      /\ conf.ll \in 2 .. GenSpace - 1 /\ conf.lf \in 0 .. GenSpace - 1 /\ GenSpace \in Nat
  BY FormatTyped DEF Sensor
<1>3. /\ Cols' = Cols /\ sf' \in BOOLEAN /\ sl' \in BOOLEAN
      /\ sf' <=> gen \notin {"IDLE", "FRAME_FRAME_BLANK"}
      /\ sl' <=> gen = "VALID"
  BY DEF SensorClock, Cols, FrameValid, LineValid
<1>4. ASSUME gen = "VALID", gen' = "VALID"
      PROVE  parity' = parity /\ sd' = <<parity, PixelNo' - 1>>
  <2>1. PixelNo \in Int /\ PixelNo = (gh - 1) * Cols + (gw - 1) /\ gw' = gw + 1 /\ gh' = gh
    BY <1>1, <1>4, PixelIs DEF SensorMoves, PixelNo, Cols
  <2>2. PixelNo' = (gh - 1) * Cols + (gw + 1 - 1)
    <3>1. PixelNo' = (gh' - 1) * Cols' + (gw' - 1)
      BY DEF PixelNo, Cols
    <3>2. gh' = gh /\ gw' = gw + 1 /\ Cols' = Cols /\ gh \in Int /\ gw \in Int /\ Cols \in Int
      BY <1>2, <1>3, <2>1 DEF Sensor
    <3> QED
      BY <3>1, <3>2
  <2>3. (gh - 1) * Cols \in Int /\ gw \in Int
    BY <1>2 DEF Sensor
  <2>4. PixelNo' - 1 = PixelNo
    BY <2>1, <2>2, <2>3
  <2> QED
    BY <1>4, <2>4 DEF SensorClock, PixelOut, LineValid
<1>5. ASSUME gen = "VALID", gen' \in {"LINE_LINE_BLANK", "LINE_FRAME_BLANK"}
      PROVE  parity' = parity /\ sd' = <<parity, gh' * Cols - 1>>
  <2>1. gw = Cols /\ gh' = gh /\ PixelNo = (gh - 1) * Cols + (gw - 1)
    BY <1>1, <1>5 DEF SensorMoves, PixelNo, Cols
  <2>2. (gh - 1) * Cols = gh * Cols - Cols /\ gh * Cols \in Int
    BY <1>2 DEF Sensor
  <2>3. PixelNo = gh * Cols - 1
    BY <1>2, <2>1, <2>2
  <2> QED
    BY <1>5, <2>1, <2>3 DEF SensorClock, PixelOut, LineValid
<1>6. /\ gen' = "VALID" => sf' /\ (sl' <=> gw' > 1)
      /\ gen' = "LINE_LINE_BLANK" => sf' /\ (sl' <=> gb' = 1)
      /\ gen' = "LINE_FRAME_BLANK" => sf' /\ (sl' <=> gb' = 1)
      /\ gen' = "FRAME_FRAME_BLANK" => (sf' <=> gb' = 1)
      /\ gen' = "FRAME_LINE_BLANK" => ~sl' /\ (sf' <=> gb' > 1)
  <2>1. CASE gen \in {"IDLE", "FRAME_FRAME_BLANK"}
    BY <1>1, <1>2, <1>3, <2>1 DEF Sensor, SensorMoves
  <2>2. CASE gen = "FRAME_LINE_BLANK"
    BY <1>1, <1>2, <1>3, <2>2 DEF Sensor, SensorMoves
  <2>3. CASE gen = "LINE_LINE_BLANK"
    BY <1>1, <1>2, <1>3, <2>3 DEF Sensor, SensorMoves
  <2>4. CASE gen = "LINE_FRAME_BLANK"
    BY <1>1, <1>2, <1>3, <2>4 DEF Sensor, SensorMoves
  <2>5. CASE gen = "VALID"
    BY <1>1, <1>2, <1>3, <2>5 DEF Sensor, SensorMoves
  <2> QED
    BY <2>1, <2>2, <2>3, <2>4, <2>5 DEF Sensor, GenStates
<1> QED
  BY <1>3, <1>4, <1>5, <1>6 DEF Synced

\* Pixels of two frames have different parities; within a frame it stays.
LEMMA SameFrame ==
  ASSUME Followed, Sensor, SensorClock, gen # "FRAME_LINE_BLANK" \/ gen' # "VALID"
  PROVE  parity' = parity
<1>1. SensorMoves
  BY SensorMovesSo DEF SensorClock
<1>2. ~(gen # "VALID" /\ gen' = "VALID" /\ gh' = 1)
  BY <1>1 DEF Sensor, SensorMoves, GenStates
<1> QED
  BY <1>2 DEF SensorClock, LineValid

\* What the pixel at the sensor is for one at the synchroniser.
LEMMA SensorAhead ==
  ASSUME Followed, Sensor, Synced, SensorClock
  PROVE  /\ Cols \in Int /\ Cols >= 2 /\ Cols' = Cols
         /\ sl \in BOOLEAN /\ sf \in BOOLEAN /\ sl' \in BOOLEAN /\ sf' \in BOOLEAN
         /\ (sl' <=> gen = "VALID") /\ (sf' <=> gen \notin {"IDLE", "FRAME_FRAME_BLANK"})
         /\ gen = "VALID" => \A r \in Int : gh = r + 1 => sd' = <<parity, r * Cols + (gw - 1)>>
         /\ gen = "VALID" => sd' = <<parity, PixelNo>>
<1>1. Cols \in Int /\ Cols >= 2 /\ Cols' = Cols
  BY FormatTyped DEF Sensor, SensorClock, Cols
<1>2. sd' = PixelOut /\ (sl' = LineValid) /\ (sf' = FrameValid)
  BY DEF SensorClock
<1>3. gen = "VALID" => sd' = <<parity, PixelNo>>
  BY <1>2 DEF PixelOut, LineValid
<1>4. gen = "VALID" => \A r \in Int : gh = r + 1 => sd' = <<parity, r * Cols + (gw - 1)>>
  BY <1>3, PixelIs
<1> QED
  BY <1>1, <1>2, <1>3, <1>4 DEF LineValid, FrameValid, Synced

\* A pixel further in the row.
LEMMA RowGoesOn ==
  ASSUME Followed, Sensor, Synced, SensorClock, NEW r \in Nat, NEW c, InRow(r, c), sl, pixel' = sd
  PROVE  InRow(r, c + 1)' /\ parity' = parity
<1>1. SensorMoves
  BY SensorMovesSo DEF SensorClock
<1>2. /\ Cols \in Int /\ Cols >= 2 /\ Cols' = Cols /\ r * Cols \in Int
      /\ sl' \in BOOLEAN /\ sf' \in BOOLEAN
      /\ (sl' <=> gen = "VALID") /\ (sf' <=> gen \notin {"IDLE", "FRAME_FRAME_BLANK"})
      /\ gen = "VALID" /\ gh = r + 1 => sd' = <<parity, r * Cols + (gw - 1)>>
  BY SensorAhead
<1>3. parity' = parity
  BY SameFrame DEF Synced
<1>4. /\ c \in Int /\ c >= 0 /\ c + 1 < Cols /\ sd = <<parity, r * Cols + c + 1>>
      /\ gen \in {"VALID", "LINE_LINE_BLANK", "LINE_FRAME_BLANK"} => gh = r + 1
  BY <1>2 DEF InRow
<1>5. ASSUME gen = "VALID" PROVE gw = c + 3 /\ gw <= Cols /\ sd' = <<parity, r * Cols + (c + 2)>>
  <2>1. sd = <<parity, PixelNo - 1>> /\ PixelNo = r * Cols + (gw - 1)
    BY <1>4, <1>5, PixelIs DEF Synced
  <2>2. gw \in Int /\ gw <= Cols
    BY <1>2, <1>5 DEF Sensor
  <2>3. r * Cols + (gw - 1) - 1 = r * Cols + c + 1
    <3>1. PixelNo - 1 = r * Cols + c + 1
      BY <1>4, <2>1
    <3> QED
      BY <1>2, <1>4, <2>1, <2>2, <3>1
  <2>4. gw = c + 3
    BY <1>2, <1>4, <2>2, <2>3
  <2>5. gw - 1 = c + 2
    BY <1>4, <2>4
  <2> QED
    BY <1>2, <1>4, <1>5, <2>2, <2>4, <2>5
<1>6. ASSUME gen \in {"LINE_LINE_BLANK", "LINE_FRAME_BLANK"} PROVE c + 1 = Cols - 1
  <2>1. r * Cols + c + 1 = gh * Cols - 1 /\ gh = r + 1
    BY <1>4, <1>6 DEF Synced
  <2>2. (r + 1) * Cols = r * Cols + Cols
    BY <1>2
  <2> QED
    BY <1>2, <1>4, <2>1, <2>2
<1>7. sl' => c + 1 + 1 < Cols /\ sd' = <<parity, r * Cols + (c + 1) + 1>>
  <2>1. r * Cols + (c + 2) = r * Cols + (c + 1) + 1
    BY <1>2, <1>4
  <2> QED
    BY <1>2, <1>4, <1>5, <2>1
<1>8. ~sl' /\ sf' => c + 1 = Cols - 1
  BY <1>2, <1>6 DEF Synced, Sensor, GenStates
<1>9. /\ gen' = "VALID" => sl'
      /\ gen' \in {"VALID", "LINE_LINE_BLANK", "LINE_FRAME_BLANK"} => gh' = r + 1
      /\ gen' = "FRAME_LINE_BLANK" => ~sf'
  <2>1. gen = "LINE_LINE_BLANK" => gb = 1 /\ conf.ll >= 2
    BY FormatTyped DEF Synced, Sensor
  <2>2. gen # "FRAME_LINE_BLANK"
    BY DEF Synced
  <2> QED
    BY <1>1, <1>2, <1>4, <2>1, <2>2 DEF SensorMoves, Sensor, GenStates
<1>10. pixel' = <<parity, r * Cols + (c + 1)>> /\ c + 1 \in 0 .. Cols - 1
  <2>1. r * Cols + (c + 1) = r * Cols + c + 1
    BY <1>2, <1>4
  <2> QED
    BY <1>2, <1>4, <2>1
<1> QED
  BY <1>2, <1>3, <1>7, <1>8, <1>9, <1>10 DEF InRow

\* The row is over, and the frame is not yet.
LEMMA RowOver ==
  ASSUME Followed, Sensor, Synced, SensorClock, NEW r \in Nat, NEW c, InRow(r, c), ~sl, sf
  PROVE  Between(r + 1)' /\ parity' = parity /\ c = Cols - 1 /\ ~sl'
<1>1. SensorMoves
  BY SensorMovesSo DEF SensorClock
<1>2. /\ sl' \in BOOLEAN /\ sf' \in BOOLEAN /\ Cols \in Int /\ r + 1 # 0
      /\ (sl' <=> gen = "VALID") /\ (sf' <=> gen \notin {"IDLE", "FRAME_FRAME_BLANK"})
  BY SensorAhead
<1>3. gen # "VALID" /\ gen # "FRAME_LINE_BLANK" /\ c = Cols - 1
      /\ (gen = "LINE_LINE_BLANK" => gh = r + 1)
  BY DEF InRow
<1>4. parity' = parity
  BY <1>3, SameFrame
<1>5. ~sl'
  BY <1>2, <1>3
<1>6. /\ gen' = "VALID" => gh' = r + 1 + 1 /\ gw' <= 2
      /\ gen' = "LINE_LINE_BLANK" => gh' = r + 1
      /\ gen' = "FRAME_LINE_BLANK" => ~sf'
  BY <1>1, <1>2, <1>3 DEF SensorMoves, Sensor, GenStates
<1> QED
  BY <1>3, <1>4, <1>5, <1>6 DEF Between

\* The next row has not begun.
LEMMA StillBetween ==
  ASSUME Followed, Sensor, Synced, SensorClock, NEW r \in Nat, Between(r), ~sl, sf
  PROVE  Between(r)' /\ (r # 0 => parity' = parity)
<1>1. SensorMoves
  BY SensorMovesSo DEF SensorClock
<1>2. /\ sl' \in BOOLEAN /\ sf' \in BOOLEAN /\ Cols \in Int /\ Cols >= 2 /\ Cols' = Cols
      /\ (sl' <=> gen = "VALID") /\ (sf' <=> gen \notin {"IDLE", "FRAME_FRAME_BLANK"})
      /\ gen = "VALID" /\ gh = r + 1 => sd' = <<parity, r * Cols + (gw - 1)>>
  BY SensorAhead
<1>3. gen = "VALID" => gw = 1 /\ gh = r + 1
  BY DEF Between, Synced, Sensor
<1>4. gen = "FRAME_LINE_BLANK" => r = 0
  BY DEF Between
<1>5. r # 0 \/ gen = "VALID" => parity' = parity
  BY <1>4, SameFrame
<1>6. gen = "VALID" => sd' = <<parity', r * Cols>>
  <2>1. r * Cols + (1 - 1) = r * Cols
    BY <1>2
  <2> QED
    BY <1>2, <1>3, <1>5, <2>1
<1>7. /\ gen' = "VALID" => gh' = r + 1 /\ gw' <= 2
      /\ gen' = "LINE_LINE_BLANK" => gh' = r /\ gen # "VALID"
      /\ gen' \in {"LINE_FRAME_BLANK", "FRAME_FRAME_BLANK"} => gen # "VALID"
      /\ gen' = "FRAME_LINE_BLANK" => r = 0 \/ ~sf'
  BY <1>1, <1>2, <1>3, <1>4 DEF Between, SensorMoves, Sensor, GenStates
<1> QED
  BY <1>2, <1>5, <1>6, <1>7 DEF Between

\* The next row begins.
LEMMA RowBegins ==
  ASSUME Followed, Sensor, Synced, SensorClock, NEW r \in Nat, Between(r), sl, pixel' = sd
  PROVE  InRow(r, 0)' /\ parity' = parity
<1>1. SensorMoves
  BY SensorMovesSo DEF SensorClock
<1>2. /\ sl' \in BOOLEAN /\ sf' \in BOOLEAN /\ Cols \in Int /\ Cols >= 2 /\ Cols' = Cols
      /\ (sl' <=> gen = "VALID") /\ (sf' <=> gen \notin {"IDLE", "FRAME_FRAME_BLANK"})
      /\ gen = "VALID" /\ gh = r + 1 => sd' = <<parity, r * Cols + (gw - 1)>>
      /\ r * Cols \in Int
  BY SensorAhead
<1>3. /\ gen \in {"VALID", "IDLE"} /\ sd = <<parity, r * Cols>>
      /\ gen = "VALID" => gh = r + 1 /\ gw = 2
  BY DEF Between, Synced, Sensor, GenStates
<1>4. parity' = parity
  BY <1>3, SameFrame
<1>5. sl' => 0 + 1 < Cols /\ sd' = <<parity, r * Cols + 0 + 1>>
  <2>1. r * Cols + (2 - 1) = r * Cols + 0 + 1
    BY <1>2
  <2> QED
    BY <1>2, <1>3, <2>1
<1>6. /\ gen' = "VALID" => sl'
      /\ gen' \in {"VALID", "LINE_LINE_BLANK", "LINE_FRAME_BLANK"} => gh' = r + 1
      /\ gen' = "FRAME_LINE_BLANK" => ~sf'
      /\ ~sl' => ~sf'
  BY <1>1, <1>2, <1>3 DEF SensorMoves
<1>7. pixel' = <<parity, r * Cols + 0>> /\ 0 \in 0 .. Cols - 1
  BY <1>2, <1>3
<1> QED
  BY <1>2, <1>4, <1>5, <1>6, <1>7 DEF InRow

\* A frame begins after a clock without one.
LEMMA FrameBegins ==
  ASSUME Followed, Sensor, Synced, SensorClock, ~sf
  PROVE  FrameStarts'
<1>1. SensorMoves
  BY SensorMovesSo DEF SensorClock
<1>2. /\ (sl' <=> gen = "VALID") /\ (sf' <=> gen \notin {"IDLE", "FRAME_FRAME_BLANK"})
  BY SensorAhead
<1>3. gen \in {"IDLE", "FRAME_FRAME_BLANK", "FRAME_LINE_BLANK"}
  BY DEF Synced, Sensor, GenStates
<1> QED
  BY <1>1, <1>2, <1>3 DEF FrameStarts, SensorMoves

\* In the first clock of a frame its first row is still to come.
LEMMA FrameBegun ==
  ASSUME Followed, Sensor, Synced, SensorClock, FrameStarts, sf
  PROVE  Between(0)'
<1>1. SensorMoves
  BY SensorMovesSo DEF SensorClock
<1>2. /\ sl' \in BOOLEAN /\ sf' \in BOOLEAN /\ Cols \in Int /\ Cols >= 2 /\ Cols' = Cols
      /\ (sl' <=> gen = "VALID") /\ (sf' <=> gen \notin {"IDLE", "FRAME_FRAME_BLANK"})
      /\ gen = "VALID" /\ gh = 0 + 1 => sd' = <<parity, 0 * Cols + (gw - 1)>>
  BY SensorAhead
<1>3. /\ gen \in {"FRAME_LINE_BLANK", "IDLE", "VALID"}
      /\ gen = "VALID" => gh = 1 /\ gw = 1
  BY DEF FrameStarts
<1>4. gen = "VALID" => sd' = <<parity, 0>> /\ parity' = parity /\ 0 * Cols = 0
  <2>1. 0 * Cols + (1 - 1) = 0 /\ 0 * Cols = 0
    BY <1>2
  <2> QED
    BY <1>2, <1>3, <2>1, SameFrame
<1>5. /\ gen' = "VALID" => gh' = 0 + 1 /\ gw' <= 2
      /\ gen' \notin {"LINE_LINE_BLANK", "LINE_FRAME_BLANK", "FRAME_FRAME_BLANK"}
  BY <1>1, <1>2, <1>3 DEF SensorMoves
<1> QED
  BY <1>2, <1>4, <1>5 DEF Between

-----------------------------------------------------------------------------
(* State machine and converter step by step *)

AfterFrames == {"SNAPSHOT", "WAIT_F_NEW", "IDLE"}

FsmMoves ==
  /\ pixel' = sd
  /\ fsm = "IDLE" =>
       /\ rowPairs' = 0 /\ err' = FALSE
       /\ \/ fsm' \in {"IDLE", "WAIT_F_END"}
          \/ fsm' = "WAIT_F_NEW" /\ ~sf
  /\ fsm = "WAIT_F_END" =>
       /\ rowPairs' = rowPairs /\ err' = err
       /\ \/ fsm' \in {"IDLE", "WAIT_F_END"}
          \/ fsm' = "WAIT_F_NEW" /\ ~sf
  /\ fsm = "WAIT_F_NEW" =>
       /\ rowPairs' = 0 /\ err' = err
       /\ \/ fsm' = "IDLE"
          \/ fsm' = "WAIT_L_NEW_1" /\ sf
          \/ fsm' = fsm /\ ~sf
  /\ fsm = "WAIT_L_NEW_1" =>
       /\ err' = err
       /\ \/ sf /\ sl /\ fsm' = "R_ROW_1" /\ rowPairs' = (rowPairs + 1) % RowSpace
          \/ sf /\ ~sl /\ fsm' = fsm /\ rowPairs' = rowPairs
          \/ ~sf /\ fsm' \in AfterFrames /\ rowPairs' = rowPairs
  /\ fsm \in {"R_ROW_1", "WAIT_L_NEW_2", "R_ROW_2"} =>
       rowPairs' = rowPairs /\ err' \in BOOLEAN /\ (err' <=> err \/ ~sf)
  /\ fsm = "R_ROW_1" => fsm' = IF sl THEN fsm ELSE "WAIT_L_NEW_2"
  /\ fsm = "WAIT_L_NEW_2" => fsm' = IF sl THEN "R_ROW_2" ELSE fsm
  /\ fsm = "R_ROW_2" =>
       fsm' = IF sl THEN fsm ELSE IF rowPairs = Height THEN "BLANK" ELSE "WAIT_L_NEW_1"
  /\ fsm = "BLANK" =>
       /\ rowPairs' = rowPairs /\ err' = err
       /\ \/ sf /\ fsm' = fsm
          \/ ~sf /\ fsm' \in AfterFrames
  /\ fsm = "SNAPSHOT" =>
       rowPairs' = rowPairs /\ err' = err /\ fsm' \in {"SNAPSHOT", "IDLE"}

LEMMA FsmMovesSo ==
  ASSUME Synced, Typed, PixClk
  PROVE  FsmMoves
<1>1. /\ FsmClock(start, snapshot, Height, sf, sl, sd)
      /\ sf \in BOOLEAN /\ sl \in BOOLEAN /\ (sl => sf)
      /\ start \in BOOLEAN /\ snapshot \in BOOLEAN /\ err \in BOOLEAN
  BY DEF PixClk, SamplerClock, Synced, Typed
<1> USE DEF FsmMoves, AfterFrames
<1>2. pixel' = sd
  BY <1>1 DEF FsmClock
<1>3. CASE FsmIdle(start, sf)
  BY <1>1, <1>2, <1>3 DEF FsmIdle
<1>4. CASE FsmWaitFEnd(start, sf)
  BY <1>1, <1>2, <1>4 DEF FsmWaitFEnd
<1>5. CASE FsmWaitFNew(start, sf)
  BY <1>1, <1>2, <1>5 DEF FsmWaitFNew
<1>6. CASE FsmWaitLNew1(start, snapshot, sf, sl)
  BY <1>1, <1>2, <1>6 DEF FsmWaitLNew1, AfterFrame
<1>7. CASE FsmRow1(sf, sl)
  BY <1>1, <1>2, <1>7 DEF FsmRow1
<1>8. CASE FsmWaitLNew2(sf, sl)
  BY <1>1, <1>2, <1>8 DEF FsmWaitLNew2
<1>9. CASE FsmRow2(Height, sf, sl)
  BY <1>1, <1>2, <1>9 DEF FsmRow2
<1>10. CASE FsmBlank(start, snapshot, sf)
  BY <1>1, <1>2, <1>10 DEF FsmBlank, AfterFrame
<1>11. CASE FsmSnapshot(start, snapshot)
  BY <1>1, <1>2, <1>11 DEF FsmSnapshot
<1> QED
  BY <1>1, <1>3, <1>4, <1>5, <1>6, <1>7, <1>8, <1>9, <1>10, <1>11 DEF FsmClock

\* The converter in the second row of a pair, and out of it.
ConvMoves ==
  /\ conv = "IDLE" => conv' = (IF ScanRow2 THEN "WR_1" ELSE "IDLE") /\ pixCount' = 0 /\ colours' = colours
  /\ conv = "WR_1" =>
       /\ conv' = "WR_2" /\ pixCount' = (pixCount + 1) % WidthSpace
       /\ colours'.g1 = lineOut /\ colours'.b = dataReg
  /\ conv = "WR_2" =>
       /\ conv' = (IF ScanRow2 /\ pixCount # Width THEN "WR_1" ELSE "CLR") /\ pixCount' = pixCount
       /\ colours'.g1 = colours.g1 /\ colours'.b = colours.b
       /\ colours'.g2 = dataReg /\ colours'.r = lineOut
  /\ conv = "BLANK" => conv' = (IF ScanRow2 THEN "BLANK" ELSE "IDLE") /\ pixCount' = pixCount /\ colours' = colours
  /\ conv = "CLR" => conv' = (IF ScanRow2 THEN "BLANK" ELSE "IDLE") /\ pixCount' = pixCount /\ colours' = colours
  /\ colours' = [x \in Colours |-> colours'[x]]
  /\ vReg' = (conv = "WR_2") /\ voReg' = vReg
  /\ out' = IF vReg THEN colours ELSE out
  /\ dataReg' = pixel

LEMMA ConvMovesSo ==
  ASSUME Typed, PixClk
  PROVE  ConvMoves
<1>1. ConverterClock(ScanRow1, ScanRow2, pixel, SamplerIdle, Width)
  BY DEF PixClk, SamplerClock
<1>2. vReg' = (conv = "WR_2") /\ voReg' = vReg /\ out' = (IF vReg THEN colours ELSE out) /\ dataReg' = pixel
  BY <1>1 DEF ConverterClock
<1>3. colours = [x \in Colours |-> colours[x]]
  BY DEF Typed
<1> USE DEF ConvMoves
<1>4. CASE ConvIdle(ScanRow2)
  BY <1>2, <1>3, <1>4 DEF ConvIdle
<1>5. CASE ConvWr1
  <2>1. conv = "WR_1" /\ conv' = "WR_2" /\ pixCount' = (pixCount + 1) % WidthSpace
        /\ colours' = [colours EXCEPT !.g1 = lineOut, !.b = dataReg]
    BY <1>5 DEF ConvWr1
  <2>2. colours'.g1 = lineOut /\ colours'.b = dataReg /\ colours' = [x \in Colours |-> colours'[x]]
    BY <1>3, <2>1 DEF Colours
  <2> QED
    BY <1>2, <2>1, <2>2
<1>6. CASE ConvWr2(ScanRow2, Width)
  <2>1. conv = "WR_2" /\ conv' = (IF ScanRow2 /\ pixCount # Width THEN "WR_1" ELSE "CLR")
        /\ pixCount' = pixCount /\ colours' = [colours EXCEPT !.g2 = dataReg, !.r = lineOut]
    BY <1>6 DEF ConvWr2
  <2>2. /\ colours'.g2 = dataReg /\ colours'.r = lineOut /\ colours'.g1 = colours.g1 /\ colours'.b = colours.b
        /\ colours' = [x \in Colours |-> colours'[x]]
    BY <1>3, <2>1 DEF Colours
  <2> QED
    BY <1>2, <2>1, <2>2
<1>7. CASE ConvBlank(ScanRow2)
  BY <1>2, <1>3, <1>7 DEF ConvBlank
<1>8. CASE ConvClr(ScanRow2)
  BY <1>2, <1>3, <1>8 DEF ConvClr
<1> QED
  BY <1>1, <1>4, <1>5, <1>6, <1>7, <1>8 DEF ConverterClock

LEMMA EmptyAfter ==
  ASSUME NEW S, NEW s \in Seq(S)
  PROVE  s \o <<>> = s
OBVIOUS

\* The line FIFO outside of the rows, in the first row, and in the second.
LEMMA LineMoves ==
  ASSUME Typed, PixClk, LineDepth \in Nat
  PROVE  /\ lineFifo' \in Seq(Pixels)
         /\ conv = "CLR" \/ fsm = "IDLE" => lineFifo' = <<>>
         /\ fsm \notin {"R_ROW_1", "R_ROW_2", "IDLE"} /\ conv # "CLR" => lineFifo' = lineFifo
         /\ fsm = "R_ROW_1" /\ conv # "CLR" /\ Len(lineFifo) < LineDepth =>
              lineFifo' = Append(lineFifo, pixel)
         /\ fsm = "R_ROW_2" /\ conv # "CLR" /\ lineFifo = <<>> => lineFifo' = <<>>
         /\ fsm = "R_ROW_2" /\ conv # "CLR" /\ lineFifo # <<>> =>
              lineFifo' = Tail(lineFifo) /\ lineOut' = Head(lineFifo)
<1>1. LineFifo(conv = "CLR" \/ SamplerIdle, ScanRow1, ScanRow2, pixel)
  BY DEF PixClk, SamplerClock, ConverterClock
<1>2. lineFifo \in Seq(Pixels) /\ pixel \in Pixels
  BY DEF Typed
<1> DEFINE read == fsm = "R_ROW_2" /\ lineFifo # <<>>
           left == IF read THEN Tail(lineFifo) ELSE lineFifo
           new == IF fsm = "R_ROW_1" /\ Len(lineFifo) < LineDepth THEN <<pixel>> ELSE <<>>
<1>3. /\ lineFifo' = IF conv = "CLR" \/ fsm = "IDLE" THEN <<>> ELSE left \o new
      /\ lineOut' = IF read THEN Head(lineFifo) ELSE lineOut
  BY <1>1 DEF LineFifo, ScanRow1, ScanRow2, SamplerIdle
<1>4. left \in Seq(Pixels) /\ new \in Seq(Pixels)
  BY <1>2
<1>5. left \o new \in Seq(Pixels) /\ left \o <<>> = left
  BY <1>4, EmptyAfter
<1>6. lineFifo \o <<pixel>> = Append(lineFifo, pixel)
  BY <1>2
<1> HIDE DEF left, new
<1>7. lineFifo' \in Seq(Pixels)
  BY <1>3, <1>5
<1>8. conv = "CLR" \/ fsm = "IDLE" => lineFifo' = <<>>
  BY <1>3
<1>9. CASE fsm \notin {"R_ROW_1", "R_ROW_2", "IDLE"} /\ conv # "CLR"
  <2>1. left = lineFifo /\ new = <<>>
    BY <1>9 DEF left, new
  <2>2. lineFifo' = lineFifo
    BY <1>3, <1>5, <1>9, <2>1
  <2> QED
    BY <1>7, <1>9, <2>2
<1>10. CASE fsm = "R_ROW_1" /\ conv # "CLR"
  <2>1. Len(lineFifo) < LineDepth => left = lineFifo /\ new = <<pixel>>
    BY <1>10 DEF left, new
  <2>2. Len(lineFifo) < LineDepth => lineFifo' = Append(lineFifo, pixel)
    BY <1>3, <1>6, <1>10, <2>1
  <2> QED
    BY <1>7, <1>10, <2>2
<1>11. CASE fsm = "R_ROW_2" /\ conv # "CLR"
  <2>1. new = <<>>
    BY <1>11 DEF new
  <2>2. lineFifo' = left
    BY <1>3, <1>5, <1>11, <2>1
  <2>3. lineFifo = <<>> => left = <<>>
    BY DEF left
  <2>4. lineFifo # <<>> => left = Tail(lineFifo) /\ lineOut' = Head(lineFifo)
    BY <1>3, <1>11 DEF left
  <2> QED
    BY <1>7, <1>11, <2>2, <2>3, <2>4
<1> QED
  BY <1>7, <1>8, <1>9, <1>10, <1>11

\* Counting the words.
LEMMA MadeMoves ==
  ASSUME Typed, PixClk
  PROVE  /\ Given \in Nat /\ Made \in Nat /\ wordNo' \in Nat
         /\ ~PictureBegins => wordNo' = Given /\ Given' = Made
         /\ PictureBegins => wordNo' = 0 /\ Given' = (IF vReg THEN 1 ELSE 0)
         /\ Made' = IF conv = "WR_2" THEN Given' + 1 ELSE Given'
<1>1. wordNo' = IF PictureBegins THEN 0 ELSE IF voReg THEN wordNo + 1 ELSE wordNo
  BY DEF PixClk, Watch
<1>2. voReg' = vReg /\ (vReg' <=> conv = "WR_2")
  BY ConvMovesSo DEF ConvMoves
<1>3. voReg \in BOOLEAN /\ vReg \in BOOLEAN /\ wordNo \in Nat
  BY DEF Typed
<1>4. Given \in Nat /\ Made \in Nat /\ Made = IF vReg THEN Given + 1 ELSE Given
  BY <1>3 DEF Given, Made
<1>5. wordNo' = (IF PictureBegins THEN 0 ELSE Given) /\ wordNo' \in Nat
  BY <1>1, <1>3, <1>4 DEF Given
<1>6. Given' = IF vReg THEN wordNo' + 1 ELSE wordNo'
  BY <1>2, <1>3 DEF Given
<1>7. Made' = IF conv = "WR_2" THEN Given' + 1 ELSE Given'
  BY <1>2 DEF Made
<1>8. ~PictureBegins => wordNo' = Given /\ Given' = Made
  BY <1>4, <1>5, <1>6
<1>9. PictureBegins => wordNo' = 0 /\ Given' = (IF vReg THEN 1 ELSE 0)
  BY <1>3, <1>5, <1>6
<1> QED
  BY <1>4, <1>5, <1>7, <1>8, <1>9

LEMMA TypedKept ==
  ASSUME Followed, Sensor, Synced, Typed, PixClk
  PROVE  Typed'
<1>1. LineDepth \in Nat
  BY FormatTyped DEF Sensor
<1>2. lineFifo' \in Seq(Pixels)
  BY <1>1, LineMoves
<1>3. sd' \in Pixels
  <2>1. PixelOut \in Pixels
    BY PixelIs DEF PixelOut, NoPixel, Pixels, LineValid, Sensor
  <2> QED
    BY <2>1, SensorPart DEF SensorClock
<1>4. pixel' \in Pixels /\ fsm' \in FsmStates /\ err' \in BOOLEAN /\ rowPairs' \in Nat
  <2>1. rowPairs \in Nat /\ (rowPairs + 1) % RowSpace \in Nat
    BY FsmAssumption DEF Typed
  <2>2. FsmMoves
    BY FsmMovesSo
  <2>3. pixel' \in Pixels
    BY <2>2 DEF FsmMoves, Typed
  <2>4. fsm \in FsmStates /\ err \in BOOLEAN
    BY DEF Typed
  <2>5. rowPairs' \in Nat
    BY <2>1, <2>2, <2>4 DEF FsmMoves, FsmStates, AfterFrames
  <2>6. err' \in BOOLEAN
    BY <2>2, <2>4 DEF FsmMoves, FsmStates
  <2>7. fsm' \in FsmStates
    BY <2>2, <2>4 DEF FsmMoves, FsmStates, AfterFrames
  <2> QED
    BY <2>3, <2>5, <2>6, <2>7
<1>5. wordNo' \in Nat
  BY MadeMoves
<1>6. /\ pixCount' \in Nat /\ conv' \in ConverterStates
      /\ colours' = [x \in Colours |-> colours'[x]] /\ vReg' \in BOOLEAN /\ voReg' \in BOOLEAN
  <2>1. (pixCount + 1) % WidthSpace \in Nat
    BY ConverterAssumption DEF Typed
  <2>2. ConvMoves
    BY ConvMovesSo
  <2>3. pixCount' \in Nat /\ conv' \in ConverterStates
    BY <2>1, <2>2 DEF ConvMoves, Typed, ConverterStates
  <2>4. colours' = [x \in Colours |-> colours'[x]]
    BY <2>2, Zenon DEF ConvMoves
  <2>5. vReg' \in BOOLEAN /\ voReg' \in BOOLEAN
    BY <2>2 DEF ConvMoves, Typed
  <2> QED
    BY <2>3, <2>4, <2>5
<1>7. flawed' \in BOOLEAN /\ start' = start /\ snapshot' = snapshot
  BY DEF PixClk, Watch, Typed
<1> QED
  BY <1>2, <1>3, <1>4, <1>5, <1>6, <1>7 DEF Typed

-----------------------------------------------------------------------------
(* The line FIFO and the converter in the rows *)

\* Numbered pixels in a sequence, from its first or up to one more.
LEMMA TailOf ==
  ASSUME NEW S, NEW s \in Seq(S), s # <<>>, NEW p, NEW a \in Int,
         \A n \in 1 .. Len(s) : s[n] = <<p, a + (n - 1)>>
  PROVE  /\ Head(s) = <<p, a>> /\ Len(Tail(s)) = Len(s) - 1
         /\ \A n \in 1 .. Len(Tail(s)) : Tail(s)[n] = <<p, (a + 1) + (n - 1)>>
<1>1. Len(s) \in Nat /\ Len(s) >= 1 /\ Head(s) = s[1] /\ Len(Tail(s)) = Len(s) - 1
  OBVIOUS
<1>2. Head(s) = <<p, a>>
  <2>1. s[1] = <<p, a + (1 - 1)>> /\ a + (1 - 1) = a
    BY <1>1
  <2> QED
    BY <1>1, <2>1
<1>3. ASSUME NEW n \in 1 .. Len(Tail(s)) PROVE Tail(s)[n] = <<p, (a + 1) + (n - 1)>>
  <2>1. Tail(s)[n] = s[n + 1] /\ n + 1 \in 1 .. Len(s)
    BY <1>1
  <2>2. s[n + 1] = <<p, a + (n + 1 - 1)>> /\ a + (n + 1 - 1) = (a + 1) + (n - 1)
    BY <2>1
  <2> QED
    BY <2>1, <2>2
<1> QED
  BY <1>1, <1>2, <1>3

LEMMA AppendOf ==
  ASSUME NEW S, NEW s \in Seq(S), NEW p, NEW a \in Int, <<p, a + Len(s)>> \in S,
         \A n \in 1 .. Len(s) : s[n] = <<p, a + (n - 1)>>
  PROVE  LET t == Append(s, <<p, a + Len(s)>>)
         IN  /\ Len(t) = Len(s) + 1
             /\ \A n \in 1 .. Len(t) : t[n] = <<p, a + (n - 1)>>
<1> DEFINE e == <<p, a + Len(s)>>
           t == Append(s, e)
<1>1. Len(s) \in Nat /\ Len(t) = Len(s) + 1 /\ t[Len(s) + 1] = e
      /\ \A n \in 1 .. Len(s) : t[n] = s[n]
  <2>1. e \in S
    OBVIOUS
  <2> HIDE DEF e
  <2> QED
    BY <2>1
<1>2. a + (Len(s) + 1 - 1) = a + Len(s)
  BY <1>1
<1>3. ASSUME NEW n \in 1 .. Len(t) PROVE t[n] = <<p, a + (n - 1)>>
  <2>1. CASE n = Len(s) + 1
    BY <1>1, <1>2, <2>1
  <2>2. CASE n # Len(s) + 1
    <3>1. n \in 1 .. Len(s)
      BY <1>1, <2>2
    <3> QED
      BY <1>1, <3>1
  <2> QED
    BY <2>1, <2>2
<1> QED
  BY <1>1, <1>3

LEMMA Counted ==
  ASSUME Followed, Sensor, SensorClock, Typed, rowPairs' = rowPairs
  PROVE  /\ Cols \in Nat /\ Cols >= 2 /\ RowWords \in 1 .. Width /\ Width \in Nat
         /\ Above \in Int /\ Base \in Int /\ rowPairs * RowWords = Base + RowWords
         /\ Above + Cols = (2 * (rowPairs - 1) + 1) * Cols
         /\ Cols' = Cols /\ RowWords' = RowWords /\ Above' = Above /\ Base' = Base
<1>1. Cols \in Nat /\ Cols >= 2 /\ RowWords \in 1 .. Width /\ Width \in Nat /\ RowWords \in Nat
  BY FormatTyped, RowWordsTyped DEF Sensor
<1>2. rowPairs \in Nat
  BY DEF Typed
<1>3. (rowPairs - 1) * RowWords = rowPairs * RowWords - RowWords /\ rowPairs * RowWords \in Int
  BY <1>1, <1>2
<1>4. 2 * (rowPairs - 1) \in Int
  BY <1>2
<1>5. (2 * (rowPairs - 1) + 1) * Cols = 2 * (rowPairs - 1) * Cols + Cols /\ 2 * (rowPairs - 1) * Cols \in Int
  BY <1>1, <1>4
<1>6. Base \in Int /\ rowPairs * RowWords = Base + RowWords
  BY <1>1, <1>3 DEF Base
<1>7. Cols' = Cols /\ RowWords' = RowWords
  BY DEF SensorClock, Cols, RowWords
<1>8. Above' = Above /\ Base' = Base
  BY <1>7 DEF Above, Base
<1> QED
  BY <1>1, <1>5, <1>6, <1>7, <1>8 DEF Above

\* A pixel of the second row: the one above it leaves the line FIFO.
LEMMA LineRead ==
  ASSUME Followed, Sensor, SensorClock, Typed, PixClk, rowPairs' = rowPairs, parity' = parity,
         fsm = "R_ROW_2", conv # "CLR", NEW c \in Nat, c < Cols, Len(lineFifo) = Cols - c, Line(c)
  PROVE  Len(lineFifo') = Cols - (c + 1) /\ Line(c + 1)' /\ lineOut' = <<parity, Above + c>>
<1>1. Cols \in Nat /\ Above \in Int /\ Above' = Above
  BY Counted
<1>2. lineFifo \in Seq(Pixels) /\ lineFifo # <<>>
  BY <1>1 DEF Typed
<1>3. lineFifo' = Tail(lineFifo) /\ lineOut' = Head(lineFifo)
  BY <1>2, LineMoves, FormatTyped DEF Sensor
<1>4. PICK a \in Int : a = Above + c
  BY <1>1
<1>5. \A n \in 1 .. Len(lineFifo) : lineFifo[n] = <<parity, a + (n - 1)>>
  BY <1>4 DEF Line
<1>6. /\ Head(lineFifo) = <<parity, a>> /\ Len(Tail(lineFifo)) = Len(lineFifo) - 1
      /\ \A n \in 1 .. Len(Tail(lineFifo)) : Tail(lineFifo)[n] = <<parity, (a + 1) + (n - 1)>>
  BY <1>2, <1>5, TailOf
<1>7. Cols - c - 1 = Cols - (c + 1) /\ a + 1 = Above' + (c + 1)
  BY <1>1, <1>4
<1>8. Len(lineFifo') = Cols - (c + 1)
  BY <1>3, <1>6, <1>7
<1>9. Line(c + 1)'
  BY <1>3, <1>6, <1>7 DEF Line
<1> QED
  BY <1>3, <1>4, <1>6, <1>8, <1>9

\* A pixel of the first row goes into it.
LEMMA LineWritten ==
  ASSUME Followed, Sensor, SensorClock, Typed, PixClk, rowPairs' = rowPairs, parity' = parity,
         fsm = "R_ROW_1", conv # "CLR", NEW c, c = Len(lineFifo), c < Cols, Line(0),
         pixel = <<parity, Above + c>>
  PROVE  Len(lineFifo') = c + 1 /\ Line(0)'
<1>1. Cols \in Nat /\ Above \in Int /\ Above' = Above /\ Cols <= LineDepth /\ LineDepth \in Nat
  BY Counted, FormatTyped DEF Sensor
<1>2. lineFifo \in Seq(Pixels) /\ pixel \in Pixels
  BY DEF Typed
<1>3. Len(lineFifo) < LineDepth
  BY <1>1, <1>2
<1>4. lineFifo' = Append(lineFifo, pixel)
  BY <1>1, <1>3, LineMoves
<1>5. \A n \in 1 .. Len(lineFifo) : lineFifo[n] = <<parity, Above + (n - 1)>>
  BY <1>1 DEF Line
<1>6. <<parity, Above + Len(lineFifo)>> \in Pixels
  BY <1>2
<1>7. LET t == Append(lineFifo, <<parity, Above + Len(lineFifo)>>)
      IN  /\ Len(t) = Len(lineFifo) + 1
          /\ \A n \in 1 .. Len(t) : t[n] = <<parity, Above + (n - 1)>>
  BY <1>1, <1>2, <1>5, <1>6, AppendOf
<1>8. Len(lineFifo') = c + 1
  BY <1>4, <1>7
<1>9. \A n \in 1 .. Len(lineFifo') : lineFifo'[n] = <<parity', Above' + (n - 1)>>
  BY <1>1, <1>4, <1>7
<1>10. Line(0)'
  BY <1>1, <1>9 DEF Line
<1> QED
  BY <1>8, <1>10

\* Pixel c of the second row at the converter: the next one, or the row's end.
LEMMA RowScanned ==
  ASSUME Followed, Sensor, SensorClock, Typed, PixClk, rowPairs' = rowPairs, parity' = parity,
         fsm = "R_ROW_2", NEW c \in Nat, c < Cols, Scanned(c),
         pixel = <<parity, (2 * (rowPairs - 1) + 1) * Cols + c>>
  PROVE  (c + 1 < Cols => Scanned(c + 1)') /\ (c + 1 = Cols => Flushing')
<1>1. /\ Cols \in Nat /\ Cols >= 2 /\ RowWords \in 1 .. Width /\ Width \in Nat
      /\ 2 * RowWords <= Cols /\ (RowWords # Width => 2 * RowWords = Cols)
      /\ Above \in Int /\ Base \in Int /\ rowPairs * RowWords = Base + RowWords
      /\ Cols' = Cols /\ RowWords' = RowWords /\ Above' = Above /\ Base' = Base
      /\ Width < WidthSpace /\ WidthSpace \in Nat
  BY Counted, RowWordsTyped, ConverterAssumption DEF Sensor, Followed
<1>2. ConvMoves /\ ScanRow2
  BY ConvMovesSo DEF ScanRow2
<1>3. Made \in Nat /\ Made' = (IF conv = "WR_2" THEN Made + 1 ELSE Made)
  BY MadeMoves DEF PictureBegins
<1>4. dataReg' = <<parity, Above + Cols + c>>
  <2>1. (2 * (rowPairs - 1) + 1) * Cols + c = Above + Cols + c
    BY Counted
  <2> QED
    BY <1>2, <2>1 DEF ConvMoves
<1>5. conv \in {"IDLE", "WR_1", "WR_2"} =>
        Len(lineFifo') = Cols - (c + 1) /\ Line(c + 1)' /\ lineOut' = <<parity, Above + c>>
  BY LineRead DEF Scanned
<1>6. conv \in {"CLR", "BLANK"} => lineFifo' = <<>>
  BY <1>1, LineMoves, FormatTyped DEF Scanned, Sensor
<1>7. rowPairs' * RowWords' = Base + RowWords
  BY <1>1
<1>8. CASE conv = "IDLE"
  <2>1. c = 0 /\ Made = Base
    BY <1>8 DEF Scanned
  <2>2. conv' = "WR_1" /\ pixCount' = 0
    BY <1>2, <1>8 DEF ConvMoves
  <2>3. c + 1 = 2 * pixCount' + 1 /\ pixCount' < RowWords /\ Made' = Base + pixCount'
    BY <1>1, <1>3, <1>8, <2>1, <2>2
  <2>4. Above + c = Above + 2 * pixCount' /\ Above + Cols + c = Above + Cols + 2 * pixCount'
    BY <1>1, <2>1, <2>2
  <2>5. Scanned(c + 1)'
    BY <1>1, <1>4, <1>5, <1>8, <2>2, <2>3, <2>4 DEF Scanned
  <2>6. c + 1 # Cols
    BY <1>1, <2>1
  <2> QED
    BY <2>5, <2>6
<1>9. CASE conv = "WR_1"
  <2>1. c = 2 * pixCount + 1 /\ pixCount < RowWords /\ Made = Base + pixCount /\ pixCount \in Nat
    BY <1>9 DEF Scanned, Typed
  <2>2. conv' = "WR_2" /\ pixCount' = (pixCount + 1) % WidthSpace
    BY <1>2, <1>9 DEF ConvMoves
  <2>3. pixCount' = pixCount + 1
    <3>1. pixCount + 1 \in 0 .. WidthSpace - 1
      BY <1>1, <2>1
    <3>2. (pixCount + 1) % WidthSpace = pixCount + 1
      BY <1>1, <3>1, ModSmall
    <3> QED
      BY <2>2, <3>2
  <2>4. c + 1 = 2 * pixCount' /\ pixCount' \in 1 .. RowWords /\ Made' = Base + pixCount' - 1
    BY <1>1, <1>3, <1>9, <2>1, <2>3
  <2>5. Scanned(c + 1)'
    BY <1>1, <1>5, <1>9, <2>2, <2>4 DEF Scanned
  <2>6. ASSUME c + 1 = Cols PROVE Flushing'
    <3>1. PICK q \in Int : q = pixCount'
      BY <2>4
    <3>2. q = RowWords
      <4>1. q \in 1 .. RowWords /\ c + 1 = 2 * q
        BY <2>4, <3>1
      <4>2. 2 * q = Cols /\ RowWords \in Nat
        BY <1>1, <2>6, <4>1
      <4> QED
        BY <1>1, <4>1, <4>2
    <3>3. Made' = Base + RowWords - 1
      BY <2>4, <3>1, <3>2
    <3>4. Made' = rowPairs' * RowWords' - 1
      BY <1>1, <1>7, <3>3
    <3> QED
      BY <2>2, <3>4 DEF Flushing
  <2> QED
    BY <2>5, <2>6
<1>10. CASE conv = "WR_2"
  <2>1. c = 2 * pixCount /\ pixCount \in 1 .. RowWords /\ Made = Base + pixCount - 1 /\ pixCount \in Nat
    BY <1>10 DEF Scanned, Typed
  <2>2. /\ conv' = IF pixCount # Width THEN "WR_1" ELSE "CLR"
        /\ pixCount' = pixCount
    BY <1>2, <1>10 DEF ConvMoves
  <2>3. Made' = Base + pixCount
    BY <1>1, <1>3, <1>10, <2>1
  <2>4. CASE pixCount # Width
    <3>1. c + 1 = 2 * pixCount' + 1 /\ pixCount' < RowWords /\ Made' = Base + pixCount'
      BY <1>1, <2>1, <2>2, <2>3, <2>4
    <3>2. lineOut' = <<parity, Above + 2 * pixCount'>> /\ dataReg' = <<parity, Above + Cols + 2 * pixCount'>>
      BY <1>4, <1>5, <1>10, <2>1, <2>2
    <3>3. Scanned(c + 1)'
      BY <1>1, <1>5, <1>10, <2>2, <2>4, <3>1, <3>2 DEF Scanned
    <3>4. c + 1 # Cols
      BY <1>1, <2>1, <2>4
    <3> QED
      BY <3>3, <3>4
  <2>5. CASE pixCount = Width
    <3>1. c + 1 > 2 * Width /\ Made' = Base + RowWords
      BY <1>1, <2>1, <2>3, <2>5
    <3>2. conv' = "CLR"
      BY <2>2, <2>5
    <3> QED
      BY <1>1, <1>7, <3>1, <3>2 DEF Scanned, Flushing
  <2> QED
    BY <2>4, <2>5
<1>11. CASE conv \in {"CLR", "BLANK"}
  <2>1. c > 2 * Width /\ Made = Base + RowWords
    BY <1>11 DEF Scanned
  <2>2. conv' = "BLANK" /\ lineFifo' = <<>>
    BY <1>2, <1>6, <1>11 DEF ConvMoves
  <2>3. c + 1 > 2 * Width /\ Made' = Base + RowWords
    BY <1>1, <1>3, <1>11, <2>1
  <2> QED
    BY <1>1, <1>7, <2>2, <2>3 DEF Scanned, Flushing
<1> QED
  BY <1>8, <1>9, <1>10, <1>11 DEF Typed, ConverterStates

\* Out of the rows the converter comes to rest.
LEMMA ConvRests ==
  ASSUME Followed, Sensor, Typed, PixClk, fsm \notin {"R_ROW_1", "R_ROW_2"},
         conv \in {"WR_2", "CLR", "BLANK", "IDLE"}
  PROVE  /\ conv' = IF conv = "WR_2" THEN "CLR" ELSE "IDLE"
         /\ conv = "CLR" \/ lineFifo = <<>> => lineFifo' = <<>>
<1>1. ConvMoves /\ ~ScanRow2
  BY ConvMovesSo DEF ScanRow2
<1>2. /\ conv = "CLR" \/ fsm = "IDLE" => lineFifo' = <<>>
      /\ fsm \notin {"R_ROW_1", "R_ROW_2", "IDLE"} /\ conv # "CLR" => lineFifo' = lineFifo
  BY LineMoves, FormatTyped DEF Sensor
<1>3. conv' = IF conv = "WR_2" THEN "CLR" ELSE "IDLE"
  BY <1>1 DEF ConvMoves
<1> QED
  BY <1>2, <1>3

-----------------------------------------------------------------------------
(* While nothing is wrong, sampler and sensor go together *)

\* What is known before a clock after which nothing is wrong.
Calm == Followed /\ Sensor /\ Synced /\ Typed /\ Control /\ PixClk /\ ~err'

LEMMA CalmFacts ==
  ASSUME Calm
  PROVE  /\ Followed /\ Sensor /\ Synced /\ Typed /\ Control /\ PixClk /\ SensorClock
         /\ FsmMoves /\ ConvMoves /\ rowPairs \in Nat /\ fsm \in FsmStates
         /\ fsm # "IDLE" => Sampling
         /\ fsm \in {"R_ROW_1", "WAIT_L_NEW_2", "R_ROW_2"} => sf
         /\ sf \in BOOLEAN /\ sl \in BOOLEAN /\ (sl => sf)
<1>1. FsmMoves /\ ConvMoves
  BY FsmMovesSo, ConvMovesSo DEF Calm
<1>2. ~err' /\ err \in BOOLEAN /\ fsm \in FsmStates
  BY DEF Calm, Typed
<1>3. fsm # "IDLE" => ~err
  BY <1>1, <1>2 DEF FsmMoves, FsmStates
<1>4. fsm \in {"R_ROW_1", "WAIT_L_NEW_2", "R_ROW_2"} => sf
  BY <1>1, <1>2 DEF FsmMoves
<1> QED
  BY <1>1, <1>2, <1>3, <1>4, SensorPart DEF Calm, Control, Typed, Synced

LEMMA SampledAtRest ==
  ASSUME Calm, fsm \in Rest
  PROVE  Sampling'
<1>1. /\ Followed /\ Sensor /\ Synced /\ Typed /\ PixClk /\ SensorClock /\ FsmMoves
      /\ fsm # "IDLE" => Sampling
      /\ sf \in BOOLEAN
  BY CalmFacts
<1>2. conv \in {"WR_2", "CLR", "IDLE"} /\ (fsm = "WAIT_F_NEW" => FrameStarts)
  BY DEF Calm, Control
<1>3. /\ conv' = IF conv = "WR_2" THEN "CLR" ELSE "IDLE"
      /\ conv = "CLR" \/ lineFifo = <<>> => lineFifo' = <<>>
  BY <1>1, <1>2, ConvRests DEF Rest
<1>4. fsm = "IDLE" => lineFifo' = <<>>
  BY <1>1, LineMoves, FormatTyped DEF Sensor
<1>5. CASE fsm = "IDLE"
  <2>1. fsm' \in {"IDLE", "WAIT_F_END", "WAIT_F_NEW"}
    BY <1>1, <1>5 DEF FsmMoves
  <2> QED
    BY <1>2, <1>3, <1>4, <1>5, <2>1 DEF Sampling
<1>6. CASE fsm = "SNAPSHOT"
  <2>1. fsm' \in {"IDLE", "SNAPSHOT"}
    BY <1>1, <1>6 DEF FsmMoves
  <2> QED
    BY <2>1 DEF Sampling
<1>7. CASE fsm \in {"WAIT_F_NEW", "WAIT_F_END"}
  <2>1. conv' = "IDLE" /\ lineFifo' = <<>>
    BY <1>1, <1>3, <1>7 DEF Sampling
  <2>2. CASE fsm' \in {"IDLE", "WAIT_F_NEW", "WAIT_F_END"}
    BY <2>1, <2>2 DEF Sampling
  <2>3. CASE fsm' = "WAIT_L_NEW_1"
    <3>1. fsm = "WAIT_F_NEW" /\ sf /\ rowPairs' = 0
      BY <1>1, <1>7, <2>3 DEF FsmMoves
    <3>2. Between(0)'
      BY <1>1, <1>2, <3>1, FrameBegun
    <3> QED
      BY <2>1, <2>3, <3>1, <3>2 DEF Sampling
  <2> QED
    BY <1>1, <1>7, <2>2, <2>3 DEF FsmMoves
<1> QED
  BY <1>5, <1>6, <1>7 DEF Rest

\* A frame that ended.
LEMMA SampledAfter ==
  ASSUME Calm, fsm \in {"WAIT_L_NEW_1", "BLANK"}, ~sf
  PROVE  Sampling'
<1>1. Followed /\ Sensor /\ Typed /\ PixClk /\ FsmMoves /\ Sampling /\ sl \in BOOLEAN
  BY CalmFacts
<1>2. conv \in {"WR_2", "CLR", "BLANK", "IDLE"} /\ (conv \in {"IDLE", "BLANK"} => lineFifo = <<>>)
  <2>1. CASE fsm = "BLANK"
    BY <1>1, <2>1 DEF Sampling, Flushing
  <2>2. CASE fsm = "WAIT_L_NEW_1" /\ rowPairs = 0
    BY <1>1, <2>2 DEF Sampling
  <2>3. CASE fsm = "WAIT_L_NEW_1" /\ rowPairs # 0
    BY <1>1, <2>3 DEF Sampling, Flushing
  <2> QED
    BY <2>1, <2>2, <2>3
<1>3. /\ conv' = IF conv = "WR_2" THEN "CLR" ELSE "IDLE"
      /\ conv = "CLR" \/ lineFifo = <<>> => lineFifo' = <<>>
  BY <1>1, <1>2, ConvRests
<1>4. fsm' \in AfterFrames
  BY <1>1 DEF FsmMoves
<1> QED
  BY <1>2, <1>3, <1>4 DEF Sampling, AfterFrames

LEMMA SampledFirst ==
  ASSUME Calm, fsm = "WAIT_L_NEW_1", rowPairs = 0, sf
  PROVE  Sampling'
<1>1. /\ Followed /\ Sensor /\ Synced /\ Typed /\ PixClk /\ SensorClock /\ FsmMoves
      /\ Sampling /\ sl \in BOOLEAN
  BY CalmFacts
<1>2. Between(0) /\ conv = "IDLE" /\ lineFifo = <<>> /\ ~vReg /\ vReg \in BOOLEAN
  BY <1>1 DEF Sampling, Calm, Control, Typed
<1>3. conv' = "IDLE" /\ lineFifo' = <<>>
  BY <1>1, <1>2, ConvRests
<1>4. CASE ~sl
  <2>1. Between(0)'
    BY <1>1, <1>2, <1>4, StillBetween
  <2>2. fsm' = "WAIT_L_NEW_1" /\ rowPairs' = 0
    BY <1>1, <1>4 DEF FsmMoves
  <2> QED
    BY <1>3, <2>1, <2>2 DEF Sampling
<1>5. CASE sl
  <2>1. InRow(0, 0)'
    BY <1>1, <1>2, <1>5, RowBegins DEF FsmMoves
  <2>2. fsm' = "R_ROW_1" /\ rowPairs' = 1
    <3>1. fsm' = "R_ROW_1" /\ rowPairs' = (0 + 1) % RowSpace
      BY <1>1, <1>5 DEF FsmMoves
    <3>2. RowSpace \in Nat /\ RowSpace > 1
      BY <1>1, FsmAssumption, CaptureAssumption DEF Followed
    <3>3. 0 + 1 = 1 /\ 1 % RowSpace = 1
      BY <3>2, ModSmall
    <3> QED
      BY <3>1, <3>3
  <2>3. PictureBegins
    BY <2>2 DEF PictureBegins
  <2>4. Made' = 0
    BY <1>1, <1>2, <2>3, MadeMoves
  <2>5. Base' = 0
    <3>1. Base' = (1 - 1) * RowWords' /\ RowWords' = RowWords /\ RowWords \in Nat
      BY <1>1, <2>2, RowWordsTyped, FormatTyped DEF Base, RowWords, SensorClock, Sensor
    <3> QED
      BY <3>1
  <2>6. Len(lineFifo') = 0 /\ Line(0)'
    BY <1>3 DEF Line
  <2>7. rowPairs' \in 1 .. Height /\ 2 * (rowPairs' - 1) = 0
    BY <2>2, CaptureAssumption
  <2>8. InRow(2 * (rowPairs - 1), Len(lineFifo))'
    BY <2>1, <2>6, <2>7 DEF InRow
  <2> QED
    BY <1>3, <2>2, <2>4, <2>5, <2>6, <2>7, <2>8 DEF Sampling
<1> QED
  BY <1>1, <1>4, <1>5

LEMMA SampledNext ==
  ASSUME Calm, fsm = "WAIT_L_NEW_1", rowPairs # 0, sf
  PROVE  Sampling'
<1>1. /\ Followed /\ Sensor /\ Synced /\ Typed /\ PixClk /\ SensorClock /\ FsmMoves /\ ConvMoves
      /\ Sampling /\ sl \in BOOLEAN /\ rowPairs \in Nat
  BY CalmFacts
<1>2. /\ rowPairs \in 1 .. Height - 1 /\ Between(2 * rowPairs) /\ Flushing
      /\ (sl => conv \in {"CLR", "IDLE"})
  BY <1>1 DEF Sampling
<1>3. conv \in {"WR_2", "CLR", "BLANK", "IDLE"} /\ (conv \in {"IDLE", "BLANK"} => lineFifo = <<>>)
  BY <1>2 DEF Flushing
<1>4. /\ conv' = IF conv = "WR_2" THEN "CLR" ELSE "IDLE"
      /\ conv = "CLR" \/ lineFifo = <<>> => lineFifo' = <<>>
  BY <1>1, <1>3, ConvRests
<1>5. PICK r \in Nat : r = 2 * rowPairs /\ r # 0
  BY <1>1
<1>6. /\ RowWords' = RowWords /\ RowWords \in Nat /\ rowPairs * RowWords \in Nat
  BY <1>1, RowWordsTyped, FormatTyped DEF RowWords, SensorClock, Sensor
<1>7. Made' = rowPairs * RowWords
  <2>1. ~PictureBegins
    BY <1>2 DEF PictureBegins
  <2>2. Made' = IF conv = "WR_2" THEN Made + 1 ELSE Made
    BY <1>1, <2>1, MadeMoves
  <2>3. Made = IF conv = "WR_2" THEN rowPairs * RowWords - 1 ELSE rowPairs * RowWords
    BY <1>2 DEF Flushing
  <2> QED
    BY <1>6, <2>2, <2>3
<1>8. CASE ~sl
  <2>1. Between(r)'
    BY <1>1, <1>2, <1>5, <1>8, StillBetween
  <2>2. fsm' = "WAIT_L_NEW_1" /\ rowPairs' = rowPairs
    BY <1>1, <1>8 DEF FsmMoves
  <2>3. Between(2 * rowPairs)'
    BY <1>5, <2>1, <2>2 DEF Between
  <2>4. Flushing'
    BY <1>3, <1>4, <1>6, <1>7, <2>2 DEF Flushing
  <2>5. conv' \in {"CLR", "IDLE"}
    BY <1>4
  <2> QED
    BY <1>2, <2>2, <2>3, <2>4, <2>5 DEF Sampling
<1>9. CASE sl
  <2>1. InRow(r, 0)'
    BY <1>1, <1>2, <1>5, <1>9, RowBegins DEF FsmMoves
  <2>2. fsm' = "R_ROW_1" /\ rowPairs' = rowPairs + 1
    <3>1. fsm' = "R_ROW_1" /\ rowPairs' = (rowPairs + 1) % RowSpace
      BY <1>1, <1>9 DEF FsmMoves
    <3>2. RowSpace \in Nat \ {0} /\ Height < RowSpace /\ Height \in Nat
      BY <1>1, FsmAssumption, CaptureAssumption DEF Followed
    <3>3. rowPairs + 1 \in 0 .. RowSpace - 1
      BY <1>2, <3>2
    <3>4. (rowPairs + 1) % RowSpace = rowPairs + 1
      BY <3>2, <3>3, ModSmall
    <3> QED
      BY <3>1, <3>4
  <2>3. conv' = "IDLE" /\ lineFifo' = <<>>
    BY <1>2, <1>3, <1>4, <1>9
  <2>4. Base' = rowPairs * RowWords
    <3>1. Base' = (rowPairs' - 1) * RowWords
      BY <1>6 DEF Base
    <3>2. rowPairs' - 1 = rowPairs
      BY <1>1, <2>2
    <3> QED
      BY <3>1, <3>2
  <2>5. Len(lineFifo') = 0 /\ Line(0)'
    BY <2>3 DEF Line
  <2>6. rowPairs' \in 1 .. Height /\ 2 * (rowPairs' - 1) = r
    BY <1>2, <1>5, <2>2, CaptureAssumption
  <2>7. InRow(2 * (rowPairs - 1), Len(lineFifo))'
    BY <2>1, <2>5, <2>6 DEF InRow
  <2> QED
    BY <1>7, <2>2, <2>3, <2>4, <2>5, <2>6, <2>7 DEF Sampling
<1> QED
  BY <1>1, <1>8, <1>9

LEMMA SampledRow1 ==
  ASSUME Calm, fsm = "R_ROW_1"
  PROVE  Sampling'
<1>1. /\ Followed /\ Sensor /\ Synced /\ Typed /\ PixClk /\ SensorClock /\ FsmMoves /\ ConvMoves
      /\ Sampling /\ sl \in BOOLEAN /\ rowPairs \in Nat /\ sf
  BY CalmFacts
<1>2. /\ rowPairs \in 1 .. Height /\ InRow(2 * (rowPairs - 1), Len(lineFifo)) /\ Line(0)
      /\ conv = "IDLE" /\ Made = Base
  BY <1>1 DEF Sampling
<1>3. rowPairs' = rowPairs /\ fsm' = (IF sl THEN "R_ROW_1" ELSE "WAIT_L_NEW_2") /\ pixel' = sd
  BY <1>1 DEF FsmMoves
<1>4. conv' = "IDLE" /\ Made' = Base'
  <2>1. conv' = "IDLE"
    BY <1>1, <1>2 DEF ConvMoves, ScanRow2
  <2>2. Made' = Made
    BY <1>1, <1>2, MadeMoves DEF PictureBegins
  <2>3. Base' = Base
    BY <1>1, <1>3, Counted
  <2> QED
    BY <1>2, <2>1, <2>2, <2>3
<1>5. PICK r \in Nat : r = 2 * (rowPairs - 1)
  BY <1>2
<1>6. Len(lineFifo) \in Nat
  BY <1>1 DEF Typed
<1>7. PICK c \in Nat : c = Len(lineFifo)
  BY <1>6
<1>8. InRow(r, c)
  BY <1>2, <1>5, <1>7
<1>9. pixel = <<parity, Above + c>> /\ c < Cols /\ Cols \in Nat
  <2>1. pixel = <<parity, r * Cols + c>> /\ c \in 0 .. Cols - 1
    BY <1>8 DEF InRow
  <2>2. Above = r * Cols
    BY <1>5 DEF Above
  <2>3. Cols \in Nat
    BY <1>1, <1>3, Counted
  <2> QED
    BY <2>1, <2>2, <2>3
<1>10. parity' = parity => Len(lineFifo') = c + 1 /\ Line(0)'
  BY <1>1, <1>2, <1>3, <1>7, <1>9, LineWritten
<1>11. CASE sl
  <2>1. InRow(r, c + 1)' /\ parity' = parity
    BY <1>1, <1>3, <1>8, <1>11, RowGoesOn
  <2>2. InRow(2 * (rowPairs - 1), Len(lineFifo))'
    BY <1>3, <1>5, <1>10, <2>1 DEF InRow
  <2> QED
    BY <1>2, <1>3, <1>4, <1>10, <1>11, <2>1, <2>2 DEF Sampling
<1>12. CASE ~sl
  <2>1. Between(r + 1)' /\ parity' = parity /\ c = Cols - 1
    BY <1>1, <1>3, <1>8, <1>12, RowOver
  <2>2. Between(2 * (rowPairs - 1) + 1)'
    BY <1>3, <1>5, <2>1 DEF Between
  <2>3. Len(lineFifo') = Cols'
    BY <1>1, <1>3, <1>9, <1>10, <2>1, Counted
  <2> QED
    BY <1>2, <1>3, <1>4, <1>10, <1>12, <2>1, <2>2, <2>3 DEF Sampling
<1> QED
  BY <1>1, <1>11, <1>12

LEMMA SampledWait2 ==
  ASSUME Calm, fsm = "WAIT_L_NEW_2"
  PROVE  Sampling'
<1>1. /\ Followed /\ Sensor /\ Synced /\ Typed /\ PixClk /\ SensorClock /\ FsmMoves /\ ConvMoves
      /\ Sampling /\ sl \in BOOLEAN /\ rowPairs \in Nat /\ sf
  BY CalmFacts
<1>2. /\ rowPairs \in 1 .. Height /\ Between(2 * (rowPairs - 1) + 1) /\ Line(0)
      /\ conv = "IDLE" /\ Made = Base /\ Len(lineFifo) = Cols
  BY <1>1 DEF Sampling
<1>3. rowPairs' = rowPairs /\ fsm' = (IF sl THEN "R_ROW_2" ELSE "WAIT_L_NEW_2") /\ pixel' = sd
  BY <1>1 DEF FsmMoves
<1>4. conv' = "IDLE" /\ Made' = Base'
  <2>1. conv' = "IDLE"
    BY <1>1, <1>2 DEF ConvMoves, ScanRow2
  <2>2. Made' = Made
    BY <1>1, <1>2, MadeMoves DEF PictureBegins
  <2>3. Base' = Base
    BY <1>1, <1>3, Counted
  <2> QED
    BY <1>2, <2>1, <2>2, <2>3
<1>5. PICK r \in Nat : r = 2 * (rowPairs - 1) + 1 /\ r # 0
  BY <1>2
<1>6. Cols \in Nat /\ Cols >= 2 /\ Cols' = Cols /\ Above' = Above
  BY <1>1, <1>3, Counted
<1>7. lineFifo' = lineFifo
  BY <1>1, <1>2, LineMoves, FormatTyped DEF Sensor
<1>8. parity' = parity => Line(0)' /\ Len(lineFifo') = Cols'
  BY <1>2, <1>6, <1>7 DEF Line
<1>9. CASE sl
  <2>1. InRow(r, 0)' /\ parity' = parity
    BY <1>1, <1>2, <1>3, <1>5, <1>9, RowBegins
  <2>2. InRow(2 * (rowPairs - 1) + 1, 0)'
    BY <1>3, <1>5, <2>1 DEF InRow
  <2>3. Len(lineFifo') = Cols' - 0
    BY <1>6, <1>8, <2>1
  <2>4. Scanned(0)'
    BY <1>4, <1>8, <2>1, <2>3 DEF Scanned
  <2>5. 0 \in 0 .. Cols' - 1
    BY <1>6
  <2>6. fsm' = "R_ROW_2" /\ rowPairs' \in 1 .. Height
    BY <1>2, <1>3, <1>9
  <2> QED
    BY <2>2, <2>4, <2>5, <2>6 DEF Sampling
<1>10. CASE ~sl
  <2>1. Between(r)' /\ parity' = parity
    BY <1>1, <1>2, <1>5, <1>10, StillBetween
  <2>2. Between(2 * (rowPairs - 1) + 1)'
    BY <1>3, <1>5, <2>1 DEF Between
  <2> QED
    BY <1>2, <1>3, <1>4, <1>8, <1>10, <2>1, <2>2 DEF Sampling
<1> QED
  BY <1>1, <1>9, <1>10

LEMMA SampledRow2 ==
  ASSUME Calm, fsm = "R_ROW_2"
  PROVE  Sampling'
<1>1. /\ Followed /\ Sensor /\ Synced /\ Typed /\ PixClk /\ SensorClock /\ FsmMoves /\ ConvMoves
      /\ Sampling /\ sl \in BOOLEAN /\ rowPairs \in Nat /\ sf
  BY CalmFacts
<1>2. rowPairs \in 1 .. Height
  BY <1>1 DEF Sampling
<1>3. PICK c \in 0 .. Cols - 1 : InRow(2 * (rowPairs - 1) + 1, c) /\ Scanned(c)
  BY <1>1 DEF Sampling
<1>4. /\ rowPairs' = rowPairs /\ pixel' = sd
      /\ fsm' = IF sl THEN "R_ROW_2" ELSE IF rowPairs = Height THEN "BLANK" ELSE "WAIT_L_NEW_1"
  BY <1>1 DEF FsmMoves
<1>5. PICK r \in Nat : r = 2 * (rowPairs - 1) + 1 /\ r + 1 = 2 * rowPairs
  BY <1>2
<1>6. InRow(r, c)
  BY <1>3, <1>5
<1>7. c \in Nat /\ c < Cols /\ Cols \in Nat /\ Cols' = Cols
  BY <1>1, <1>4, Counted
<1>8. pixel = <<parity, (2 * (rowPairs - 1) + 1) * Cols + c>>
  BY <1>3 DEF InRow
<1>9. parity' = parity => (c + 1 < Cols => Scanned(c + 1)') /\ (c + 1 = Cols => Flushing')
  BY <1>1, <1>3, <1>4, <1>7, <1>8, RowScanned
<1>10. CASE sl
  <2>1. InRow(r, c + 1)' /\ parity' = parity /\ c + 1 < Cols
    BY <1>1, <1>4, <1>6, <1>7, <1>10, RowGoesOn DEF InRow
  <2>2. InRow(2 * (rowPairs - 1) + 1, c + 1)'
    BY <1>4, <1>5, <2>1 DEF InRow
  <2>3. c + 1 \in 0 .. Cols' - 1
    BY <1>7, <2>1
  <2>4. Scanned(c + 1)'
    BY <1>9, <2>1
  <2>5. fsm' = "R_ROW_2" /\ rowPairs' \in 1 .. Height
    BY <1>2, <1>4, <1>10
  <2> QED
    BY <2>2, <2>3, <2>4, <2>5 DEF Sampling
<1>11. CASE ~sl
  <2>1. Between(r + 1)' /\ parity' = parity /\ c = Cols - 1 /\ ~sl'
    BY <1>1, <1>4, <1>6, <1>11, RowOver
  <2>2. c + 1 = Cols
    BY <1>7, <2>1
  <2>3. Between(2 * rowPairs)'
    BY <1>4, <1>5, <2>1 DEF Between
  <2>4. Flushing'
    BY <1>9, <2>1, <2>2
  <2>5. /\ fsm' = IF rowPairs = Height THEN "BLANK" ELSE "WAIT_L_NEW_1"
        /\ rowPairs # Height => rowPairs' \in 1 .. Height - 1
    BY <1>2, <1>4, <1>11, CaptureAssumption
  <2>6. rowPairs' # 0
    BY <1>2, <1>4
  <2> QED
    BY <1>4, <2>1, <2>3, <2>4, <2>5, <2>6 DEF Sampling
<1> QED
  BY <1>1, <1>10, <1>11

LEMMA SampledBlank ==
  ASSUME Calm, fsm = "BLANK", sf
  PROVE  Sampling'
<1>1. Followed /\ Sensor /\ Typed /\ PixClk /\ FsmMoves /\ Sampling /\ SensorClock
  BY CalmFacts
<1>2. rowPairs = Height /\ Flushing
  BY <1>1 DEF Sampling
<1>3. conv \in {"WR_2", "CLR", "BLANK", "IDLE"} /\ (conv \in {"IDLE", "BLANK"} => lineFifo = <<>>)
  BY <1>2 DEF Flushing
<1>4. /\ conv' = IF conv = "WR_2" THEN "CLR" ELSE "IDLE"
      /\ conv = "CLR" \/ lineFifo = <<>> => lineFifo' = <<>>
  BY <1>1, <1>3, ConvRests
<1>5. fsm' = "BLANK" /\ rowPairs' = rowPairs
  BY <1>1 DEF FsmMoves
<1>6. RowWords' = RowWords /\ rowPairs * RowWords \in Int /\ RowWords \in Int
  BY <1>1, Counted, <1>5
<1>7. Made' = rowPairs * RowWords
  <2>1. Made' = IF conv = "WR_2" THEN Made + 1 ELSE Made
    BY <1>1, MadeMoves DEF PictureBegins
  <2>2. Made = IF conv = "WR_2" THEN rowPairs * RowWords - 1 ELSE rowPairs * RowWords
    BY <1>2 DEF Flushing
  <2> QED
    BY <1>6, <2>1, <2>2
<1>8. Flushing'
  BY <1>3, <1>4, <1>5, <1>6, <1>7 DEF Flushing
<1> QED
  BY <1>2, <1>5, <1>8 DEF Sampling

LEMMA SamplingKept ==
  ASSUME Calm
  PROVE  Sampling'
<1>1. fsm \in FsmStates /\ sf \in BOOLEAN
  BY CalmFacts
<1> QED
  BY <1>1, SampledAtRest, SampledAfter, SampledFirst, SampledNext, SampledRow1, SampledWait2,
     SampledRow2, SampledBlank DEF FsmStates, Rest

-----------------------------------------------------------------------------
(* The invariant *)

LEMMA StayOut ==
  ASSUME Sensor, Synced, Typed, PixClk, ~PictureBegins, InPicture'
  PROVE  InPicture /\ (err => err')
<1>1. FsmMoves /\ fsm \in FsmStates /\ err \in BOOLEAN
  BY FsmMovesSo DEF Typed
<1>2. InPicture
  BY <1>1 DEF FsmMoves, FsmStates, InPicture, PictureBegins, AfterFrames
<1>3. err => err'
  BY <1>1, <1>2 DEF FsmMoves, InPicture
<1> QED
  BY <1>2, <1>3

LEMMA ControlKept ==
  ASSUME Followed, Sensor, Synced, Typed, Control, PixClk
  PROVE  Control'
<1>1. /\ FsmMoves /\ ConvMoves /\ fsm \in FsmStates /\ conv \in ConverterStates
      /\ sf \in BOOLEAN /\ SensorClock
  BY FsmMovesSo, ConvMovesSo, SensorPart DEF Typed, Synced
<1>2. fsm' = "WAIT_F_NEW" => FrameStarts'
  <2>1. fsm' = "WAIT_F_NEW" => ~sf
    BY <1>1 DEF FsmMoves, FsmStates
  <2> QED
    BY <1>1, <2>1, FrameBegins
<1>3. fsm' \in Rest => conv' \in {"WR_2", "CLR", "IDLE"}
  <2>1. fsm' \in Rest => fsm # "R_ROW_2"
    BY <1>1 DEF FsmMoves, Rest
  <2>2. ~ScanRow2 => conv' \in {"WR_2", "CLR", "IDLE"}
    BY <1>1 DEF ConvMoves, ConverterStates
  <2> QED
    BY <2>1, <2>2 DEF ScanRow2
<1>4. (vReg' => conv' \in {"WR_1", "CLR"}) /\ (conv' = "CLR" => vReg')
  BY <1>1 DEF ConvMoves, ConverterStates
<1>5. flawed' <=> err' \/ (flawed /\ ~PictureBegins)
  BY DEF PixClk, Watch
<1>6. InPicture' => (flawed' <=> err')
  <2>1. ASSUME InPicture', flawed, ~PictureBegins PROVE err'
    BY <2>1, StayOut DEF Control
  <2> QED
    BY <1>5, <2>1
<1>7. ~err' => Sampling'
  BY SamplingKept DEF Calm
<1> QED
  BY <1>2, <1>3, <1>4, <1>5, <1>6, <1>7 DEF Control

LEMMA WordSame ==
  ASSUME SensorClock
  PROVE  RowWords' = RowWords /\ \A p, n : Word(p, n)' = Word(p, n)
BY DEF SensorClock, Word, RowWords

\* The first half of a word, and its second half one clock later.
LEMMA WordFormed ==
  ASSUME Followed, Sensor, Synced, Typed, Control, PixClk, ~err', conv = "WR_1"
  PROVE  /\ parity \in {0, 1} /\ Made' = Made
         /\ colours'.g1 = Word(parity, Made).g1 /\ colours'.b = Word(parity, Made).b
         /\ lineOut' = Word(parity, Made).r /\ dataReg' = Word(parity, Made).g2
<1>1. /\ SensorClock /\ FsmMoves /\ ConvMoves /\ fsm \in FsmStates /\ rowPairs \in Nat
      /\ fsm # "IDLE" => Sampling
      /\ fsm \in {"R_ROW_1", "WAIT_L_NEW_2", "R_ROW_2"} => sf
      /\ sl \in BOOLEAN /\ conf \in Formats /\ parity \in {0, 1}
  BY CalmFacts DEF Calm, Sensor
<1>2. fsm = "R_ROW_2"
  <2>1. fsm \in Rest => conv # "WR_1"
    BY DEF Control
  <2> QED
    BY <1>1, <2>1 DEF Sampling, Flushing, Rest, FsmStates
<1>3. PICK c \in 0 .. Cols - 1 : InRow(2 * (rowPairs - 1) + 1, c) /\ Scanned(c)
  BY <1>1, <1>2 DEF Sampling
<1>4. /\ rowPairs \in 1 .. Height /\ rowPairs' = rowPairs /\ pixel' = sd /\ sf
  BY <1>1, <1>2 DEF Sampling, FsmMoves
<1>5. PICK r \in Nat : r = 2 * (rowPairs - 1) + 1
  BY <1>4
<1>6. parity' = parity
  <2>1. InRow(r, c)
    BY <1>3, <1>5
  <2> QED
    BY <1>1, <1>4, <2>1, RowGoesOn, RowOver
<1>7. /\ Cols \in Nat /\ Above \in Int /\ Above + Cols = (2 * (rowPairs - 1) + 1) * Cols
      /\ RowWords \in Nat /\ Base = (rowPairs - 1) * RowWords
  BY <1>1, <1>4, Counted DEF Base
<1>8. PICK q \in Nat : q = pixCount
  BY DEF Typed
<1>9. /\ c = 2 * q + 1 /\ q < RowWords /\ Made = Base + q
      /\ lineOut = <<parity, Above + 2 * q>> /\ dataReg = <<parity, Above + Cols + 2 * q>>
      /\ Len(lineFifo) = Cols - c /\ Line(c)
  BY <1>3, <1>8 DEF Scanned
<1>10. PICK top \in Int : top = Above + 2 * q
  BY <1>7
<1>11. Word(parity, Made) =
         [g1 |-> <<parity, top>>, r |-> <<parity, top + 1>>,
          b |-> <<parity, top + Cols>>, g2 |-> <<parity, top + Cols + 1>>]
  <2>1. PICK k \in Nat : k = rowPairs - 1
    BY <1>4
  <2>2. q \in 0 .. RowWords - 1 /\ Made = k * RowWords + q /\ top = 2 * k * Cols + 2 * q
    BY <1>7, <1>9, <1>10, <2>1 DEF Above
  <2> QED
    BY <1>1, <2>2, WordAt
<1>12. lineOut' = <<parity, Above + c>>
  BY <1>1, <1>2, <1>4, <1>6, <1>7, <1>9, LineRead
<1>13. dataReg' = <<parity, Above + Cols + c>>
  <2>1. dataReg' = <<parity, (2 * (rowPairs - 1) + 1) * Cols + c>>
    BY <1>1, <1>3 DEF ConvMoves, InRow
  <2> QED
    BY <1>7, <2>1
<1>14. /\ Above + c = top + 1 /\ Above + Cols + c = top + Cols + 1
       /\ Above + Cols + 2 * q = top + Cols
  BY <1>7, <1>9, <1>10
<1>15. colours'.g1 = <<parity, top>> /\ colours'.b = <<parity, top + Cols>>
  BY <1>1, <1>9, <1>10, <1>14 DEF ConvMoves
<1>16. Made' = Made
  BY <1>2, MadeMoves DEF PictureBegins
<1> QED
  BY <1>1, <1>11, <1>12, <1>13, <1>14, <1>15, <1>16

LEMMA StagesKept ==
  ASSUME Followed, Sensor, Synced, Typed, Control, ~flawed => Stages, PixClk, ~flawed'
  PROVE  Stages'
<1>1. /\ ~err' /\ (flawed => PictureBegins) /\ FsmMoves /\ ConvMoves /\ SensorClock
      /\ vReg \in BOOLEAN
  BY FsmMovesSo, ConvMovesSo, SensorPart DEF PixClk, Watch, Typed
<1>2. \A p, n : Word(p, n)' = Word(p, n)
  BY <1>1, WordSame
<1>3. CASE PictureBegins
  <2>1. conv = "IDLE" /\ ~vReg
    BY <1>1, <1>3 DEF PictureBegins, FsmMoves, Control, Sampling
  <2>2. conv' # "WR_2" /\ ~vReg' /\ ~voReg'
    BY <1>1, <2>1 DEF ConvMoves
  <2> QED
    BY <2>2 DEF Stages
<1>4. CASE ~PictureBegins
  <2>1. Stages /\ wordNo' = Given /\ Given' = Made
    BY <1>1, <1>4, MadeMoves
  <2>2. ASSUME conv' = "WR_2"
        PROVE  \E p \in {0, 1} : /\ colours'.g1 = Word(p, Made)'.g1 /\ colours'.b = Word(p, Made)'.b
                                 /\ lineOut' = Word(p, Made)'.r /\ dataReg' = Word(p, Made)'.g2
    <3>1. conv = "WR_1"
      BY <1>1, <2>2 DEF ConvMoves, Typed, ConverterStates
    <3>2. PICK n : n = Made
      OBVIOUS
    <3>3. /\ parity \in {0, 1} /\ Made' = n
          /\ colours'.g1 = Word(parity, n).g1 /\ colours'.b = Word(parity, n).b
          /\ lineOut' = Word(parity, n).r /\ dataReg' = Word(parity, n).g2
      BY <1>1, <3>1, <3>2, WordFormed
    <3>4. PICK p \in {0, 1} : p = parity
      BY <3>3
    <3>5. Word(p, Made)' = Word(p, n)
      <4>1. Word(p, Made)' = Word(p, n)'
        BY <3>3 DEF Word
      <4> QED
        BY <1>2, <4>1
    <3> QED
      BY <3>3, <3>4, <3>5
  <2>3. ASSUME vReg'
        PROVE  \E p \in {0, 1} : colours' = Word(p, Given)'
    <3>1. conv = "WR_2"
      BY <1>1, <2>3 DEF ConvMoves
    <3>2. PICK n : n = Made
      OBVIOUS
    <3>3. PICK p \in {0, 1} : /\ colours.g1 = Word(p, n).g1 /\ colours.b = Word(p, n).b
                              /\ lineOut = Word(p, n).r /\ dataReg = Word(p, n).g2
      BY <2>1, <3>1, <3>2 DEF Stages
    <3>4. /\ colours'.g1 = Word(p, n).g1 /\ colours'.b = Word(p, n).b
          /\ colours'.r = Word(p, n).r /\ colours'.g2 = Word(p, n).g2
          /\ colours' = [x \in Colours |-> colours'[x]]
      BY <1>1, <3>1, <3>3 DEF ConvMoves
    <3>5. colours' = Word(p, n)
      BY <3>4, SameColours DEF Word
    <3>6. Word(p, Given)' = Word(p, n)
      <4>1. Word(p, Given)' = Word(p, n)'
        BY <2>1, <3>2 DEF Word
      <4> QED
        BY <1>2, <4>1
    <3> QED
      BY <3>5, <3>6
  <2>4. ASSUME voReg'
        PROVE  \E p \in {0, 1} : out' = Word(p, wordNo)'
    <3>1. vReg /\ out' = colours
      BY <1>1, <2>4 DEF ConvMoves
    <3>2. PICK n : n = Given
      OBVIOUS
    <3>3. PICK p \in {0, 1} : colours = Word(p, n)
      BY <2>1, <3>1, <3>2 DEF Stages
    <3>4. Word(p, wordNo)' = Word(p, n)
      <4>1. Word(p, wordNo)' = Word(p, n)'
        BY <2>1, <3>2 DEF Word
      <4> QED
        BY <1>2, <4>1
    <3> QED
      BY <3>1, <3>3, <3>4
  <2> QED
    BY <2>2, <2>3, <2>4 DEF Stages
<1> QED
  BY <1>3, <1>4

\* A pixel of the frame lies in one of its rows.
LEMMA RowInFrame ==
  ASSUME NEW C \in Nat \ {0}, NEW R \in Nat, NEW r \in Nat, r * C < R * C
  PROVE  r < R
<1>1. ASSUME R <= r PROVE FALSE
  <2>1. PICK k \in Nat : r = R + k
    <3>1. r - R \in Nat /\ r = R + (r - R)
      BY <1>1
    <3> QED
      BY <3>1
  <2>2. r * C = R * C + k * C /\ k * C \in Nat /\ R * C \in Nat
    BY <2>1
  <2> QED
    BY <2>2
<1> QED
  BY <1>1

LEMMA PixelInFrame ==
  ASSUME Followed, Sensor, gen = "VALID"
  PROVE  PixelNo < Rows * Cols
<1>1. Cols \in Nat /\ Rows \in Nat /\ gw \in 1 .. Cols /\ gh \in 1 .. Rows
  BY FormatTyped DEF Sensor
<1>2. PICK k \in Nat : Rows = gh + k
  <2>1. Rows - gh \in Nat /\ Rows = gh + (Rows - gh)
    BY <1>1
  <2> QED
    BY <2>1
<1>3. Rows * Cols = (gh - 1) * Cols + Cols + k * Cols /\ k * Cols \in Nat /\ (gh - 1) * Cols \in Nat
  <2>1. Rows = (gh - 1) + 1 + k /\ gh - 1 \in Nat
    BY <1>1, <1>2
  <2> QED
    BY <1>1, <1>2, <2>1
<1>4. PixelNo = (gh - 1) * Cols + (gw - 1)
  BY DEF PixelNo, Cols
<1> QED
  BY <1>1, <1>3, <1>4

\* The sensor leaves idle for a start command only.
LEMMA SensorStarts ==
  ASSUME Followed, Sensor, Synced, PixClk
  PROVE  /\ gen = "IDLE" /\ ~genStart => gen' = "IDLE"
         /\ gen' = "IDLE" /\ genStart' => ~sf'
<1>1. gen = "IDLE" /\ ~genStart => gen' = "IDLE"
  BY DEF PixClk, GenClock, GenIdle, GenFrameFrameBlank, GenFrameLineBlank, GenLineLineBlank,
         GenLineFrameBlank, GenValid, Blank
<1>2. genStart' => gen = "IDLE"
  BY DEF PixClk, GenNoWrite, GenCommand
<1>3. gen = "IDLE" => ~sf'
  BY SensorPart, SensorAhead
<1> QED
  BY <1>1, <1>2, <1>3

LEMMA ReachedKept ==
  ASSUME Followed, Sensor, Synced, Typed, Control, Reached, PixClk
  PROVE  Reached'
<1>1. /\ FsmMoves /\ SensorClock /\ SensorMoves /\ fsm \in FsmStates /\ gen \in GenStates
      /\ Cols \in Nat \ {0, 1} /\ Rows \in Nat /\ Cols' = Cols /\ Rows' = Rows
      /\ sf \in BOOLEAN /\ sl \in BOOLEAN /\ (sl => sf) /\ rowPairs \in Nat /\ Height \in Nat
  <2>1. SensorClock /\ FsmMoves /\ SensorMoves
    BY FsmMovesSo, SensorPart, SensorMovesSo DEF SensorClock
  <2>2. Cols \in Nat \ {0, 1} /\ Rows \in Nat /\ Height \in Nat /\ gen \in GenStates
    BY FormatTyped DEF Sensor
  <2>3. Cols' = Cols /\ Rows' = Rows
    BY <2>1 DEF SensorClock, Cols, Rows
  <2> QED
    BY <2>1, <2>2, <2>3 DEF Synced, Typed
<1>2. sl' => sd'[2] < Rows' * Cols'
  <2>1. sl' => gen = "VALID" /\ sd' = <<parity, PixelNo>>
    BY <1>1, SensorAhead
  <2> QED
    BY <1>1, <2>1, PixelInFrame
<1>3. gen' = "IDLE" /\ genStart' => ~sf'
  BY SensorStarts
<1>4. gen' = "LINE_FRAME_BLANK" => gh' = Rows'
  BY <1>1 DEF SensorMoves, GenStates, Reached
<1>5. sf /\ gen = "IDLE" => gen' = "IDLE"
  BY <1>1, SensorStarts DEF Reached
<1>6. ASSUME ~err' PROVE PairsReached'
  <2> USE DEF PairsReached, Over
  <2>1. /\ fsm # "IDLE" => Sampling /\ PairsReached
        /\ fsm \in {"R_ROW_1", "WAIT_L_NEW_2", "R_ROW_2"} => sf
    <3>1. fsm # "IDLE" => ~err
      BY <1>1, <1>6 DEF FsmMoves, FsmStates, Typed
    <3> QED
      BY <1>6, <3>1, CalmFacts DEF Calm, Reached
  <2>2. CASE fsm \in Rest
    <3>1. fsm' \in Rest \/ (fsm' = "WAIT_L_NEW_1" /\ rowPairs' = 0)
      BY <1>1, <2>2 DEF FsmMoves, Rest
    <3> QED
      BY <1>1, <3>1 DEF Rest
  <2>3. CASE fsm = "BLANK"
    <3>1. fsm' \in AfterFrames \/ (fsm' = "BLANK" /\ rowPairs' = rowPairs)
      BY <1>1, <2>3 DEF FsmMoves
    <3> QED
      BY <1>1, <2>1, <2>3, <3>1 DEF AfterFrames
  <2>4. CASE fsm \in {"R_ROW_1", "WAIT_L_NEW_2"}
    <3>1. \/ fsm' \in {"R_ROW_1", "WAIT_L_NEW_2"}
          \/ fsm = "WAIT_L_NEW_2" /\ sl /\ fsm' = "R_ROW_2" /\ rowPairs' = rowPairs
      BY <1>1, <2>4 DEF FsmMoves
    <3>2. ASSUME fsm = "WAIT_L_NEW_2", sl
          PROVE  /\ 2 * rowPairs <= Rows
                 /\ gen' = "FRAME_FRAME_BLANK" => 2 * rowPairs = Rows
      <4>1. PICK r \in Nat : r = 2 * (rowPairs - 1) + 1 /\ Between(r) /\ r # 0
        <5>1. rowPairs \in 1 .. Height /\ Between(2 * (rowPairs - 1) + 1)
          BY <2>1, <3>2 DEF Sampling
        <5>2. 2 * (rowPairs - 1) + 1 \in Nat
          BY <1>1, <5>1
        <5> QED
          BY <5>1, <5>2
      <4>2. r < Rows
        <5>1. sd = <<parity, r * Cols>> /\ sd[2] < Rows * Cols
          BY <3>2, <4>1 DEF Between, Reached
        <5> QED
          BY <1>1, <5>1, RowInFrame
      <4>3. gen' = "FRAME_FRAME_BLANK" => gh = r + 1 /\ gh = Rows
        <5>1. gen \in {"VALID", "IDLE"}
          BY <1>1, <3>2, <4>1 DEF Between, Synced, GenStates
        <5> QED
          BY <1>1, <4>1, <5>1 DEF SensorMoves, Between
      <4> QED
        BY <1>1, <4>1, <4>2, <4>3
    <3> QED
      BY <1>1, <3>1, <3>2
  <2>5. CASE fsm = "R_ROW_2"
    <3>1. PICK c \in 0 .. Cols - 1 : InRow(2 * (rowPairs - 1) + 1, c)
      BY <2>1, <2>5 DEF Sampling
    <3>2. gen \in {"VALID", "LINE_FRAME_BLANK"} => gh = 2 * rowPairs
      BY <1>1, <3>1 DEF InRow
    <3>3. gen' = "FRAME_FRAME_BLANK" => 2 * rowPairs = Rows
      BY <1>1, <2>1, <2>5, <3>2 DEF SensorMoves, Reached, GenStates
    <3>4. ~sl /\ gen' \in Over => 2 * rowPairs = Rows
      <4>1. ~sl => gen # "VALID" /\ gen # "FRAME_LINE_BLANK"
        BY <2>1, <2>5, <3>1 DEF InRow
      <4> QED
        BY <1>1, <1>5, <2>1, <2>5, <3>2, <4>1 DEF SensorMoves, Reached, GenStates
    <3>5. rowPairs' = rowPairs /\ (sl => fsm' = "R_ROW_2")
      BY <1>1, <2>5 DEF FsmMoves
    <3> QED
      BY <1>1, <2>1, <2>5, <3>3, <3>4, <3>5
  <2>6. CASE fsm = "WAIT_L_NEW_1"
    <3>1. CASE fsm' = "WAIT_L_NEW_1"
      <4>1. rowPairs' = rowPairs /\ sf /\ ~sl
        BY <1>1, <2>6, <3>1 DEF FsmMoves, AfterFrames
      <4>2. rowPairs # 0 /\ gen' \in Over => gen \in Over
        <5>1. gen = "VALID" => gw = 1
          BY <4>1 DEF Synced, Sensor
        <5> QED
          BY <1>1, <1>5, <4>1, <5>1 DEF SensorMoves, GenStates
      <4> QED
        BY <1>1, <2>1, <2>6, <3>1, <4>1, <4>2
    <3>2. CASE fsm' # "WAIT_L_NEW_1"
      <4>1. fsm' \notin {"R_ROW_2", "BLANK", "WAIT_L_NEW_1"}
        BY <1>1, <2>6, <3>2 DEF FsmMoves, AfterFrames
      <4> QED
        BY <4>1
    <3> QED
      BY <3>1, <3>2
  <2> QED
    BY <1>1, <2>2, <2>3, <2>4, <2>5, <2>6 DEF FsmStates, Rest
<1> QED
  BY <1>2, <1>3, <1>4, <1>6 DEF Reached

LEMMA EndedKept ==
  ASSUME Followed, Sensor, Synced, Typed, Control, Reached, Ended, PixClk
  PROVE  Ended'
<1>1. /\ FsmMoves /\ ConvMoves /\ SensorClock /\ fsm \in FsmStates /\ err \in BOOLEAN
      /\ Height \in Nat /\ Rows \in Nat /\ RowWords \in Int /\ RowWords' = RowWords
      /\ FramePairs' = FramePairs /\ rowPairs \in Nat /\ sf \in BOOLEAN
  <2>1. Height \in Nat /\ RowWords \in Int /\ Rows \in Nat
    BY RowWordsTyped, FormatTyped DEF Sensor
  <2>2. SensorClock
    BY SensorPart
  <2> QED
    BY <2>1, <2>2, FsmMovesSo, ConvMovesSo, WordSame DEF Typed, Synced, SensorClock, FramePairs
<1>2. /\ pairs' = IF PictureEnds THEN (IF err THEN 0 ELSE rowPairs)
                  ELSE IF PictureBegins THEN 0 ELSE pairs
      /\ entire' = IF PictureEnds THEN gen # "IDLE" ELSE entire
  BY DEF PixClk, Watch
<1>3. ASSUME pairs' # 0
      PROVE  /\ ~PictureBegins /\ ~err /\ ~err' /\ ~InPicture' /\ conv' # "WR_2"
             /\ Made = IF conv = "WR_2" THEN pairs' * RowWords - 1 ELSE pairs' * RowWords
             /\ pairs' \in 1 .. Height /\ pairs' <= FramePairs
             /\ entire' => pairs' = FramePairs
  <2>1. CASE PictureEnds
    <3>1. ~err /\ pairs' = rowPairs /\ entire' = (gen # "IDLE")
      <4>1. pairs' = (IF err THEN 0 ELSE rowPairs) /\ entire' = (gen # "IDLE")
        BY <1>2, <2>1
      <4> QED
        BY <1>1, <1>3, <4>1
    <3>2. /\ fsm' \in AfterFrames /\ err' = err
          /\ fsm = "BLANK" \/ (fsm = "WAIT_L_NEW_1" /\ rowPairs # 0 /\ ~sf)
      BY <1>1, <2>1 DEF PictureEnds, FsmMoves
    <3>3. /\ Flushing /\ 2 * rowPairs <= Rows
          /\ fsm = "BLANK" => rowPairs = Height
          /\ fsm = "WAIT_L_NEW_1" => rowPairs \in 1 .. Height - 1
      BY <3>1, <3>2 DEF Control, Sampling, Reached, PairsReached
    <3>4. conv' # "WR_2"
      <4>1. conv \in {"WR_2", "CLR", "BLANK", "IDLE"} /\ ~ScanRow2
        BY <3>2, <3>3 DEF Flushing, ScanRow2
      <4> QED
        BY <1>1, <4>1 DEF ConvMoves
    <3>5. rowPairs \in 1 .. Height /\ rowPairs <= FramePairs
      BY <1>1, <1>3, <3>1, <3>2, <3>3 DEF FramePairs, Rows
    <3>6. gen # "IDLE" => rowPairs = FramePairs
      <4>1. CASE fsm = "BLANK"
        BY <1>1, <3>3, <4>1 DEF FramePairs, Rows
      <4>2. CASE fsm = "WAIT_L_NEW_1"
        <5>1. gen \in {"IDLE", "FRAME_FRAME_BLANK", "FRAME_LINE_BLANK"}
          BY <3>2, <4>2 DEF Synced, Sensor, GenStates
        <5>2. gen # "IDLE" => 2 * rowPairs = Rows
          BY <3>1, <3>2, <4>2, <5>1 DEF Reached, PairsReached, Over
        <5> QED
          BY <1>1, <3>3, <4>2, <5>2 DEF FramePairs, Rows
      <4> QED
        BY <3>2, <4>1, <4>2
    <3>7. ~InPicture' /\ ~PictureBegins
      BY <3>2 DEF AfterFrames, InPicture, PictureBegins
    <3>8. Made = IF conv = "WR_2" THEN rowPairs * RowWords - 1 ELSE rowPairs * RowWords
      BY <3>3 DEF Flushing
    <3> QED
      BY <3>1, <3>2, <3>4, <3>5, <3>6, <3>7, <3>8
  <2>2. CASE ~PictureEnds
    <3>1. pairs' = pairs /\ pairs # 0 /\ ~PictureBegins /\ entire' = entire
      BY <1>2, <1>3, <2>2
    <3>2. /\ ~InPicture /\ ~err /\ pairs \in 1 .. Height /\ pairs <= FramePairs
          /\ entire => pairs = FramePairs
          /\ Made = IF conv = "WR_2" THEN pairs * RowWords - 1 ELSE pairs * RowWords
      BY <3>1 DEF Ended
    <3>3. ~InPicture'
      BY <3>1, <3>2, StayOut
    <3>4. fsm \in Rest \/ (fsm = "WAIT_L_NEW_1" /\ rowPairs = 0)
      BY <1>1, <3>2 DEF InPicture, Rest, FsmStates
    <3>5. ~err'
      BY <1>1, <3>2, <3>4 DEF FsmMoves, Rest
    <3>6. conv # "WR_1"
      BY <3>2, <3>4 DEF Control, Sampling
    <3>7. conv' # "WR_2"
      BY <1>1, <3>6 DEF ConvMoves, Typed, ConverterStates
    <3> QED
      BY <3>1, <3>2, <3>3, <3>5, <3>7
  <2> QED
    BY <2>1, <2>2
<1>4. ASSUME pairs' # 0 PROVE Made' = pairs' * RowWords'
  <2>1. Made' = IF conv = "WR_2" THEN Made + 1 ELSE Made
    BY <1>3, <1>4, MadeMoves
  <2>2. pairs' * RowWords \in Int
    BY <1>1, <1>3, <1>4
  <2> QED
    BY <1>1, <1>3, <1>4, <2>1, <2>2
<1> QED
  BY <1>1, <1>3, <1>4 DEF Ended

CInv == Sensor /\ Synced /\ Typed /\ Control /\ (~flawed => Stages) /\ Reached /\ Ended

LEMMA CInvInit ==
  ASSUME Followed, CaptureInit
  PROVE  CInv
<1>1. PICK format \in Formats : GenInit(format)
  BY DEF CaptureInit
<1>2. /\ conf \in Formats /\ gen = "IDLE" /\ gw = 0 /\ gh = 0 /\ gb = 0 /\ parity = 0
      /\ 0 \in 0 .. GenSpace - 1
  BY <1>1, GenAssumption DEF GenInit, CaptureInit
<1>3. Sensor
  BY <1>2 DEF Sensor, GenStates
<1>4. /\ sf = FALSE /\ sl = FALSE /\ sd = NoPixel /\ fsm = "IDLE" /\ rowPairs = 0 /\ err = FALSE
      /\ pixel = NoPixel /\ conv = "IDLE" /\ pixCount = 0 /\ vReg = FALSE /\ voReg = FALSE
      /\ lineFifo = <<>> /\ colours = [x \in Colours |-> NoPixel]
      /\ start = FALSE /\ snapshot = FALSE /\ wordNo = 0 /\ flawed = FALSE /\ pairs = 0
  BY DEF CaptureInit, SamplerInit, FsmInit, ConverterInit
<1>5. Synced
  BY <1>2, <1>4 DEF Synced
<1>6. Typed
  <2>1. NoPixel \in Pixels
    BY DEF NoPixel, Pixels
  <2>2. colours = [x \in Colours |-> colours[x]]
    BY <1>4
  <2>3. lineFifo \in Seq(Pixels)
    BY <1>4
  <2> QED
    BY <1>4, <2>1, <2>2, <2>3 DEF Typed, FsmStates, ConverterStates
<1>7. Control
  BY <1>4 DEF Control, Rest, InPicture, Sampling
<1>8. Stages /\ Reached /\ Ended
  <2>1. Stages
    BY <1>4 DEF Stages
  <2>2. Reached
    <3>1. PairsReached
      BY <1>4 DEF PairsReached
    <3>2. ~sl /\ ~sf /\ gen # "LINE_FRAME_BLANK"
      BY <1>2, <1>4
    <3> QED
      BY <3>1, <3>2 DEF Reached
  <2>3. Ended
    BY <1>4 DEF Ended
  <2> QED
    BY <2>1, <2>2, <2>3
<1> QED
  BY <1>3, <1>5, <1>6, <1>7, <1>8 DEF CInv

\* Of the invariant, only the type of the command register is about it.
LEMMA CInvIdle ==
  ASSUME CInv, UNCHANGED <<genVars, samplerVars, parity, wordNo, stops, flawed, pairs, entire>>,
         start' \in BOOLEAN, snapshot' \in BOOLEAN
  PROVE  CInv'
<1>1. /\ UNCHANGED <<gen, conf, genStart, genStop, gw, gh, gb>>
      /\ UNCHANGED <<sf, sl, sd, fsm, rowPairs, err, pixel, conv, pixCount, vReg, voReg>>
      /\ UNCHANGED <<lineFifo, lineOut, dataReg, colours, out, parity, wordNo, flawed, pairs, entire>>
  BY DEF genVars, samplerVars, fsmVars, converterVars
<1>2. Cols' = Cols /\ Rows' = Rows /\ RowWords' = RowWords /\ PixelNo' = PixelNo
  BY <1>1 DEF Cols, Rows, RowWords, PixelNo
<1>3. Sensor' /\ Synced' /\ Typed'
  BY <1>1, <1>2 DEF CInv, Sensor, Synced, Typed
<1>4. Given' = Given /\ Made' = Made /\ Above' = Above /\ Base' = Base
  BY <1>1, <1>2 DEF Given, Made, Above, Base
<1>5. InPicture' = InPicture /\ FrameStarts' = FrameStarts
  BY <1>1 DEF InPicture, FrameStarts
<1>6. Sampling' = Sampling
  BY <1>1, <1>2, <1>4 DEF Sampling, InRow, Between, Line, Scanned, Flushing
<1>7. Control' /\ Reached' /\ Ended'
  <2>1. FramePairs' = FramePairs
    BY <1>1 DEF FramePairs
  <2> QED
    BY <1>1, <1>2, <1>4, <1>5, <1>6, <2>1 DEF CInv, Control, Reached, PairsReached, Over, Ended
<1>8. ~flawed' => Stages'
  BY <1>1, <1>2, <1>4 DEF CInv, Stages, Word
<1> QED
  BY <1>3, <1>7, <1>8 DEF CInv

LEMMA CInvKept ==
  ASSUME Followed, CInv, [CaptureNext]_captureVars
  PROVE  CInv'
<1>1. CASE PixClk
  BY <1>1, SensorPart, SensorKept, SyncedKept, TypedKept, ControlKept, StagesKept, ReachedKept, EndedKept DEF CInv
<1>2. CASE Command
  BY <1>2, CInvIdle DEF Command
<1>3. CASE UNCHANGED captureVars
  <2>1. start' \in BOOLEAN /\ snapshot' \in BOOLEAN
    BY <1>3 DEF captureVars, CInv, Typed
  <2> QED
    BY <1>3, <2>1, CInvIdle DEF captureVars
<1> QED
  BY <1>1, <1>2, <1>3 DEF CaptureNext

LEMMA CInvAlways == ASSUME Followed PROVE CaptureSpec => []CInv
<1>1. CaptureInit => CInv
  BY CInvInit
<1>2. CInv /\ [CaptureNext]_captureVars => CInv'
  BY CInvKept
<1> QED
  BY <1>1, <1>2, PTL DEF CaptureSpec

-----------------------------------------------------------------------------
(* Theorems *)

(***************************************************************************)
(* However software starts and stops sensor and capture, the words that    *)
(* camera_sampler_converter.vhd puts out while the error bit has not been  *)
(* set are those of one frame, in order, each of its own four pixels.      *)
(***************************************************************************)
THEOREM WordsRight == ASSUME Followed PROVE CaptureSpec => []WordsInOrder
<1>1. CInv => WordsInOrder
  BY DEF CInv, Stages, WordsInOrder
<1> QED
  BY <1>1, CInvAlways, PTL

(***************************************************************************)
(* A picture that camera_sampler_fsm.vhd ends without an error, after its  *)
(* last row or in ST_WAIT_L_NEW_1 with the frame, has all the words of its *)
(* pairs of rows by the time the next one begins; these are all that the   *)
(* frame had for it, unless the sensor was stopped within the frame.       *)
(***************************************************************************)
THEOREM PicturesWhole == ASSUME Followed PROVE CaptureSpec => PictureWhole
<1> DEFINE Whole == PictureBegins /\ pairs # 0 =>
                      /\ (IF voReg THEN wordNo + 1 ELSE wordNo) = pairs * RowWords
                      /\ pairs <= FramePairs /\ (entire => pairs = FramePairs)
<1>1. ASSUME Followed, CInv, [CaptureNext]_captureVars PROVE [Whole]_captureVars
  <2>1. ASSUME PictureBegins, pairs # 0 PROVE Given = pairs * RowWords
    <3>1. fsm = "WAIT_L_NEW_1" /\ rowPairs = 0 /\ ~err
      BY <1>1, <2>1 DEF PictureBegins, CInv, Ended
    <3>2. conv = "IDLE" /\ ~vReg
      BY <1>1, <3>1 DEF CInv, Control, Sampling
    <3> QED
      BY <1>1, <2>1, <3>2 DEF CInv, Ended, Made
  <2>2. pairs # 0 => pairs <= FramePairs /\ (entire => pairs = FramePairs)
    BY <1>1 DEF CInv, Ended
  <2> QED
    BY <2>1, <2>2 DEF Given
<1>2. CInv /\ [CaptureNext]_captureVars => [Whole]_captureVars
  BY <1>1
<1> QED
  BY <1>2, CInvAlways, PTL DEF CaptureSpec, PictureWhole

-----------------------------------------------------------------------------
(* Without a stop, and with frames that hold the picture *)

Fits == stops = 0 /\ FrameHoldsPicture

\* No frame is cut short, so no row of the picture is missing.
Frames ==
  /\ ~genStop /\ ~err /\ (gen = "IDLE" => ~sf)
  /\ fsm \in {"WAIT_L_NEW_1", "WAIT_L_NEW_2"} =>
       sf /\ gen \in {"FRAME_LINE_BLANK", "LINE_LINE_BLANK", "VALID"}
  /\ fsm = "R_ROW_1" => sf /\ gen \in {"LINE_LINE_BLANK", "VALID"}
  /\ fsm = "R_ROW_2" =>
       /\ sf /\ gen \in {"VALID", "LINE_LINE_BLANK", "LINE_FRAME_BLANK", "FRAME_FRAME_BLANK"}
       /\ gen = "FRAME_FRAME_BLANK" => ~sl
       /\ rowPairs # Height => gen \in {"LINE_LINE_BLANK", "VALID"}

\* A word of a row on every second clock.
Cadence ==
  /\ voReg => conv \in {"WR_2", "BLANK", "IDLE"}
  /\ conv = "WR_1" /\ pixCount # 0 => vReg
  /\ conv = "WR_2" /\ pixCount # 1 => voReg
  /\ conv = "WR_2" /\ fsm # "R_ROW_2" => pixCount = Width

\* Between two pictures all words of the last one have come, or come now.
AtRest ==
  ~InPicture => /\ conv = "IDLE" => Made \in {0, Height * Width}
                /\ conv = "CLR" => Made = Height * Width
                /\ conv = "WR_2" => Made = Height * Width - 1

Promise == Fits => Frames /\ Cadence /\ AtRest

\* The end of a frame is not that of the last row of the picture.
EndSeen == \A f \in Formats : f.lf >= 1 \/ 2 * Height # f.height

PInv == CInv /\ stops \in Nat /\ Promise

LEMMA FitsFacts ==
  ASSUME Followed, EndSeen, Sensor, Fits
  PROVE  /\ RowWords = Width /\ Width \in Nat \ {0} /\ Height \in Nat \ {0}
         /\ Height * Width \in Nat /\ Height * Width >= Width
         /\ Cols \in Nat /\ Rows \in Nat /\ 2 * Width <= Cols /\ 2 * Height <= Rows
         /\ conf.lf = 0 => 2 * Height < Rows
<1>1. /\ Cols \in Nat /\ Rows \in Nat /\ Width \in Nat \ {0} /\ Height \in Nat \ {0}
      /\ conf.lf \in Nat
  BY FormatTyped DEF Sensor
<1>2. 2 * Width <= Cols /\ 2 * Height <= Rows
  BY DEF Fits, FrameHoldsPicture, Cols, Rows
<1>3. RowWords = Width
  BY <1>2 DEF RowWords, Cols
<1>4. conf.lf = 0 => 2 * Height # Rows
  BY DEF EndSeen, Sensor, Rows
<1>5. Height * Width \in Nat /\ Height * Width >= Width
  BY <1>1
<1> QED
  BY <1>1, <1>2, <1>3, <1>4, <1>5

LEMMA NotStopped ==
  ASSUME GenClock, ~genStop, gen # "IDLE", Sensor
  PROVE  gen' # "IDLE"
BY DEF GenClock, GenIdle, GenFrameFrameBlank, GenFrameLineBlank, GenLineLineBlank,
       GenLineFrameBlank, GenValid, Blank, BeginFrame, FirstLine, LineEnd, Sensor

LEMMA FramesKept ==
  ASSUME Followed, EndSeen, CInv, Fits, Frames, PixClk, ~genStop'
  PROVE  Frames'
<1>1. Sensor /\ Synced /\ Typed /\ Control /\ Sampling
  BY DEF CInv, Control, Frames
<1>2. SensorClock /\ FsmMoves /\ fsm \in FsmStates /\ sl \in BOOLEAN
  BY <1>1, SensorPart, FsmMovesSo DEF Typed, Synced
<1>3. SensorMoves /\ (gen # "IDLE" => gen' # "IDLE")
  BY <1>1, <1>2, SensorMovesSo, NotStopped DEF SensorClock, Frames
<1>4. (sl' <=> gen = "VALID") /\ (sf' <=> gen \notin {"IDLE", "FRAME_FRAME_BLANK"})
  BY <1>1, <1>2, SensorAhead
<1>5. /\ Height \in Nat \ {0} /\ Cols \in Nat /\ Rows \in Nat /\ Cols >= 2 /\ 2 * Height <= Rows
      /\ conf.lf = 0 => 2 * Height < Rows
  BY <1>1, FitsFacts, FormatTyped DEF Sensor
<1>6. ~err'
  BY <1>2 DEF FsmMoves, Frames, FsmStates
<1>7. gen' = "IDLE" => ~sf'
  BY <1>3, <1>4
<1>8. \* No row of the picture but its last ends a frame.
      \A r \in Nat : gen = "VALID" /\ gh = r + 1 =>
        /\ r + 1 < 2 * Height => gen' \in {"VALID", "LINE_LINE_BLANK"}
        /\ r + 1 <= 2 * Height => gen' \in {"VALID", "LINE_LINE_BLANK", "LINE_FRAME_BLANK"}
  BY <1>1, <1>3, <1>5 DEF SensorMoves, Sensor
<1>9. \* Between two rows, before the next one begins.
      \A r \in Nat : Between(r) /\ ~sl /\ gen \in {"FRAME_LINE_BLANK", "LINE_LINE_BLANK", "VALID"}
        => gen' \in {"FRAME_LINE_BLANK", "LINE_LINE_BLANK", "VALID"} /\ sf'
  BY <1>1, <1>3, <1>4, <1>5 DEF SensorMoves, Between, Synced, Sensor
<1>10. CASE fsm \in {"IDLE", "WAIT_F_END", "BLANK", "SNAPSHOT"}
  <2>1. fsm' \notin {"WAIT_L_NEW_1", "WAIT_L_NEW_2", "R_ROW_1", "R_ROW_2"}
    BY <1>2, <1>10 DEF FsmMoves, AfterFrames
  <2> QED
    BY <1>6, <1>7, <2>1 DEF Frames
<1>11. CASE fsm = "WAIT_F_NEW"
  <2>1. /\ fsm' \notin {"WAIT_L_NEW_2", "R_ROW_1", "R_ROW_2"}
        /\ fsm' = "WAIT_L_NEW_1" => sf
    BY <1>2, <1>11 DEF FsmMoves
  <2>2. sf => gen = "FRAME_LINE_BLANK" \/ (gen = "VALID" /\ gw = 1)
    BY <1>1, <1>11 DEF Control, FrameStarts, Frames
  <2>3. sf => sf' /\ gen' \in {"FRAME_LINE_BLANK", "VALID"}
    BY <1>3, <1>4, <1>5, <2>2 DEF SensorMoves
  <2> QED
    BY <1>6, <1>7, <2>1, <2>3 DEF Frames
<1>12. CASE fsm \in {"WAIT_L_NEW_1", "WAIT_L_NEW_2"}
  <2>1. PICK r \in Nat : Between(r) /\ IF fsm = "WAIT_L_NEW_1" THEN r + 1 < 2 * Height
                                       ELSE r = 2 * (rowPairs - 1) + 1 /\ rowPairs \in 1 .. Height
    <3>1. CASE fsm = "WAIT_L_NEW_1" /\ rowPairs = 0
      BY <1>1, <1>5, <3>1 DEF Sampling
    <3>2. CASE fsm = "WAIT_L_NEW_1" /\ rowPairs # 0
      <4>1. rowPairs \in 1 .. Height - 1 /\ Between(2 * rowPairs)
        BY <1>1, <3>2 DEF Sampling
      <4>2. 2 * rowPairs \in Nat /\ 2 * rowPairs + 1 < 2 * Height
        BY <1>5, <4>1
      <4> QED
        BY <3>2, <4>1, <4>2
    <3>3. CASE fsm = "WAIT_L_NEW_2"
      <4>1. rowPairs \in 1 .. Height /\ Between(2 * (rowPairs - 1) + 1)
        BY <1>1, <3>3 DEF Sampling
      <4>2. 2 * (rowPairs - 1) + 1 \in Nat
        BY <1>5, <4>1
      <4> QED
        BY <3>3, <4>1, <4>2
    <3> QED
      BY <1>12, <3>1, <3>2, <3>3
  <2>2. sf /\ gen \in {"FRAME_LINE_BLANK", "LINE_LINE_BLANK", "VALID"}
    BY <1>12 DEF Frames
  <2>3. CASE ~sl
    <3>1. fsm' = fsm
      BY <1>2, <1>12, <2>2, <2>3 DEF FsmMoves
    <3>2. gen' \in {"FRAME_LINE_BLANK", "LINE_LINE_BLANK", "VALID"} /\ sf'
      BY <1>9, <2>1, <2>2, <2>3
    <3> QED
      BY <1>6, <1>7, <1>12, <3>1, <3>2 DEF Frames
  <2>4. CASE sl
    <3>1. gen = "VALID" /\ gh = r + 1
      BY <1>1, <2>1, <2>2, <2>4 DEF Between, Synced
    <3>2. sf'
      BY <1>4, <3>1
    <3>3. CASE fsm = "WAIT_L_NEW_1"
      <4>1. fsm' = "R_ROW_1"
        BY <1>2, <2>2, <2>4, <3>3 DEF FsmMoves
      <4>2. gen' \in {"LINE_LINE_BLANK", "VALID"}
        BY <1>8, <2>1, <3>1, <3>3
      <4> QED
        BY <1>6, <1>7, <3>2, <4>1, <4>2 DEF Frames
    <3>4. CASE fsm = "WAIT_L_NEW_2"
      <4>1. fsm' = "R_ROW_2" /\ rowPairs' = rowPairs
        BY <1>2, <2>4, <3>4 DEF FsmMoves
      <4>2. r + 1 <= 2 * Height /\ (rowPairs # Height => r + 1 < 2 * Height)
        BY <1>5, <2>1, <3>4
      <4>3. /\ gen' \in {"VALID", "LINE_LINE_BLANK", "LINE_FRAME_BLANK"}
            /\ rowPairs # Height => gen' \in {"VALID", "LINE_LINE_BLANK"}
        BY <1>8, <3>1, <4>2
      <4> QED
        BY <1>6, <1>7, <3>2, <4>1, <4>3 DEF Frames
    <3> QED
      BY <1>12, <3>3, <3>4
  <2> QED
    BY <1>2, <2>3, <2>4
<1>13. CASE fsm = "R_ROW_1"
  <2>1. rowPairs \in 1 .. Height /\ InRow(2 * (rowPairs - 1), Len(lineFifo))
    BY <1>1, <1>13 DEF Sampling
  <2>2. PICK r \in Nat : r = 2 * (rowPairs - 1) /\ r + 1 < 2 * Height
    BY <1>5, <2>1
  <2>3. /\ gen \in {"LINE_LINE_BLANK", "VALID"} /\ sf
        /\ gen = "VALID" => sl /\ gh = r + 1
    BY <1>13, <2>1, <2>2 DEF Frames, InRow
  <2>4. sf'
    BY <1>4, <2>3
  <2>5. gen' \in {"LINE_LINE_BLANK", "VALID"}
    BY <1>3, <1>8, <2>2, <2>3 DEF SensorMoves
  <2>6. fsm' \in {"R_ROW_1", "WAIT_L_NEW_2"}
    BY <1>2, <1>13 DEF FsmMoves
  <2> QED
    BY <1>6, <1>7, <2>4, <2>5, <2>6 DEF Frames
<1>14. CASE fsm = "R_ROW_2"
  <2>1. PICK c \in 0 .. Cols - 1 : InRow(2 * (rowPairs - 1) + 1, c)
    BY <1>1, <1>14 DEF Sampling
  <2>2. PICK r \in Nat : r = 2 * (rowPairs - 1) + 1 /\ r + 1 <= 2 * Height
                         /\ (rowPairs # Height => r + 1 < 2 * Height)
    <3>1. rowPairs \in 1 .. Height
      BY <1>1, <1>14 DEF Sampling
    <3> QED
      BY <1>5, <3>1
  <2>3. /\ gen \in {"VALID", "LINE_LINE_BLANK", "LINE_FRAME_BLANK", "FRAME_FRAME_BLANK"} /\ sf
        /\ gen = "FRAME_FRAME_BLANK" => ~sl
        /\ rowPairs # Height => gen \in {"LINE_LINE_BLANK", "VALID"}
        /\ gen = "VALID" => sl /\ gh = r + 1
    BY <1>14, <2>1, <2>2 DEF Frames, InRow
  <2>4. CASE sl
    <3>1. fsm' = "R_ROW_2" /\ rowPairs' = rowPairs
      BY <1>2, <1>14, <2>4 DEF FsmMoves
    <3>2. sf'
      BY <1>4, <2>3, <2>4
    <3>3. CASE gen = "VALID"
      <4>1. /\ gen' \in {"VALID", "LINE_LINE_BLANK", "LINE_FRAME_BLANK"}
            /\ rowPairs # Height => gen' \in {"VALID", "LINE_LINE_BLANK"}
        BY <1>8, <2>2, <2>3, <3>3
      <4> QED
        BY <1>6, <1>7, <3>1, <3>2, <4>1 DEF Frames
    <3>4. CASE gen # "VALID"
      <4>1. /\ gen' \in {"VALID", "LINE_LINE_BLANK", "LINE_FRAME_BLANK", "FRAME_FRAME_BLANK"} /\ ~sl'
            /\ rowPairs # Height => gen' \in {"VALID", "LINE_LINE_BLANK"}
        BY <1>3, <1>4, <2>3, <2>4, <3>4 DEF SensorMoves
      <4> QED
        BY <1>6, <1>7, <3>1, <3>2, <4>1 DEF Frames
    <3> QED
      BY <3>3, <3>4
  <2>5. CASE ~sl
    <3>1. /\ fsm' = IF rowPairs = Height THEN "BLANK" ELSE "WAIT_L_NEW_1"
      BY <1>2, <1>14, <2>5 DEF FsmMoves
    <3>2. rowPairs # Height => sf' /\ gen' \in {"VALID", "LINE_LINE_BLANK"}
      BY <1>3, <1>4, <2>3, <2>5 DEF SensorMoves
    <3> QED
      BY <1>6, <1>7, <3>1, <3>2 DEF Frames
  <2> QED
    BY <1>2, <2>4, <2>5
<1> QED
  BY <1>2, <1>10, <1>11, <1>12, <1>13, <1>14 DEF FsmStates

LEMMA CadenceKept ==
  ASSUME Followed, EndSeen, CInv, Fits, Frames, Cadence, PixClk
  PROVE  Cadence'
<1>1. Sensor /\ Synced /\ Typed /\ Control /\ Sampling
  BY DEF CInv, Control, Frames
<1>2. ConvMoves /\ FsmMoves /\ conv \in ConverterStates /\ fsm \in FsmStates /\ vReg \in BOOLEAN
  BY <1>1, ConvMovesSo, FsmMovesSo DEF Typed
<1>3. RowWords = Width /\ 2 * Width <= Cols /\ Width \in Nat /\ Cols \in Nat
      /\ Width < WidthSpace /\ WidthSpace \in Nat \ {0}
  BY <1>1, FitsFacts, ConverterAssumption DEF Followed
<1>4. voReg' => conv' \in {"WR_2", "BLANK", "IDLE"}
  BY <1>1, <1>2 DEF ConvMoves, Control
<1>5. conv' = "WR_1" /\ pixCount' # 0 => vReg'
  BY <1>2 DEF ConvMoves, ConverterStates
<1>6. ASSUME conv' = "WR_2"
      PROVE  (pixCount' # 1 => voReg') /\ (fsm' # "R_ROW_2" => pixCount' = Width)
  <2>1. conv = "WR_1"
    BY <1>2, <1>6 DEF ConvMoves, ConverterStates
  <2>2. fsm = "R_ROW_2"
    BY <1>1, <1>2, <2>1 DEF Sampling, Control, Flushing, Rest, FsmStates
  <2>3. PICK c \in 0 .. Cols - 1 : InRow(2 * (rowPairs - 1) + 1, c) /\ Scanned(c)
    BY <1>1, <2>2 DEF Sampling
  <2>4. c = 2 * pixCount + 1 /\ pixCount < RowWords /\ pixCount \in Nat
    BY <1>1, <2>1, <2>3 DEF Scanned, Typed
  <2>5. pixCount' = pixCount + 1
    <3>1. pixCount' = (pixCount + 1) % WidthSpace
      BY <1>2, <2>1 DEF ConvMoves
    <3>2. pixCount + 1 \in 0 .. WidthSpace - 1
      BY <1>3, <2>4
    <3>3. (pixCount + 1) % WidthSpace = pixCount + 1
      BY <1>3, <3>2, ModSmall
    <3> QED
      BY <3>1, <3>3
  <2>6. pixCount' # 1 => voReg'
    <3>1. pixCount' # 1 => pixCount # 0
      BY <2>4, <2>5
    <3> QED
      BY <1>2, <2>1, <3>1 DEF Cadence, ConvMoves
  <2>7. ASSUME fsm' # "R_ROW_2" PROVE pixCount' = Width
    <3>1. ~sl /\ sf
      BY <1>2, <2>2, <2>7 DEF FsmMoves, Frames
    <3>2. c = Cols - 1
      BY <2>3, <3>1 DEF InRow
    <3> QED
      BY <1>3, <2>4, <2>5, <3>2
  <2> QED
    BY <2>6, <2>7
<1> QED
  BY <1>4, <1>5, <1>6 DEF Cadence

LEMMA AtRestKept ==
  ASSUME Followed, EndSeen, CInv, Fits, Frames, AtRest, PixClk
  PROVE  AtRest'
<1>1. Sensor /\ Synced /\ Typed /\ Control /\ Sampling
  BY DEF CInv, Control, Frames
<1>2. ConvMoves /\ FsmMoves /\ conv \in ConverterStates /\ fsm \in FsmStates /\ Made \in Nat
  BY <1>1, ConvMovesSo, FsmMovesSo, MadeMoves DEF Typed
<1>3. RowWords = Width /\ Height * Width \in Nat
  BY <1>1, FitsFacts
<1>4. ASSUME ~InPicture'
      PROVE  /\ ~PictureBegins /\ ~ScanRow2 /\ conv # "WR_1"
             /\ conv \in {"IDLE", "BLANK"} => Made \in {0, Height * Width}
             /\ conv = "CLR" => Made = Height * Width
             /\ conv = "WR_2" => Made = Height * Width - 1
  <2>1. CASE InPicture
    <3>1. fsm = "BLANK"
      <4>1. fsm = "R_ROW_2" => rowPairs # 0
        BY <1>1 DEF Sampling
      <4>2. fsm = "WAIT_L_NEW_1" => sf
        BY DEF Frames
      <4> QED
        BY <1>2, <1>4, <2>1, <4>1, <4>2 DEF InPicture, FsmMoves
    <3>2. rowPairs = Height /\ Flushing
      BY <1>1, <3>1 DEF Sampling
    <3> QED
      BY <1>3, <3>1, <3>2 DEF Flushing, ScanRow2, PictureBegins
  <2>2. CASE ~InPicture
    <3>1. fsm \in Rest \/ (fsm = "WAIT_L_NEW_1" /\ rowPairs = 0)
      BY <1>2, <2>2 DEF InPicture, Rest, FsmStates
    <3>2. conv \in {"WR_2", "CLR", "IDLE"}
      BY <1>1, <3>1 DEF Control, Sampling
    <3>3. ~PictureBegins
      BY <1>4 DEF PictureBegins, InPicture
    <3>4. ~ScanRow2
      BY <3>1 DEF ScanRow2, Rest
    <3> QED
      BY <2>2, <3>2, <3>3, <3>4 DEF AtRest
  <2> QED
    BY <2>1, <2>2
<1>5. ASSUME ~InPicture'
      PROVE  /\ conv' = "IDLE" => Made' \in {0, Height * Width}
             /\ conv' = "CLR" => Made' = Height * Width
             /\ conv' # "WR_2"
  <2>1. Made' = IF conv = "WR_2" THEN Made + 1 ELSE Made
    BY <1>1, <1>4, <1>5, MadeMoves
  <2>2. conv' = IF conv = "WR_2" THEN "CLR" ELSE "IDLE"
    BY <1>2, <1>4, <1>5 DEF ConvMoves, ConverterStates
  <2> QED
    BY <1>2, <1>3, <1>4, <1>5, <2>1, <2>2 DEF ConverterStates
<1> QED
  BY <1>5 DEF AtRest

LEMMA PromiseIdle ==
  ASSUME PInv, UNCHANGED <<genVars, samplerVars, parity, wordNo, stops, flawed, pairs, entire>>
  PROVE  stops' \in Nat /\ Promise'
<1>1. /\ UNCHANGED <<gen, conf, genStart, genStop, gw, gh, gb>>
      /\ UNCHANGED <<sf, sl, sd, fsm, rowPairs, err, pixel, conv, pixCount, vReg, voReg>>
      /\ UNCHANGED <<wordNo, stops>>
  BY DEF genVars, samplerVars, fsmVars, converterVars
<1>2. Fits' = Fits /\ Frames' = Frames /\ Cadence' = Cadence
  BY <1>1 DEF Fits, FrameHoldsPicture, Frames, Cadence
<1>3. AtRest' = AtRest
  <2>1. Made' = Made /\ InPicture' = InPicture
    BY <1>1 DEF Made, Given, InPicture
  <2> QED
    BY <1>1, <2>1 DEF AtRest
<1> QED
  BY <1>1, <1>2, <1>3 DEF PInv, Promise

\* With no stop after a clock there was none before it.
LEMMA NoStopYet ==
  ASSUME PixClk, stops \in Nat
  PROVE  stops' \in Nat /\ (stops' = 0 => stops = 0 /\ ~genStop') /\ conf' = conf
<1>1. CASE GenNoWrite /\ UNCHANGED stops
  BY <1>1 DEF GenNoWrite
<1>2. CASE GenCommand("START") /\ UNCHANGED stops
  BY <1>2 DEF GenCommand
<1>3. CASE GenCommand("STOP") /\ stops' = stops + 1
  BY <1>3 DEF GenCommand
<1> QED
  BY <1>1, <1>2, <1>3 DEF PixClk

LEMMA PromiseKept ==
  ASSUME Followed, EndSeen, PInv, PixClk
  PROVE  stops' \in Nat /\ Promise'
<1>1. stops' \in Nat /\ (stops' = 0 => stops = 0 /\ ~genStop') /\ conf' = conf
  BY NoStopYet DEF PInv
<1>2. ASSUME Fits' PROVE Frames' /\ Cadence' /\ AtRest'
  <2>1. Fits /\ ~genStop'
    BY <1>1, <1>2 DEF Fits, FrameHoldsPicture
  <2>2. CInv /\ Frames /\ Cadence /\ AtRest
    BY <2>1 DEF PInv, Promise
  <2> QED
    BY <2>1, <2>2, FramesKept, CadenceKept, AtRestKept
<1> QED
  BY <1>1, <1>2 DEF Promise

LEMMA PInvAlways == ASSUME Followed, EndSeen PROVE CaptureSpec => []PInv
<1>1. CaptureInit => PInv
  <2> SUFFICES ASSUME CaptureInit PROVE PInv
    OBVIOUS
  <2>1. CInv
    BY CInvInit
  <2>2. /\ genStop = FALSE /\ stops = 0 /\ err = FALSE /\ sf = FALSE /\ fsm = "IDLE" /\ conv = "IDLE"
        /\ voReg = FALSE /\ vReg = FALSE /\ wordNo = 0
    BY DEF CaptureInit, GenInit, SamplerInit, FsmInit, ConverterInit
  <2>3. Made = 0
    BY <2>2 DEF Made, Given
  <2> QED
    BY <2>1, <2>2, <2>3 DEF PInv, Promise, Frames, Cadence, AtRest
<1>2. PInv /\ [CaptureNext]_captureVars => PInv'
  <2> SUFFICES ASSUME PInv, [CaptureNext]_captureVars PROVE PInv'
    OBVIOUS
  <2>1. CInv'
    BY CInvKept DEF PInv
  <2>2. stops' \in Nat /\ Promise'
    <3>1. CASE PixClk
      BY <3>1, PromiseKept
    <3>2. CASE Command \/ UNCHANGED captureVars
      BY <3>2, PromiseIdle DEF Command, captureVars
    <3> QED
      BY <3>1, <3>2 DEF CaptureNext
  <2> QED
    BY <2>1, <2>2 DEF PInv
<1> QED
  BY <1>1, <1>2, PTL DEF CaptureSpec

-----------------------------------------------------------------------------
(* The steps of the sampler are those that PictureSource promises *)

LEMMA Multiple == ASSUME NEW W \in Nat \ {0}, NEW k \in Nat PROVE (k * W) % W = 0
<1>1. 0 \in 0 .. W - 1
  OBVIOUS
<1>2. (k * W + 0) % W = 0
  BY <1>1, RowOfWord
<1>3. k * W + 0 = k * W
  OBVIOUS
<1> QED
  BY <1>2, <1>3

LEMMA SourceMoves ==
  ASSUME Followed, EndSeen, PInv, Fits, PixClk, ~PictureBegins
  PROVE  Source!SourceLeaves(start, snapshot)
<1>1. /\ Sensor /\ Synced /\ Typed /\ Control /\ Sampling /\ Frames
      /\ FsmClock(start, snapshot, Height, sf, sl, sd) /\ FsmMoves
      /\ start \in BOOLEAN /\ snapshot \in BOOLEAN /\ sf \in BOOLEAN /\ sl \in BOOLEAN
  BY FsmMovesSo DEF PInv, CInv, Promise, Frames, Control, Typed, Synced, PixClk, SamplerClock
<1>2. fsm = "BLANK" => Source!PictureOver
  <2> SUFFICES ASSUME fsm = "BLANK" PROVE Source!PictureOver
    OBVIOUS
  <2>1. /\ Made = IF conv = "WR_2" THEN Height * Width - 1 ELSE Height * Width
        /\ Height * Width \in Nat
    BY <1>1, FitsFacts DEF Sampling, Flushing
  <2>2. vReg => conv = "CLR"
    BY <1>1 DEF Control, Sampling, Flushing
  <2>3. Given \in Nat /\ vReg \in BOOLEAN
    BY <1>1, MadeMoves DEF Typed
  <2>4. Given >= Height * Width - 1
    BY <2>1, <2>2, <2>3 DEF Made
  <2> QED
    BY <2>4 DEF Source!PictureOver, Source!Out, Given
<1> USE DEF Source!SourceLeaves
<1>3. CASE FsmIdle(start, sf)
  <2>1. fsm = "IDLE" /\ fsm' = IF start THEN IF sf THEN "WAIT_F_END" ELSE "WAIT_F_NEW" ELSE "IDLE"
    BY <1>1, <1>3 DEF FsmIdle
  <2>2. SourceState = "IDLE" /\ SourceState' = IF start THEN "WAIT" ELSE "IDLE"
    BY <1>1, <2>1 DEF SourceState
  <2> QED
    BY <2>2
<1>4. CASE FsmWaitFEnd(start, sf) \/ FsmWaitFNew(start, sf)
  <2>1. /\ fsm \in {"WAIT_F_END", "WAIT_F_NEW"}
        /\ \/ ~start /\ fsm' = "IDLE"
           \/ fsm' \in {"WAIT_F_END", "WAIT_F_NEW"}
           \/ fsm' = "WAIT_L_NEW_1" /\ rowPairs' = 0
    BY <1>1, <1>4 DEF FsmWaitFEnd, FsmWaitFNew
  <2>2. SourceState = "WAIT" /\ (SourceState' = "WAIT" \/ (~start /\ SourceState' = "IDLE"))
    BY <2>1 DEF SourceState
  <2> QED
    BY <2>2
<1>5. CASE fsm = "WAIT_L_NEW_1"
  <2>1. sf
    BY <1>1, <1>5 DEF Frames
  <2>2. fsm' \in {"R_ROW_1", "WAIT_L_NEW_1"} /\ (fsm' = "WAIT_L_NEW_1" => rowPairs' = rowPairs)
        /\ (fsm' = "R_ROW_1" => rowPairs # 0)
    BY <1>1, <1>5, <2>1 DEF FsmMoves, PictureBegins
  <2>3. CASE rowPairs = 0
    <3>1. SourceState = "WAIT" /\ SourceState' = "WAIT"
      BY <1>5, <2>2, <2>3 DEF SourceState
    <3> QED
      BY <3>1
  <2>4. CASE rowPairs # 0
    <3>1. SourceState = "PICTURE" /\ SourceState' = "PICTURE"
      BY <1>5, <2>2, <2>4 DEF SourceState
    <3> QED
      BY <3>1
  <2> QED
    BY <2>3, <2>4
<1>6. CASE fsm \in {"R_ROW_1", "WAIT_L_NEW_2", "R_ROW_2"}
  <2>1. fsm' \in {"R_ROW_1", "WAIT_L_NEW_2", "R_ROW_2", "BLANK", "WAIT_L_NEW_1"} /\ rowPairs' # 0
    <3>1. rowPairs \in 1 .. Height
      BY <1>1, <1>6 DEF Sampling
    <3> QED
      BY <1>1, <1>6, <3>1 DEF FsmMoves
  <2>2. SourceState = "PICTURE" /\ SourceState' = "PICTURE"
    BY <1>6, <2>1 DEF SourceState
  <2> QED
    BY <2>2
<1>7. CASE FsmBlank(start, snapshot, sf)
  <2>1. fsm = "BLANK" /\ fsm' = IF sf THEN "BLANK" ELSE AfterFrame(start, snapshot)
    BY <1>7 DEF FsmBlank
  <2>2. SourceState = "PICTURE"
    BY <2>1 DEF SourceState
  <2>3. CASE sf
    BY <2>1, <2>2, <2>3 DEF SourceState
  <2>4. CASE ~sf
    <3>1. fsm' = IF start THEN IF snapshot THEN "SNAPSHOT" ELSE "WAIT_F_NEW" ELSE "IDLE"
      BY <1>1, <2>1, <2>4 DEF AfterFrame
    <3>2. SourceState' = IF start THEN IF snapshot THEN "SNAPSHOT" ELSE "WAIT" ELSE "IDLE"
      BY <3>1 DEF SourceState
    <3>3. SourceState' = CASE start /\ snapshot  -> "SNAPSHOT"
                            [] start /\ ~snapshot -> "WAIT"
                            [] ~start             -> "IDLE"
      BY <1>1, <3>2
    <3> QED
      BY <1>2, <2>1, <2>2, <3>3
  <2> QED
    BY <1>1, <2>3, <2>4
<1>8. CASE FsmSnapshot(start, snapshot)
  <2>1. fsm = "SNAPSHOT" /\ fsm' = IF start /\ snapshot THEN "SNAPSHOT" ELSE "IDLE"
    BY <1>8 DEF FsmSnapshot
  <2>2. SourceState = "SNAPSHOT" /\ SourceState' = IF start /\ snapshot THEN "SNAPSHOT" ELSE "IDLE"
    BY <2>1 DEF SourceState
  <2> QED
    BY <2>2
<1> QED
  BY <1>1, <1>3, <1>4, <1>5, <1>6, <1>7, <1>8
     DEF FsmClock, FsmWaitLNew1, FsmRow1, FsmWaitLNew2, FsmRow2

\* The output register is filled on every second clock of a row.
LEMMA WordDue ==
  ASSUME Followed, EndSeen, PInv, Fits
  PROVE  /\ ~voReg /\ ~vReg => wordNo % Width = 0
         /\ vReg => /\ ~voReg
                    /\ wordNo = Height * Width - 1 \/ (SourceState = "PICTURE" /\ wordNo < Height * Width)
<1>1. /\ Sensor /\ Synced /\ Typed /\ Control /\ Sampling /\ Cadence /\ AtRest
      /\ voReg \in BOOLEAN /\ vReg \in BOOLEAN /\ wordNo \in Nat /\ rowPairs \in Nat /\ fsm \in FsmStates
  BY DEF PInv, CInv, Promise, Frames, Control, Typed
<1>2. /\ RowWords = Width /\ Width \in Nat \ {0} /\ Height \in Nat \ {0} /\ Height * Width \in Nat
      /\ rowPairs * Width \in Nat /\ Cols \in Nat
  BY <1>1, FitsFacts
<1>3. rowPairs \in 1 .. Height => rowPairs * Width <= Height * Width
  BY <1>2
<1>4. rowPairs * Width = Base + Width /\ Base \in Int /\ (rowPairs >= 1 => Base % Width = 0)
  <2>1. Base = (rowPairs - 1) * Width
    BY <1>2 DEF Base
  <2>2. (rowPairs - 1) * Width = rowPairs * Width - Width
    BY <1>1, <1>2
  <2>3. rowPairs >= 1 => rowPairs - 1 \in Nat
    BY <1>1
  <2>4. rowPairs >= 1 => ((rowPairs - 1) * Width) % Width = 0
    BY <1>2, <2>3, Multiple
  <2> QED
    BY <1>2, <2>1, <2>2, <2>4
<1>5. (rowPairs * Width) % Width = 0 /\ (Height * Width) % Width = 0 /\ 0 % Width = 0
  <2>1. 0 * Width = 0
    BY <1>2
  <2> QED
    BY <1>1, <1>2, <2>1, Multiple
<1>6. ~voReg /\ ~vReg => Made = wordNo
  BY DEF Made, Given
<1>7. vReg => ~voReg /\ Made = wordNo + 1 /\ conv \in {"WR_1", "CLR"}
  <2>1. vReg => conv \in {"WR_1", "CLR"}
    BY <1>1 DEF Control
  <2>2. vReg => ~voReg
    BY <1>1, <2>1 DEF Cadence
  <2> QED
    BY <2>1, <2>2 DEF Made, Given
<1>8. \* What has been made, by state.
      /\ fsm \in {"R_ROW_1", "WAIT_L_NEW_2"} => conv = "IDLE" /\ Made = Base /\ rowPairs \in 1 .. Height
      /\ fsm = "R_ROW_2" =>
           /\ rowPairs \in 1 .. Height /\ conv \in ConverterStates
           /\ conv = "IDLE" => Made = Base
           /\ conv = "WR_1" => Made = Base + pixCount /\ pixCount < Width
           /\ conv = "WR_2" => Made = Base + pixCount - 1
           /\ conv \in {"CLR", "BLANK"} => Made = Base + Width
      /\ fsm = "BLANK" \/ (fsm = "WAIT_L_NEW_1" /\ rowPairs # 0) =>
           /\ conv \in {"WR_2", "CLR", "BLANK", "IDLE"}
           /\ Made = IF conv = "WR_2" THEN rowPairs * Width - 1 ELSE rowPairs * Width
           /\ rowPairs \in 1 .. Height
  <2>1. fsm \in {"R_ROW_1", "WAIT_L_NEW_2"} => conv = "IDLE" /\ Made = Base /\ rowPairs \in 1 .. Height
    BY <1>1 DEF Sampling
  <2>2. ASSUME fsm = "R_ROW_2"
        PROVE  /\ rowPairs \in 1 .. Height /\ conv \in ConverterStates
               /\ conv = "IDLE" => Made = Base
               /\ conv = "WR_1" => Made = Base + pixCount /\ pixCount < RowWords
               /\ conv = "WR_2" => Made = Base + pixCount - 1
               /\ conv \in {"CLR", "BLANK"} => Made = Base + RowWords
    <3>1. conv \in ConverterStates
      BY <1>1 DEF Typed
    <3>2. rowPairs \in 1 .. Height /\ \E c \in 0 .. Cols - 1 : Scanned(c)
      BY <1>1, <2>2, Zenon DEF Sampling
    <3>3. PICK c : Scanned(c)
      BY <3>2
    <3> QED
      BY <3>1, <3>2, <3>3, Zenon DEF Scanned
  <2>3. ASSUME fsm = "BLANK" \/ (fsm = "WAIT_L_NEW_1" /\ rowPairs # 0)
        PROVE  /\ conv \in {"WR_2", "CLR", "BLANK", "IDLE"}
               /\ Made = IF conv = "WR_2" THEN rowPairs * RowWords - 1 ELSE rowPairs * RowWords
               /\ rowPairs \in 1 .. Height
    <3>1. Flushing
      BY <1>1, <2>3 DEF Sampling
    <3>2. rowPairs \in 1 .. Height
      BY <1>1, <1>2, <2>3 DEF Sampling
    <3> QED
      BY <3>1, <3>2, Zenon DEF Flushing
  <2> QED
    BY <1>2, <2>1, <2>2, <2>3
<1>9. CASE fsm = "R_ROW_2"
  <2>1. /\ pixCount \in Nat
        /\ conv = "WR_1" /\ ~vReg => pixCount = 0
        /\ conv = "WR_2" /\ ~voReg => pixCount = 1
        /\ conv = "CLR" => vReg
    BY <1>1 DEF Cadence, Typed, Control
  <2>2. ~voReg /\ ~vReg => Made = Base \/ Made = rowPairs * Width
    BY <1>4, <1>8, <1>9, <2>1 DEF ConverterStates
  <2>3. rowPairs >= 1
    BY <1>8, <1>9
  <2>4. ~voReg /\ ~vReg => wordNo % Width = 0
    BY <1>4, <1>5, <1>6, <2>2, <2>3
  <2>5. vReg => Made <= rowPairs * Width
    BY <1>2, <1>4, <1>7, <1>8, <1>9, <2>1
  <2>6. vReg => wordNo < Height * Width
    BY <1>1, <1>2, <1>3, <1>7, <1>8, <1>9, <2>5
  <2>7. SourceState = "PICTURE"
    BY <1>9 DEF SourceState
  <2> QED
    BY <1>7, <2>4, <2>6, <2>7
<1>10. CASE fsm \in {"R_ROW_1", "WAIT_L_NEW_2"}
  <2>1. ~vReg /\ Made = Base /\ rowPairs >= 1
    BY <1>7, <1>8, <1>10
  <2> QED
    BY <1>4, <1>6, <2>1
<1>11. CASE fsm = "BLANK" \/ (fsm = "WAIT_L_NEW_1" /\ rowPairs # 0)
  <2>1. SourceState = "PICTURE"
    BY <1>11 DEF SourceState
  <2>2. vReg => wordNo < Height * Width
    BY <1>1, <1>2, <1>3, <1>7, <1>8, <1>11
  <2>3. CASE conv = "WR_2"
    <3>1. Width = 1 \/ voReg
      BY <1>1, <1>11, <2>3 DEF Cadence
    <3>2. Width = 1 => wordNo % Width = 0
      BY <1>1
    <3> QED
      BY <1>7, <2>1, <2>2, <3>1, <3>2
  <2>4. CASE conv # "WR_2"
    <3>1. ~voReg /\ ~vReg => wordNo % Width = 0
      BY <1>5, <1>6, <1>8, <1>11, <2>4
    <3> QED
      BY <1>7, <2>1, <2>2, <3>1
  <2> QED
    BY <2>3, <2>4
<1>12. CASE ~InPicture
  <2>1. /\ conv \in {"WR_2", "CLR", "IDLE"} /\ fsm # "R_ROW_2"
    BY <1>1, <1>12 DEF InPicture, Control, Sampling, Rest, FsmStates
  <2>2. vReg => wordNo = Height * Width - 1
    <3>1. vReg => Made = Height * Width
      <4>1. vReg => conv = "CLR"
        BY <1>7, <2>1
      <4>2. conv = "CLR" => Made = Height * Width
        BY <1>1, <1>12 DEF AtRest
      <4> QED
        BY <4>1, <4>2
    <3> QED
      BY <1>1, <1>2, <1>7, <3>1
  <2>3. ~voReg /\ ~vReg => wordNo % Width = 0
    <3>1. CASE conv = "WR_2"
      <4>1. Width = 1 \/ voReg
        BY <1>1, <2>1, <3>1 DEF Cadence
      <4>2. Width = 1 => wordNo % Width = 0
        BY <1>1
      <4> QED
        BY <4>1, <4>2
    <3>2. CASE conv \in {"CLR", "IDLE"}
      <4>1. Made \in {0, Height * Width}
        BY <1>1, <1>12, <3>2 DEF AtRest
      <4> QED
        BY <1>5, <1>6, <4>1
    <3> QED
      BY <2>1, <3>1, <3>2
  <2> QED
    BY <1>7, <2>2, <2>3
<1> QED
  BY <1>1, <1>9, <1>10, <1>11, <1>12 DEF InPicture, FsmStates

LEMMA SourceStep ==
  ASSUME Followed, EndSeen, PInv, Fits, PixClk
  PROVE  Source!SourceClock(start, snapshot)
<1>1. Sensor /\ Synced /\ Typed /\ Control /\ Sampling
  BY DEF PInv, CInv, Promise, Frames, Control
<1>2. ConvMoves /\ FsmMoves /\ vReg \in BOOLEAN /\ voReg \in BOOLEAN
  BY <1>1, ConvMovesSo, FsmMovesSo DEF Typed
<1>3. /\ ~voReg /\ ~vReg => wordNo % Width = 0
      /\ vReg => /\ ~voReg
                 /\ wordNo = Height * Width - 1 \/ (SourceState = "PICTURE" /\ wordNo < Height * Width)
  BY WordDue
<1>4. /\ ~PictureBegins => wordNo' = Given
      /\ PictureBegins => wordNo' = 0
  BY <1>1, MadeMoves
<1>5. voReg' = vReg
  BY <1>2 DEF ConvMoves
<1>6. CASE ~PictureBegins
  <2>1. Source!SourceLeaves(start, snapshot)
    BY <1>6, SourceMoves
  <2>2. wordNo' = Source!Out
    BY <1>4, <1>6 DEF Source!Out, Given
  <2>3. Source!MustCome => voReg'
    BY <1>2, <1>3, <1>5 DEF Source!MustCome, Source!InRow
  <2>4. voReg' => Source!MayCome
    BY <1>2, <1>3, <1>5 DEF Source!MayCome
  <2> QED
    BY <1>2, <1>5, <2>1, <2>2, <2>3, <2>4 DEF Source!SourceClock, Source!GoesOn
<1>7. CASE PictureBegins
  <2>1. fsm = "WAIT_L_NEW_1" /\ fsm' = "R_ROW_1" /\ rowPairs = 0
    BY <1>7 DEF PictureBegins
  <2>2. conv = "IDLE" /\ ~vReg
    BY <1>1, <2>1 DEF Control, Sampling
  <2>3. SourceState = "WAIT" /\ SourceState' = "PICTURE"
    BY <2>1 DEF SourceState
  <2>4. Given % Width = 0
    <3>1. Made \in {0, Height * Width}
      BY <2>1, <2>2 DEF PInv, Promise, AtRest, InPicture
    <3>2. (Height * Width) % Width = 0 /\ 0 % Width = 0
      <4>1. Width \in Nat \ {0} /\ Height \in Nat
        BY <1>1, FitsFacts
      <4>2. (Height * Width) % Width = 0 /\ (0 * Width) % Width = 0
        BY <4>1, Multiple
      <4>3. 0 * Width = 0
        BY <4>1
      <4> QED
        BY <4>2, <4>3
    <3>3. Given = Made
      BY <2>2 DEF Made
    <3> QED
      BY <3>1, <3>2, <3>3
  <2>5. wordNo' = 0 /\ voReg' = FALSE
    BY <1>2, <1>4, <1>5, <1>7, <2>2
  <2> QED
    BY <2>3, <2>4, <2>5 DEF Source!SourceClock, Source!PictureStarts, Source!Out, Given
<1> QED
  BY <1>6, <1>7

(***************************************************************************)
(* While no sensor stop has disturbed it, a sampler whose frames hold the  *)
(* picture keeps the promise that PictureSource makes to the rest of the   *)
(* camera controller, for every size of picture and format of frame.       *)
(***************************************************************************)
THEOREM KeepsSourcePromise == ASSUME Followed, EndSeen PROVE CaptureSpec => KeepsPromise
<1> DEFINE Clock == stops' = 0 /\ FrameHoldsPicture => Source!SourceClock(start, snapshot)
<1>1. CaptureInit => Source!SourceInit
  <2> SUFFICES ASSUME CaptureInit PROVE Source!SourceInit
    OBVIOUS
  <2>1. fsm = "IDLE" /\ wordNo = 0 /\ voReg = FALSE
    BY DEF CaptureInit, SamplerInit, FsmInit, ConverterInit
  <2>2. SourceState = "IDLE"
    BY <2>1 DEF SourceState
  <2> QED
    BY <2>1, <2>2 DEF Source!SourceInit
<1>2. ASSUME Followed, EndSeen, PInv, [CaptureNext]_captureVars PROVE [Clock]_(Source!sourceVars)
  <2>1. CASE PixClk
    <3>1. ASSUME stops' = 0, FrameHoldsPicture PROVE Source!SourceClock(start, snapshot)
      <4>1. Fits
        BY <1>2, <2>1, <3>1, NoStopYet DEF Fits, PInv
      <4> QED
        BY <1>2, <2>1, <4>1, SourceStep
    <3> QED
      BY <3>1
  <2>2. CASE Command \/ UNCHANGED captureVars
    <3>1. UNCHANGED <<fsm, rowPairs, wordNo, voReg>>
      BY <2>2 DEF Command, captureVars, samplerVars, fsmVars, converterVars
    <3>2. SourceState' = SourceState
      BY <3>1 DEF SourceState
    <3> QED
      BY <3>1, <3>2 DEF Source!sourceVars
  <2> QED
    BY <1>2, <2>1, <2>2 DEF CaptureNext
<1>3. PInv /\ [CaptureNext]_captureVars => [Clock]_(Source!sourceVars)
  BY <1>2
<1> QED
  BY <1>1, <1>3, PInvAlways, PTL DEF CaptureSpec, KeepsPromise
=============================================================================
