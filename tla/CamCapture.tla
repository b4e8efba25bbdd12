------------------------------ MODULE CamCapture ------------------------------
(***************************************************************************)
(* The capture path in the clock domain of the camera: camera_sampler.vhd  *)
(* behind the image sensor generator of the repository.  Software in the   *)
(* other clock domain starts and stops both at any time.                   *)
(*                                                                         *)
(* Every pixel carries the parity of its frame, so that a word put         *)
(* together from two frames can be told from a word of one.                *)
(***************************************************************************)
EXTENDS Integers, Sequences, CmosGenerator, CamSampler

CONSTANTS
  Formats,        \* the sensor formats to look at
  MaxStops,       \* bound: how often the sensor may be stopped
  Height, Width   \* conf_f_height and conf_f_width: the words of a picture

ASSUME CaptureAssumption == MaxStops \in Nat /\ {Height, Width} \subseteq Nat \ {0}

VARIABLES
  start, snapshot,\* bits 0 and 1 of the camera's command register
  parity,         \* history: of the frame the sensor sends
  wordNo,         \* history: words put out since this picture began
  stops,          \* how often it was stopped
  flawed,         \* history: was the error bit set since then?
  pairs,          \* history: pairs of rows of the last picture, 0 if it had an error
  entire          \* history: was its frame sent to the end?

captureVars == <<genVars, samplerVars, start, snapshot, parity, wordNo, stops, flawed,
                pairs, entire>>

NoPixel == <<0, 0 - 1>>
PixelOut == IF LineValid THEN <<parity, PixelNo>> ELSE NoPixel

CaptureInit ==
  /\ \E format \in Formats : GenInit(format)
  /\ SamplerInit(NoPixel)
  /\ start = FALSE /\ snapshot = FALSE
  /\ parity = 0 /\ wordNo = 0 /\ stops = 0
  /\ flawed = FALSE /\ pairs = 0 /\ entire = FALSE

PictureBegins == fsm = "WAIT_L_NEW_1" /\ fsm' = "R_ROW_1" /\ rowPairs = 0
PictureEnds ==
  \/ fsm = "BLANK" /\ fsm' # "BLANK"
  \/ fsm = "WAIT_L_NEW_1" /\ rowPairs # 0 /\ fsm' \notin {"WAIT_L_NEW_1", "R_ROW_1"}

Watch ==
  /\ parity' = IF ~LineValid /\ LineValid' /\ gh' = 1 THEN 1 - parity ELSE parity
  /\ wordNo' = IF PictureBegins THEN 0 ELSE IF voReg THEN wordNo + 1 ELSE wordNo
  /\ flawed' = (err' \/ (flawed /\ ~PictureBegins))
  /\ pairs' = IF PictureEnds THEN (IF err THEN 0 ELSE rowPairs)
              ELSE IF PictureBegins THEN 0 ELSE pairs
  /\ entire' = IF PictureEnds THEN gen # "IDLE" ELSE entire

\* An edge of pixclk, for sensor and sampler.
PixClk ==
  /\ GenClock
  /\ \/ GenNoWrite /\ UNCHANGED stops
     \/ GenCommand("START") /\ UNCHANGED stops
     \/ stops < MaxStops /\ GenCommand("STOP") /\ stops' = stops + 1
  /\ SamplerClock(start, snapshot, Height, Width, FrameValid, LineValid, PixelOut)
  /\ Watch
  /\ UNCHANGED <<start, snapshot>>

\* Software writes the command register.
Command ==
  /\ start' \in BOOLEAN /\ snapshot' \in BOOLEAN
  /\ UNCHANGED <<genVars, samplerVars, parity, wordNo, stops, flawed, pairs, entire>>

CaptureNext == PixClk \/ Command

CaptureSpec == CaptureInit /\ [][CaptureNext]_captureVars

\* The pixel clock runs for ever.
CaptureFairSpec == CaptureSpec /\ WF_captureVars(PixClk)
-----------------------------------------------------------------------------
\* Words the sensor's rows have for a row of the picture.
RowWords == IF 2 * Width <= conf.width THEN Width ELSE conf.width \div 2

\* Word n of a picture from a frame of parity p: green and red of the even
\* row, blue and green of the odd row below.
Word(p, n) ==
  LET top == 2 * (n \div RowWords) * conf.width + 2 * (n % RowWords) IN
  [g1 |-> <<p, top>>, r |-> <<p, top + 1>>,
   b |-> <<p, top + conf.width>>, g2 |-> <<p, top + conf.width + 1>>]

\* While the error bit has not been set, the words of a picture are those of
\* one frame, in order, from its first one on, each of its own four pixels.
WordsInOrder ==
  voReg /\ ~flawed => \E p \in {0, 1} : out = Word(p, wordNo)

\* Pairs of rows for the picture in a frame that is sent to the end.
FramePairs == IF 2 * Height <= conf.height THEN Height ELSE conf.height \div 2

\* A picture that ends without an error has all words of its pairs of rows by
\* the time the next one begins.  These are the pairs of the whole picture, or
\* of the frame if that is too small; some may be missing only if the sensor
\* was stopped within the frame.  (The error bit tells of neither.)
PictureWhole ==
  [][PictureBegins /\ pairs # 0 =>
       /\ (IF voReg THEN wordNo + 1 ELSE wordNo) = pairs * RowWords
       /\ pairs <= FramePairs /\ (entire => pairs = FramePairs)]_captureVars

CameraRuns == <>[](gen # "IDLE" /\ ~genStop)

\* A stop gets the sampler to idle, where it can be configured again, if only
\* the sensor goes on.
StopObeyed == CameraRuns /\ <>[]~start => <>[]SamplerIdle

\* Without a stop or a snapshot the words keep coming.
CaptureGoesOn == CameraRuns /\ <>[](start /\ ~snapshot) => []<>voReg

\* A snapshot is one picture, and then nothing until the command changes.
SnapshotHolds == CameraRuns /\ <>[](start /\ snapshot) => <>[](fsm = "SNAPSHOT")
-----------------------------------------------------------------------------
(* The sampler as the rest of the camera controller sees it.               *)

SourceState ==
  CASE fsm = "IDLE" -> "IDLE"
    [] fsm = "SNAPSHOT" -> "SNAPSHOT"
    [] fsm \in {"WAIT_F_END", "WAIT_F_NEW"} -> "WAIT"
    [] fsm = "WAIT_L_NEW_1" /\ rowPairs = 0 -> "WAIT"
    [] OTHER -> "PICTURE"

Source == INSTANCE PictureSource WITH
  Total <- Height * Width, RowLen <- Width,
  src <- SourceState, sent <- wordNo, valid <- voReg

FrameHoldsPicture == 2 * Height <= conf.height /\ 2 * Width <= conf.width

\* While no sensor stop has disturbed it, and if the frames hold the picture,
\* the sampler keeps the promise of PictureSource.
KeepsPromise ==
  /\ Source!SourceInit
  /\ [][stops' = 0 /\ FrameHoldsPicture
          => Source!SourceClock(start, snapshot)]_(Source!sourceVars)
=============================================================================
