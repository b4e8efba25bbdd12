# A TLA+ model of the camera-to-VGA system

The repository is an FPGA design for a Terasic DE0-Nano-SoC: a TRDB-D5M camera
is captured by one Avalon peripheral into memory, a second peripheral reads the
memory and shows it on a VGA display, and a Nios II program sets both up: the
camera over an I2C master in the FPGA, the display by register writes, with files
and a console that the vendor's run-time library (HAL) reaches over a JTAG cable.
This directory holds TLA+ modules of the two peripherals, of the I2C master, and of
the software down to the drivers; TLC configurations for small instances; and
proofs checked by TLAPS for every instance.

Contents: 1. the system, 2. modules and code, 3. modelling conventions,
4. runs, 5. fairness, 6. proofs, 7. findings and limits, 8. what is not
modelled, 9. plan.

## 1. The system

```
 sensor / generator --> camera_sampler --> FIFO_two_clock --> camera_master --> memory
    (pixclk)              (pixclk)        pixclk | clk50         (clk50)          |
                              ^                                    ^              |
                              +-------- camera_slave (clk50) ------+              |
                                             ^                                    |
                                          software (Nios)                         |
                                             v                                    v
        display <-- vga_sync <-- fifo64 <-- Master_component <--------------- frame buffer
               (vga_clk)    vga_clk | clk_50    (clk_50)     ^
                                               Slave_component

   main.c --> i2c.c --> i2c_interface / i2c_core --(SCL, SDA)--> sensor registers
      |
      +--> fopen, printf ... --> HAL descriptors --> host file system  --> debugging host
                                        |                                     ^
                                        +--> JTAG UART driver <--> UART ------+
```

Nothing is shared but through registers, FIFOs and the bus. Each peripheral
lives in two clock domains, and its command bits cross from one into the other
without a synchroniser. On the processor one thread runs, and the interrupt routine
of the JTAG UART breaks in between any two of its steps.

| Component | State | Operations | Interacts with | Hard because | Correct when |
|---|---|---|---|---|---|
| VGA slave `Slave_component.vhd` | 11 registers | register write, locked while a command is in force | Nios; its registers are read by master and raster in both clocks | written one by one while a raster may still count | no part works with a half written setting: `PixelCorrect`, `FetchInFrame` |
| VGA master `Master_component.vhd` | 6 states, address, word counter | start, fill with two bursts, burst whenever half empty, wrap at the end of the frame, restart on underflow or stop | Avalon reads, FIFO write side, `empty` of the read side | bursts in flight over a restart, gaps in a burst, a count that learns of reads late | words come in frame order and find room: `ImplementsStream`, `NoOverflow`, `FetchInFrame` |
| VGA FIFO `fifo64.vhd` | 64 words, two counts | write, read, clear | both clocks | each side sees the other late; a full FIFO reads as 0 words | counts err on the safe side (`CountsSafe`) |
| Raster `vga_sync.vhd` | 2 states, 2 counters | wait for a full FIFO, count lines and frames, stop when empty | FIFO read side, display | off-by-one at four borders per axis; where to go on after an underflow | sync edges one line/frame apart, a pixel gets its own word: `LinePeriod`, `FramePeriod`, `ScanCursor`, `PixelCorrect` |
| VGA driver `configure_vga.c` | position in `init_vga` | 12 register writes; again at any time | VGA slave | may be run over a running display, or be cut short | display comes back: `PictureReturns` |
| Sensor generator `cmos_sensor_output_generator.vhd` | 6 states, 6 settings, 6 counters, 2 pulses | configure, start, stop, one clock | sampler, Nios | six counters from 1 with a special case for 0; commands a clock late | `FrameShape`, `Blanking`, `StopIdles` |
| Sampler `camera_sampler*.vhd` | frame FSM (9 states), row counter, error bit; converter (5 states), line FIFO, colour registers | one pixel clock | sensor, FIFO write side, command bits | pairs rows of a frame of unknown length; commands and sensor stops at any clock | ordered words, or the error bit; pictures as long as the frames allow: `WordsInOrder`, `PictureWhole`, `StopObeyed`, `SnapshotHolds`, `CaptureGoesOn`, `KeepsPromise` |
| Camera slave `camera_slave.vhd` | 5 registers, status | register write, settings locked unless the sampler is idle | Nios, sampler, master | the lock knows the sampler but not the master | `WordInPlace`, `BurstInBuffer` |
| Camera master `camera_master.vhd` | 3 states, address, beat | wait for a burst of words, write it, chain the next, wrap | FIFO read side, Avalon writes | begins on *equality* of two counts; chains with a word it is just taking | each word at its place, none lost: `WordInPlace`, `NothingLost`, `BurstInBuffer`, `SnapshotArrives` |
| Camera controller `camera_controller.vhd` | the above wired up | | | FIFO is not cleared between captures | `FreshStart` (violated, section 7) |
| Camera software `main.c` | position in `main`, `readdata` | sets the sensor up over I2C, writes COMM | I2C driver, camera slave | commands at any time; results of the set-up are not looked at | as above |
| I2C core `i2c_core.vhd`, `i2c_clkgen.vhd`, `i2c_interface.vhd` | bit engine (31 states), bit counter, bit clock, registers and command bits | register access, one clock | driver, device on the bus | drops writes during a transfer; engine and register file hand the end of a transfer to each other | the bus carries what was commanded: `BusCarriesCall`, `CallReturns` |
| I2C driver `i2c.c` | position in a call | init, configure, read, write, read and write of arrays | core | polls without a limit, gives up in the middle of a transfer, next call starts on what is left | `ResultTruthful`, `NoWriteLost`, `BusCarriesCall` |
| JTAG UART driver `altera_avalon_jtag_uart_*.c` | two ring buffers, copy of the interrupt enables, idle seconds, time limit | read, write, close, ioctl, interrupt routine, alarm | UART FIFOs, host, HAL | thread and interrupt routine share the rings without a lock; the host goes away | `TxInOrder`, `RxInOrder`, `NoLostWakeup`, `Delivered`, `CallEnds` |
| HAL descriptors `HAL/src/alt_*.c`, `altera_hostfs.c` | descriptor table, highest descriptor, host handles and positions | boot, open, close, read, write, lseek, ioctl, fcntl, exit | drivers, debugging host | slots and handles reused, opens and closes that fail half way, locks kept in table entries | `DescriptorRight`, `NoSlotLost`, `LockHonoured`, `OneHolder` |
| `load_image` in `configure_vga.c` | position in the file and the picture | copies a bitmap into the frame buffer | HAL, frame buffer | counts bytes by hand; files that end and reads that fail, anywhere, are not noticed | `PictureStored` |
| Rest of the HAL, top level, testbenches | | | | see section 8 | not modelled |

## 2. Modules and code

Leaves (one clocked process or file each, a clock edge as an action with the
input signals as parameters):

| Module | Code | State and actions |
|---|---|---|
| `DcFifo` | `fifo64.vhd`, `FIFO_two_clock.vhd` (external: Altera `dcfifo`) | `fifo`, `wrUsed`, `rdUsed`; `FifoWrite`, `FifoRead`, `FifoClear` |
| `VgaSlave` | `Slave_component.vhd` | `regs`; `SlaveWrite` |
| `VgaMaster` | `Master_component.vhd` | `state`, `addr`, `counter`; `MasterClock`, a disjunct per state |
| `VgaSync` | `vga_sync.vhd` | `sync`, `hcount`, `vcount`; `SyncClock`; outputs `DispEna`, `HsyncOut`, `VsyncOut` |
| `CmosGenerator` | `cmos_sensor_output_generator.vhd` | `gen`, `conf`, counters, `genStart`, `genStop`; `GenClock`, `GenConfigure`, `GenCommand` |
| `CamFsm` | `camera_sampler_fsm.vhd` | `fsm`, `rowPairs`, `err`, `pixel`; `FsmClock`, a disjunct per state |
| `CamConverter` | `camera_sampler_converter.vhd` | `conv`, `pixCount`, line FIFO, colours, output; `ConverterClock` |
| `CamSampler` | `camera_sampler.vhd`, `camera_sampler_sync.vhd` | one stage of delay in front of the two above |
| `CamMaster` | `camera_master.vhd` | `cst`, `addr`, `beat`; `CamMasterClock`, a disjunct per state |
| `CamSlave` | `camera_slave.vhd` | `creg`, `stat`; `CamWrite`, `CamStatus` |
| `I2cCore` | `i2c_core.vhd`, `i2c_clkgen.vhd`, `i2c_interface.vhd`, and a device on the bus (external) | `st` and the rest of the bit engine, `clkCtr`, command bits `cr`; `Clock(access)`, one edge with at most one register access |
| `JtagUart` | `altera_avalon_jtag_uart_init.c`, `_read.c`, `_write.c`, `_ioctl.c`, `_fd.c`; UART and host are external | rings and enables under their C names; an action per access to shared state: `Write*`, `Read*`, `Close*`, `Ioctl` of the thread, `Irq*` of the interrupt routine, `Timeout` of the alarm, `Host*` |
| `HalFiles` | `alt_main.c` to `alt_fd_unlock.c`, `altera_hostfs.c` | `fds`, `max`, `reg`, `stage`, `host`; an action per HAL call, and the boot: `SysInit`, `AltIoRedirect`, `MainReturns` |

Compositions:

| Module | What it composes |
|---|---|
| `VgaController` | `VGA_controller.vhd`: slave, master, FIFO and raster, an Avalon memory (`BusClock`) and `init_vga` (`InitVgaWrite`). Two actions, one per clock: `Clk50`, `VgaClk`. |
| `VgaSyncTiming` | the raster behind any FIFO, with monitors that measure what a display sees |
| `CmosGeneratorTiming` | the generator under any register writes, with monitors for the pixel stream |
| `CamCapture` | sampler behind the generator, commands from the other clock domain (`PixClk`, `Command`) |
| `CamController` | `camera_controller.vhd`: slave, master and FIFO, a source of pictures, a memory that may stall every word, software (`Clk50`, `PixClk`) |
| `I2cDriver` | `i2c.c` over `I2cCore`, and the calls of `main.c` over `i2c.c`. A call is a script of commands; the driver's steps are the register accesses, and the clock ticks between any two |
| `LoadImage` | `load_image` as one program of `HalFiles`, read by read: two bytes of magic, 52 of header, colour table and pixels, each of which may fail; the C library's `ALT_READ`s come at any time in between (`LoadRefill`), and the other file calls before and after it |

Abstract specifications:

* `FrameStream`: the words of a frame buffer pass through a bounded queue once
  each, in order, round and round. `VgaController` implements it
  (`ImplementsStream`); the refinement maps the FIFO's addresses to frame
  positions and the master's address to the cursor. The flag `dirty` stands for a
  picture that began while words of an older one were still on the bus
  (section 7) and then allows any word.
* `PictureSource`: what the rest of the camera may expect of the sampler:
  pictures of `Total` words, a row's words on every second clock, any gap
  between rows and pictures, a snapshot being one picture.
  `CamCapture` implements it (`KeepsPromise`), and `CamController` is built on
  it in place of the sampler, so the two halves of the camera are checked
  separately and meet in this module.

`MC*` modules give the constants that a `.cfg` cannot write.

## 3. Modelling conventions

* An action is one rising edge of one clock for everything in that clock's
  domain. Primed variables are the registers after it, and the parameters of a
  component's action are the signals it samples. Combinational signals are
  operators.
* Two clocks interleave. `ticks` counts the edges of the fast clock since the
  last one of the slow clock and bounds their ratio with `MinRatio` and
  `MaxRatio`; edges at the same instant are covered by the two orders they
  may be taken in.
* `DcFifo` keeps a count per side. The write side never counts too few words,
  the read side never too many, and each may lag by `MaxLag`; the read side
  learns of at most `MaxStep` words per edge. This is more freedom than the
  synchronisers of the part have.
* Registers keep their widths through constants such as `CountSpace`,
  `AddrSpace` and `BurstSpace`; sums and differences wrap where the hardware's
  do.
* A word is its identity: the address it was read from (`VgaController`), its
  number in the picture (`CamController`), or the four sensor pixels it was made
  of, each with its frame's parity (`CamCapture`). Colour arithmetic is left out;
  the green mean is kept as the pair of its summands.
* A byte on the I2C bus is its bits, most significant first. A character of the
  JTAG UART is its number in the order in which it was written or sent. A byte of
  a bitmap is its offset in the file.
* A HAL call is one step: there is one thread, and interrupt routines make none.
  In `JtagUart` and `I2cDriver`, where something else runs in between, each access
  to shared state is a step, in the order of the C code.
* Definitions that no specification refers to, marked "Fault:" or "mutant:" or
  named for it (`HalfAnyRoom`, `FcntlMaskWide`, `ReadEndQuiet`), are a definition of the code with one
  plausible mistake each, and are there to be put in the place of the original to
  see that a property notices.
* History variables: `late` (VGA), `parity`, `wordNo`, `flawed`, `pairs`,
  `entire`, `stops` (capture), `base` (the memory's own burst address), `heard` (what went
  over the I2C bus), `taken`, `got`, `given`, `hostSent`, `hostGot` (JTAG UART), `held`
  (what the program knows of its descriptors), `shift` and `good` (load_image). No guard of the
  code's actions reads one, except that `stops` bounds how often the sensor is
  stopped and `fails` (load_image) how often a read fails, that characters are numbered by how many there were, and that a program
  uses the descriptors it holds.

## 4. Runs

Each row is one TLC run; states are distinct states, exhaustively.

| Run (cfg) | Question | Bounds | States |
|---|---|---|---|
| `vga_display` (`MCVga`) | Does the display path implement `FrameStream`, are fetches inside the frame buffer, is there room for every word, and does the picture come back after any underflow or restart? | frame 3x2, bursts of 2, FIFO 4, ratio 1-2, 2 bursts pending, any gaps in a burst, restarts anywhere at 2 buffers | 75,594 |
| `vga_pixels` (`MCVgaPixels`) | Is each pixel shown with its own word, frame after frame? | as above with bursts of 3, FIFO 6, 1 buffer | 1,238,176 |
| `vga_timing` (`MCVgaSyncTiming`) | Are lines and frames as long as configured, with a word asked for per pixel? | 16 settings, FIFO full or empty at any clock | 1,040 |
| `vga_hsync_width` (`MCVgaHsync`) | Is the sync pulse as wide as its register? | as above | violated |
| `sensor_frames` (`MCCmosGenerator`) | Are frames, lines and blanks of the generator as long as configured, and does a STOP idle it, under any commands? | width/height 1 or 3, blanks 0 to 2 | 36,276 |
| `capture_words` (`MCCamCapture`) | Are the words of a picture whole and ordered, or the error bit set, and when may rows of it be missing? Does the sampler implement `PictureSource`? Do stop, continuous capture and snapshot come about? | picture 2x2 words; sensors of 4 columns and 2 to 5 rows or 6 columns and 4 rows, 2 or 3 clocks between lines, 1 or 2 after the last; one sensor stop; any commands | 689,080 |
| `camera_memory` (`MCCamera`) | Is every word written at its place, none lost, and does a snapshot reach memory? | 8 words, bursts of 4, FIFO 8, ratio 4-5, stalls up to 2, two buffers | 32,133 |
| `camera_buffer` (`MCCameraBus`) | Do bursts stay in the buffer under a slow memory and commands at any time? | 4 words, bursts of 2, FIFO 4, ratio 1-2 | 1,157,176 |
| `camera_restart` (`MCCameraFresh`) | Does a capture begin with an empty FIFO? | as `camera_memory`, commands at any time | violated |
| `i2c_calls` (`MCI2c`) | Does each call put on the bus what it should and nothing else, return what happened there, and return at all? | bytes of 2 bits, quarter bit of 3 clocks; `main`'s program and every pair of 6 calls; any acknowledges and bytes from the device | 82,672 |
| `jtag_uart` (`MCJtagUart`) | Do characters keep their order through thread, interrupt routine and host; is no wake-up lost; do calls end? | rings of 2 slots, FIFOs of 1, two characters each way, calls of up to 2, blocking or not, host that comes and goes, with and without a system clock | 409,460 |
| `hal_files` (`MCHalFiles`) | Does every descriptor mean what the program opened, are locks honoured and slots given back, is a bitmap stored upright, and nothing beside it, whatever reads fail? | 5 descriptors, 2 files, 2 host handles (symmetric), positions 0 and 1, two open modes, any call may fail; nine files for `load_image`, whole, cut off in the magic, the header or the pixels, not of 24 bits, no bitmap; up to 3 failed reads a load (`MaxFails`), bytes of 64 values (`ByteSpace`), loads before any other host file is opened (`Early`) | 869,636 |

Why the bounds are enough to mean something:

* The VGA master tells bursts apart by a counter of twice the burst, fills the
  FIFO with two, and wraps at a multiple of the burst. Frames of 6 words with
  bursts of 2 and 3 give 3 and 2 bursts a frame, so the frame ends
  with a later burst and with the initial fill itself, the FIFO is full and runs empty, and the
  counters wrap. With bursts of 2 the FIFO runs empty in every line (a refill is
  asked for when one word is left), which is what `vga_display` is about; with
  bursts of 3 it holds out for whole frames, which `PixelCorrect` needs to be more
  than a statement about the first line. The clock ratio 1-2 is the real one:
  50 MHz against 25.175 MHz leaves one or two edges of the first between two of the second.
* A picture of 2x2 words has a first, a middle and a last word, two rows, and a
  second pair of rows; the sensors fit it, exceed it in either direction, fall
  short, by a row or by a pair of rows, and have an odd number of rows. The blanks are the shortest the sampler
  can follow (two clocks between lines) up to one or two more.
* The camera's FIFO of two bursts and a picture of two bursts let a burst be
  chained, begin in the middle of the buffer and wrap. The ratios and stalls are
  at the edge of what the design bears, see section 7.
* The I2C engine counts bits to the last one and does the same for each before it;
  two bits give a first and a last. The calls of up to three data bytes have a
  first, a middle and a last byte, and the second call of a pair starts on whatever
  the first left. All waits of the engine are for the bit clock, whose length
  in clocks only says how often the poll sees TIP; at three the driver makes its
  few accesses between two bytes within one phase of a bit or across two.
* A ring of two slots holds one character: it is empty or full at every step, wraps
  with every second one, and a call of two characters is cut in every place. (Rings
  of three slots were also checked, 2.5 to 3.3 million states; they add nothing to the list of
  cases and are not kept. The theorems of section 6 are for every length.) IntMax
  4 lets the idle count reach its cap.
* Five descriptors leave two beyond the standard ones: one to hold and one to
  open, lock or close meanwhile, with slots and handles free below and above
  the highest descriptor in use. Positions only have to differ.
* Three reads of the host fail while a picture is loaded, anywhere in it: as many
  as the premise of `NothingOutside` allows within the header. A picture of 4x2
  has rows and pixels that are neither first nor last. A byte of 64 values keeps
  apart what matters in a header: 0, 1, 24 and the last value, which EOF becomes.
  `Early` has a picture loaded before the other calls of the HAL have left anything behind; the
  theorem needs no such bound.

## 5. Fairness

* Clocks run for ever: weak fairness of each clock action.
* FIFO synchronisers are a few registers long, so a side's count catches up:
  strong fairness of an edge after which the count is exact. (Strong, because
  the count may be exact by chance in between.)
* The memory accepts what is asked for and returns what it owes: strong
  fairness of an accepting and of an answering edge (`VgaController`);
  `CamController` bounds stalls by `MaxStall` instead, so needs none.
* `init_vga` is straight-line code and goes on, unless it is run again.
* The sensor goes on to the next word, row and picture (`CamController`).
  In `CamCapture` this is a premise of the properties (`CameraRuns`), because
  software can stop the sensor.

* `I2cDriver`: the processor goes on with its program (weak fairness of `Driver`,
  whose steps are taken at clock edges). Nothing is assumed of the device.
* `JtagUart`: an interrupt that is pending again and again is taken (strong, since
  it may be masked in between); the alarm and the call go on (weak); a host that
  stays connected takes characters (weak). The host may leave for ever.

Software is never assumed to do anything else.

## 6. Proofs

| Theorem | Statement | For every |
|---|---|---|
| `VgaControllerProofs!TypeCorrect` | `Spec => []TypeOK` | constants that meet the named assumptions |
| `VgaControllerProofs!EveryWordHasRoom` | `Spec => []NoOverflow` | as above: depth, burst, ratio, gaps in bursts, restarts, drivers |
| `VgaControllerProofs!FetchesInFrame` | `Spec => []FetchInFrame` | burst, frame of two or more whole bursts, buffers that end below the end of the address space, memory, restarts |
| `VgaControllerProofs!StreamImplemented` | `Spec => ImplementsStream` | as above |
| `VgaControllerProofs!StreamInOrder` | `Spec => []Stream!InOrder` | as above |
| `VgaControllerProofs!ScanInStep` | `Spec => []ScanCursor` | as above; pictures whose periods fit the counters; 1 to two bursts of bus clocks per pixel clock |
| `VgaControllerProofs!PixelsCorrect` | `Spec => []PixelCorrect` | as above |
| `VgaSyncTimingProofs!LinesInTime` | `TimingSpec => LinePeriod` | timings of at least one pixel, line and clock of pulse each, whose periods fit the counters; FIFO empty at any clock |
| `VgaSyncTimingProofs!FramesInTime` | `TimingSpec => FramePeriod` | as above |
| `CamControllerProofs!TypeCorrect` | `Spec => []TypeOK` | burst, ratio, stalls, commands; buffers that begin in the address space |
| `CamControllerProofs!WritesStayInBuffer` | `Spec => []BurstInBuffer` | burst of two words or more, buffer of whole bursts, ratio, stalls, commands; DEST not moved, or by patient software |
| `CamControllerProofs!WordsInPlace` | `Spec => []WordInPlace` | as above, with patient software, at the pace given below |
| `CamControllerProofs!NoWordLost` | `Spec => []NothingLost` | as above |
| `CamCaptureProofs!WordsRight` | `CaptureSpec => []WordsInOrder` | picture, formats the sampler can follow, commands and sensor stops |
| `CamCaptureProofs!PicturesWhole` | `CaptureSpec => PictureWhole` | as above |
| `CamCaptureProofs!KeepsSourcePromise` | `CaptureSpec => KeepsPromise` | as above; a clock between the last row and the end of the frame, or rows left over |
| `CmosGeneratorProofs!TypeCorrect` | `TimingSpec => []GenTypeOK` | register width, settings from the documented minimum up |
| `CmosGeneratorProofs!FramesInShape` | `TimingSpec => FrameShape` | as above |
| `CmosGeneratorProofs!BlanksKept` | `TimingSpec => Blanking` | as above |
| `CmosGeneratorProofs!StopsIdle` | `TimingSpec => []StopIdles` | as above |
| `I2cDriverProofs!TypeCorrect` | `Spec => []TypeOK` | width of a byte, divisors, device, programs |
| `I2cDriverProofs!WritesTaken` | `Spec => []NoWriteLost` | width of a byte, divisors, device, programs |
| `I2cDriverProofs!BusRight` | `Spec => []BusCarriesCall` | as above, the divisor of `i2c_init` at least 1; reads of at least one byte |
| `I2cDriverProofs!ResultRight` | `Spec => []ResultTruthful` | as above |
| `JtagUartProofs!TypeCorrect` | `Spec => []TypeOK` | ring length from 2, FIFO depth, threshold, IntMax from 4, lengths of calls |
| `JtagUartProofs!TransmitInOrder` | `Spec => []TxInOrder` | as above |
| `JtagUartProofs!ReceiveInOrder` | `Spec => []RxInOrder` | as above |
| `JtagUartProofs!WakeupKept` | `Spec => []NoLostWakeup` | as above |
| `HalFilesProofs!TypeCorrect` | `Spec => []TypeOK` | table above 3 entries, files, handles, modes |
| `HalFilesProofs!SlotsKept` | `Spec => []NoSlotLost` | as above |
| `HalFilesProofs!DescriptorsRight` | `Spec => []DescriptorRight` | as above |
| `HalFilesProofs!HoldersApart` | `Spec => []OneHolder` | as above |
| `HalFilesProofs!LocksHonoured` | `Spec => LockHonoured` | as above |
| `HalFilesProofs!LoadIsProgram` | `LoadSpec => Spec /\ []FileHeld` | as above; bitmaps of any size, header and length, any number of failed reads, loads at any time |
| `HalFilesProofs!PictureRight` | `LoadSpec => []PictureStored` | as above, every width of a byte |

Assumptions on the constants are the named `ASSUME`s of the modules, which TLC
evaluates in every run. The arguments:

* **`EveryWordHasRoom`.** `NoOverflow` alone is not inductive: nothing in it says
  why there is room when a word arrives. `Room` says it for each state of the
  master. In the initial fill the write side's count is at most the word counter,
  since both were cleared in ST_INIT and each stored word counts once; the counter
  is below twice the burst, which is the depth. In a later burst the count was
  below one burst when the burst was asked for and has grown by at most the words
  counted since. Reads only lower the count, and gaps do not count a word, so
  neither matters. `TypeOK` is part of the invariant because the argument
  adds and compares counts.
* **`WritesStayInBuffer`.** The invariant `IInv` says that the master's address is the
  start of a burst of the buffer plus the beats written (`AtWord`), that the beat
  is 0 outside a burst, and that the memory's own burst address agrees. The step
  that needs care is the wrap in ST_WAIT_DATA (`camera_master.vhd:105`), which
  looks at the last *word* of the buffer: with two words a burst or more the
  master never waits there, and this is where the theorem needs `B >= 2`. The
  products of burst number and burst length are kept in the lemma `BurstStart`. When
  patient software moves DEST the master is idle (`Calm`), so that no burst is
  under way between two buffers.
* **`WordsInPlace`, `NoWordLost`.** A burst begins when the count of the FIFO *equals*
  the burst, and is chained on a count that does not yet know of the word just taken,
  so these hold at a pace only. `Pace` states it: with `P = 2 * MinRatio` clocks
  of the camera for a word, `Q = MaxStall + 1` clocks of the memory for one, and a FIFO whose
  synchroniser holds back at most `MaxLag` words,
  `Q * B + 1 < P * (B - MaxLag - 1)`: the memory takes a burst in less time than the
  camera takes for as many words, but for the lag and one. The invariant has three parts
  besides `IInv`. `Session`: nothing is on its way while the start bit is off or the master
  idle, and a picture finds the master waiting. `InTime` bounds the words that have
  come in beyond the burst by the clocks the burst has taken (`Behind`, `Since`); at the end
  of a burst this leaves at most one, and the count is still at or below the burst, so that
  it is met. `Queue`: the FIFO holds the words of the picture from the one the master's
  address stands for to the one the sampler puts out next, across the end of a picture.
* **`WordsRight`, `PicturesWhole`.** The pixels of a word are gathered at four
  clocks over two rows, through two stages of delay and a line FIFO, by two state machines that
  do not know of each other's counters. `CInv` has a part for each: `Sensor` (the counters of
  the generator in each of its states), `Synced` (the synchroniser is one clock behind it),
  `Control` and `Sampling` (the row and column the sampler looks at, by its state:
  `InRow` within a row, `Between` two of them; what the line FIFO holds, from which
  column on; how many words have been made), and `Stages` (a word on its way to the output has its own
  pixels). `Sampling` is claimed while the error bit is clear, and is what sets it: a row
  that ends too early, or a frame, is the only way out of it. `Reached`
  counts the pairs of rows against the rows of the frame: a frame that ends after a pair of rows
  without a stop of the sensor has ended with these. `Ended` keeps this, with the number of words made,
  from the end of a picture, in ST_BLANK or in ST_WAIT_L_NEW_1, until the next one begins. `Followed` says which formats the
  sampler can follow: two columns and a row at least, one clock between frames, one
  before the first row, two between rows (section 7), rows that its line FIFO holds, and
  a whole number of words a row, or more pixels than the picture is wide: an odd column left
  over in a row that is shorter than the picture leaves the converter waiting for its
  partner, which comes from the next row. With a clock less between rows or before the
  first one, with a single column, or with an odd one within the picture, TLC finds words
  out of order; one clock between frames and rows within the line FIFO are asked for as limits of the parts
  themselves (the generator's minimum, the depth of the FIFO).
* **`KeepsSourcePromise`.** Each clock of the sampler is a clock of `PictureSource` or, in the
  pictures it does not speak of, free. Besides `CInv` this needs that no frame is cut short
  (`Frames`), that words of a row come on every second clock (`Cadence`), and that between two
  pictures all words are out (`AtRest`). `EndSeen` is the one further demand: if the
  picture ends with the last row of the frame, a clock must lie between that row and
  the end of the frame, or the error bit is set, and the invariant says nothing of a picture
  after its error. (TLC finds the promise kept in this case too.)
* **Raster.** `LinesInTime` and `FramesInTime` rest on `Raster`, which gives all the monitors
  as functions of the raster's two counters: the clocks since the pulse of the line, those
  since the pulse of the frame, and the words read since then. A period may be as long as the
  counter counts: its register sum is then 0, and the last count is the counter's last.
* **`FetchesInFrame`.** `FetchInFrame` speaks of the two states that ask for a
  burst; the invariant `Placed` gives the address in every state: in the initial
  fill the word counter is the number of the word of the frame, later there is a
  number of whole bursts before it. The end of the frame is met because a burst
  starts and ends on such a number (`Bursts` of them make the frame) and is never taken
  for complete before its last word (`late` excludes that). `Configured` says that
  the frame stays as set while the master is outside ST_INIT: the registers are
  locked while the command is not 0, and once it is 0 the master goes to ST_INIT at the next
  edge. Products are kept in `BurstFits`, `StepsOn` and `Monotone`.
* **`StreamImplemented`.** Each step of `Next` is a step of `FrameStream` or leaves its
  variables alone, under `Placed` and one more invariant. `Pending` says what is on the
  bus: while a burst is received, the words the master still has to come to, in order,
  the first of them at its address; otherwise nothing. So the word that is stored is
  the one at the cursor (`FetchStep`), and there is room for it (`RoomForWord`). Every
  edge in or into ST_INIT is a restart, because `aclr` stands all through that state
  (`RestartStep`); the wrap of the address at the end of the frame is a stutter, from
  the frame's length to 0 (`IdleStep`). Once `late` holds only the shape of a fetch is
  claimed, as the words of an older picture are then unknown.
* **`ScanInStep`, `PixelsCorrect`.** The invariant `InPlace` gives the word of every
  place of the FIFO, counted from the oldest: that of the pixel shown next, or word
  0 before the first pixel. The raster starts on a full FIFO, parked in the blanks
  (`VP < CountSpace` keeps its start there), and from then on every pixel takes one
  word (`RasterStep`). What is hard is a restart: master and raster learn of it
  separately. `Slow` orders them. On an underflow the master sees the empty FIFO
  first, because a bus clock comes between two pixel clocks (`MinRatio >= 1`); after
  a stop the raster sees it before the FIFO is filled again, because the fill takes
  two bursts of bus clocks (`MaxRatio <= 2 * B`). The board has one or two bus clocks to a
  pixel clock and a fill of 64.
* **Sensor generator.** `Shape` relates the counters of the code to those of the
  monitors: the width counter is the pixel's number in its line, the height
  counter the line's in its frame, the blank counter the clocks of its blank, with
  all blanks before it as set. The format can only change while the state is
  idle, also in the clock in which a START takes effect; this is why the claim about
  blanks begins with the first line of a run. `StopsIdle` follows from: a STOP that
  stands has its flag set or finds the generator idle, and no start is under way.
  `SettingsAssumption` (no width, height, line or frame blank of 0) is needed: see
  section 7.
* **`WritesTaken`.** `NoWriteLost` is not inductive, as it says nothing of the poll.
  `Polled` does: TIP is up only while the driver polls for its end. The register file
  raises TIP in no other way than by a control word with RD or WR, and STOP or IEN
  alone are none. `TypeCorrect` needs in addition that a device with a whole byte saw the
  clock line high, or its bit counter would pass the byte.
* **`BusRight`, `ResultRight`.** Between a command of the driver and what the device
  hears lie the states of the bit engine, one clock of delay on each line, and a device that
  knows only edges. `Carry` has a part for each. `Engine` says, for each state of the engine,
  where the lines stand before and after their delay, what the device is doing, which of its bits agree
  with the data register, and how many events of the message it has heard (`Told`); the
  lemmas `StartAStep` to `WrAckDStep` go through the states one by one. `Between`
  says so for each step of the driver between two commands: the lines are released, or
  SCL is held low, and the device listens, sends or has gone away as the next command needs
  (`Ready`). `Placed` says where the events of each command stand in the message of its call:
  the sums of the events before it in closed form (`At`), so that the flattened script is
  described position by position (`Flattened`, over the recursive function inside
  `FlattenSeq`, by a least counterexample). `Gathered` and `Returned` relate the bytes read and
  the result to what was heard. `UseAssumption` is needed: with a divisor of 0 the engine moves at
  every clock, faster than the delay on the lines, and TLC finds a bus that does not carry the call
  (`main` sets 125); a read of no bytes never sends its STOP, as the loop that would send it
  does not run (`i2c.c:288`; `main` reads two).
* **JTAG UART.** The invariant is `Typed /\ TxRing /\ RxRing /\ Enables`. `TxRing` and
  `RxRing` say which characters stand in which slots at each step of the thread and of
  the interrupt routine, by modular intervals from `out` to `in`; the slot between
  a store and the publishing of the index belongs to one side only. `Enables` says who
  is on the way to turn an interrupt on when it is off and there is work.
* **HAL.** The invariant is `Typed /\ HostFiles /\ Boot /\ NoSlotLost /\
  DescriptorRight /\ Locks`. `HostFiles`: a host handle belongs to one descriptor at most. `Locks` is
  what makes `OneHolder` true in spite of the short scan: no descriptor below the
  holder of a lock is on its device. The scan that granted the lock saw all of
  these, and the lock keeps later ones away; of two holders one is below the
  other. `SlotVacant` (the slot that
  alt_get_fd takes is the least free one) needs that sets of numbers are well-founded.

* **`PictureRight`.** While the header is read (`HeaderRead`) the number of bytes read and of
  reads that failed add up to the loop variable, so that the failed reads are also the
  bytes by which the header is late. The two bytes taken for the bit count are then, with one read failed,
  the second byte of the number of planes (0) and what follows; with two, the first (1); with three the
  second of the two is that 1; a byte of 0xFF makes no 24 either. So a bit count
  of 24 means that none or at least four have failed by then, and in the first case width and height
  are those of the file (`Part` holds the partial sums of the four bytes). In the loops (`PictureRead`) rows
  and columns stay within the picture, a word belongs to one pixel only (`WordOfPixel`), and until a read
  fails the stream stands at the bytes of the next pixel (`Standing`); rows without filling follow one
  another directly.
* **`LoadIsProgram`.** Every step of `LoadImage`, the C library's reads included, is a step of
  `HalFiles`: the invariant `FileOpen` says that the program holds the descriptor, which it opened for the
  image and for reading, and `DescriptorRight`, part of the invariant of the table, says where that leads (`FileHeld`).
  What it does not show is which bytes `ALT_READ` brings: the C library's buffer is external.

Only model-checked: everything under fairness (`PictureReturns`,
`StopObeyed`, `CaptureGoesOn`, `SnapshotHolds`, `SnapshotArrives`, `CallReturns`,
`Delivered`, `CallEnds`), since the prover handles neither liveness nor ENABLED.

## 7. Findings and limits of the design

Contradictions to something the repository says, each a run that is violated:

* `vga_hsync_width`: the sync pulse lasts one pixel clock more than the register
  says (`vga_sync.vhd:125`, against `configure_vga.h:14`); vsync has the same
  comparison.
* `camera_restart`: the camera master raises `aclr` while it is idle, but the FIFO
  is wired without it (`camera_controller.vhd:216`, `223`), so a capture that
  follows one stopped within a picture begins with old words, and every later
  word stands off its place by as many.

Preconditions that the properties rest on:

* **VGA words that come late.** If init_vga stops the display while a burst is
  on its way and starts it again before the words are back, they are taken for
  the first of the new picture (`Master_component.vhd:80`). If the memory pauses
  just before the last word of a burst, the master takes the burst for complete
  and drops the word when it comes (`Master_component.vhd:92`, `112`); a pause at
  any other word does no harm. `late` records both, and `ImplementsStream`,
  `ScanCursor`, `PixelCorrect` and `FetchInFrame` do not speak of such a picture;
  `PictureReturns` allows the display to hang in one. `NoOverflow` and `TypeOK`
  hold all the same.
* **Sensor generator.** A STOP in the clock after a START is dropped
  (`cmos_sensor_output_generator.vhd:109`); `StopIdles` speaks of every other STOP.
* **Camera clock ratio and stalls.** Bursts of the camera begin when the count
  *equals* the burst (`camera_master.vhd:80`) and are chained with one word too
  few (`camera_master.vhd:86`), so the design depends on timing. With bursts of 4
  (reset value) `WordInPlace` and `NothingLost` were found to hold
  at a fixed ratio of 2 without stalls and from 2 to 3 without stalls, from 3 to
  5 with stalls of one clock, and from 4 to 5 with stalls of two, which is the run
  kept; they fail at ratio 1 even without stalls, and with bursts of 2 at ratio
  1 to 2. All of this is under `DcFifo`'s generous lag. The pace that the theorems ask for
  (section 6) is met from the same ratios on: with bursts of 4 and a lag of 1, a
  ratio of 2 without stalls, 3 with stalls of one clock, 4 with stalls of two. Ratios of 5, 2.5, 1.25
  and 1 are the pixel clocks of 10, 20, 40 and 50 MHz the board can select.
  Once the count has passed the burst length the master waits for ever.
* **Camera software.** `Patient` software stops a snapshot only when it is in
  memory, and writes DEST only while start is not about to take effect. Neither is
  enforced by the lock of `camera_slave.vhd`, which looks at the sampler alone.
* **Settings.** The generator takes a width, height, line blank or frame blank
  of 0, although its constants give 1 as the minimum: a counter that starts at 1 then runs once
  round before it meets its setting. The VGA raster adds four 16-bit registers
  into 16 bits, and the capture path drops pixels of a frame wider than its line FIFO of
  4096. None of this is within the settings of the repository, and the properties
  do not speak of it. Bursts of one word make the camera master skip the last word
  of its buffer (`camera_master.vhd:105`); the theorem asks for two.
* **I2C.** A byte that is not acknowledged makes the driver write STOP alone
  into the control register (`i2c.c:133`, `142`, `150`). The core begins on WR or RD
  only (`i2c_core.vhd:125`), so no STOP goes out and SCL stays low until the next
  START; the calls after it are right all the same, as `BusCarriesCall` and `ResultTruthful`
  show. `i2c_configure` enables an interrupt that the control word of every
  transfer disables again (`i2c.c:50`, `:62`, against the comment at
  `i2c.c:102`). `i2c_write_array` with a size of 0 makes no STOP, nor does
  `i2c_read_array`; the theorems leave such a read out. A device cannot stretch
  the clock: SCL is driven high (`i2c_interface.vhd:183`) and the generator's wait
  is tied to 0 (`i2c_clkgen.vhd:63`). `main` ignores all results (`main.c:49` on).
* **JTAG UART.** A write of no bytes returns an error
  (`altera_avalon_jtag_uart_write.c:214`); a blocking write returns short once the
  host has been idle for the time limit. This system has no system clock (`system.h`:
  ALT_SYS_CLK none), so there is no time limit and a blocking call waits for an absent host for ever;
  `CallEnds` leaves that case out, and the case of a limit of INT_MAX - 1, which an invalid
  TIOCSTIMEOUT sets and the idle count never reaches.
* **HAL.** TIOCEXCL is granted although the highest descriptor has the device
  open (`alt_fd_lock.c:61`, against `alt_fd_lock.c:40`). A call on a descriptor that was
  closed follows a null pointer (`alt_close.c:84`); the program of the model makes none.
* **Error bit of the sampler.** It tells of a frame that ends within a pair of rows or within a row, not of one
  that ends between pairs: in ST_WAIT_L_NEW_1 (`camera_sampler_fsm.vhd:102`) a picture then just ends, short of
  rows, with the bit clear, be it that the frame has an even number of rows that is too small or that the sensor was
  stopped. `PictureWhole` says that these are the only cases and how many words there are. The bit is cleared in
  ST_IDLE only (`camera_sampler_fsm.vhd:155`): after one bad frame of a continuous capture it says nothing
  of later ones, and neither do `WordsInOrder` and `PictureWhole`.
* **load_image.** Neither the end of the file nor a failed read is noticed: the byte becomes 0xFF, and
  after a failed read all later bytes come one late. The filling of rows whose length is no multiple of
  four bytes is not skipped, and the size of the picture is not compared with the frame buffer. `PictureStored`
  therefore claims the content for rows without filling and up to the first failed read. That nothing is written
  outside the picture it claims unless four or more reads fail within the header: with more, two bytes of the height
  may be taken for the bit count, and bytes of other fields for width and height. Pictures of more than
  a quarter of 2^32 words, whose addresses run over, and colour tables of more than 2^32 bytes are left out.
* **Sensor.** At least two clocks between lines, one between start of frame and
  first line and one from the last line to the end of the frame; with none of the
  last the error bit is set for every picture.

## 8. Not modelled, and why

* Reading registers back, debug registers and debug outputs: they change nothing.
* Colour values: formats and arithmetic of pixels, in `VGA_controller.vhd`,
  `camera_sampler_converter.vhd` and `configure_vga.c`. Which pixels of the sensor a word is made of, and
  which bytes of a file, is modelled; what is done with their values is not.
* `write_test_image`: a loop that writes each word of the frame buffer, reads it back
  and compares.
* The composition of all of `main`: its I2C calls, `init_vga` and its write of the
  camera's command register are each modelled against the hardware they talk to. They share
  no state, so one run over all three would only multiply their states.
* The PLLs, the Qsys interconnect and the top level: wiring and vendor code; what
  matters of them, the clock ratios and the behaviour of a burst, is a constant
  or a nondeterministic choice.
* Metastability of the unsynchronised command bits: each is taken as sampled
  before or after the write.
* HAL code that never runs in this system: alarms, ticks and the time of day (no
  system clock), logging, profiling, the exception registry, the small JTAG driver and the
  uC/OS branches. HAL code that does not change the state of the descriptors:
  `fstat`, `isatty`. Code below the level of the models: start-up, caches, heap, printf, processor
  intrinsics.
* The C library between `fgetc` and the HAL: external in `LoadImage`. Its buffer, and which reads of the HAL fill it, are
  left open: a refill may come before any byte, and any `fgetc` may fail.

The share of the C lines that is modelled is about an eighth. Most of
the C lines of the repository are the vendor's run-time library with its headers
and licence texts; the bodies of all C functions, most of them of the groups above, are
about a quarter of the lines. The repository's own logic is in VHDL, and of that
every clocked process is modelled but for the debug registers, reading back, and the
output registers of the I2C core that `I2cCore` names.

## 9. State of the plan

Done: VGA path, sensor generator, sampler and camera controller, their composition
through `PictureSource`; I2C core and driver with the set-up of the sensor; JTAG UART
driver; HAL descriptors, host file system and `load_image`; proofs of every safety property
of them, among them both refinements.

Left:

1. Pixel formats as operators, against the byte order of `VGA_controller.vhd:88`.
