------------------------------ MODULE JtagUart ------------------------------
(***************************************************************************)
(* The interrupt-driven JTAG UART driver: its two ring buffers, the        *)
(* interrupt routine, the one-second alarm that watches for the host, and  *)
(* read, write, ioctl and close. The processor runs one thread (no uC/OS:  *)
(* the semaphores and flags are empty); the interrupt routine and the      *)
(* alarm break in between any two of its steps, the host at any time.      *)
(*                                                                         *)
(* Characters are numbered in the order they are written or sent, so a     *)
(* lost, repeated or overwritten one shows. The UART's own FIFOs, its      *)
(* control register and the host are external.                             *)
(***************************************************************************)
EXTENDS Integers, Sequences

CONSTANTS
  BufLen,     \* length of each ring buffer (2048): one slot stays free
  Depth,      \* characters in each of the UART's FIFOs (64)
  Threshold,  \* WI pends while the transmit FIFO holds no more than these (8)
  IntMax,     \* INT_MAX, seconds
  MaxTx,      \* bound: characters the program writes in all
  MaxRx,      \* bound: characters the host sends in all
  MaxCall,    \* bound: longest read or write
  HasClock    \* the values of "a system clock exists" to look at

ASSUME BufAssumption == BufLen \in Nat /\ BufLen >= 2
ASSUME FifoAssumption == Depth \in Nat \ {0} /\ Threshold \in 0..Depth - 1
ASSUME IntMaxAssumption == IntMax \in Nat /\ IntMax >= 4
ASSUME BoundAssumption == MaxTx \in Nat /\ MaxRx \in Nat /\ MaxCall \in Nat /\ HasClock \subseteq BOOLEAN

VARIABLES
  \* the UART and its host
  txFifo, rxFifo, hwEnable, ac, host, hostSent, hostGot,
  \* altera_avalon_jtag_uart_state
  rx_in, rx_out, rx_buf, tx_in, tx_out, tx_buf, irq_enable, host_inactive, timeout,
  \* the processor: status.PIE, the alarm, the interrupt routine
  pie, clock, isr, control, space, avail,
  \* the driver call
  pc, nonblock, count, n, seen, done, tmp, result,
  \* history: characters accepted by write, put in a caller's buffer, given by read
  taken, got, given

hwVars == <<txFifo, rxFifo, hwEnable, ac, host, hostSent, hostGot>>
rxVars == <<rx_in, rx_out, rx_buf>>
txVars == <<tx_in, tx_out, tx_buf>>
idleVars == <<host_inactive, timeout, clock>>
isrVars == <<isr, control, space, avail>>
callVars == <<pc, nonblock, count, n, seen, done, tmp, result, taken, got, given>>
vars == <<hwVars, rxVars, txVars, irq_enable, idleVars, pie, isrVars, callVars>>

Slots == 0..BufLen - 1
LeastOf(a, b) == IF a < b THEN a ELSE b

\* Interrupts pending in the control register, each gated by its enable.
RI == "RE" \in hwEnable /\ rxFifo # <<>>
WI == "WE" \in hwEnable /\ Len(txFifo) <= Threshold

\* IOWR control, and the driver's copy of the enables.
SetEnable(e) == irq_enable' = e /\ hwEnable' = e

-----------------------------------------------------------------------------
\* altera_avalon_jtag_uart_init, done with interrupts off. The state starts
\* as the static instance (timeout 10); without a clock the alarm cannot run.
Init ==
  /\ txFifo = <<>> /\ rxFifo = <<>> /\ ac = FALSE /\ host \in BOOLEAN
  /\ hostSent = 0 /\ hostGot = 0
  /\ rx_in = 0 /\ rx_out = 0 /\ rx_buf = [i \in Slots |-> 0]
  /\ tx_in = 0 /\ tx_out = 0 /\ tx_buf = [i \in Slots |-> 0]
  /\ irq_enable = {"RE"} /\ hwEnable = {"RE"}
  /\ clock \in HasClock
  /\ host_inactive = 0 /\ timeout = IF clock THEN LeastOf(10, IntMax - 2) ELSE IntMax
  /\ pie = TRUE /\ isr = "off" /\ control = [ri |-> FALSE, wi |-> FALSE]
  /\ space = 0 /\ avail = FALSE
  /\ pc = "idle" /\ nonblock = FALSE /\ count = 0 /\ n = 0 /\ seen = 0 /\ done = 0
  /\ tmp = {} /\ result = "none" /\ taken = 0 /\ got = <<>> /\ given = 0

-----------------------------------------------------------------------------
\* The host (external): it takes and sends characters while it is connected,
\* and each time it looks at the UART the activity bit is set.

HostTake ==
  /\ host /\ txFifo # <<>>
  /\ txFifo' = Tail(txFifo) /\ hostGot' = hostGot + 1 /\ ac' = TRUE
  /\ UNCHANGED <<rxFifo, hwEnable, host, hostSent>>
HostSend ==
  /\ host /\ hostSent < MaxRx /\ Len(rxFifo) < Depth
  /\ rxFifo' = Append(rxFifo, hostSent) /\ hostSent' = hostSent + 1 /\ ac' = TRUE
  /\ UNCHANGED <<txFifo, hwEnable, host, hostGot>>
HostChange ==
  /\ host' = ~host
  /\ UNCHANGED <<txFifo, rxFifo, hwEnable, ac, hostSent, hostGot>>
Host ==
  /\ HostTake \/ HostSend \/ HostChange
  /\ UNCHANGED <<rxVars, txVars, irq_enable, idleVars, pie, isrVars, callVars>>

-----------------------------------------------------------------------------
\* altera_avalon_jtag_uart_irq

IrqControl == \* read on entry (the thread stops until isr is "off"), then in a loop
  /\ isr = "control" \/ (isr = "off" /\ pie /\ (RI \/ WI))
  /\ control' = [ri |-> RI, wi |-> WI]
  /\ space' = IF WI THEN Depth - Len(txFifo) ELSE 0
  /\ avail' = RI
  /\ isr' = IF RI THEN "rx" ELSE IF WI THEN "tx" ELSE "off"
  /\ UNCHANGED <<rxVars, txVars, hwVars, irq_enable>>

AfterRx == isr' = IF control.wi THEN "tx" ELSE "control"
RxFullNever == FALSE \* mutant: the ring is not looked at
RxFull == (rx_in + 1) % BufLen = rx_out
IrqRxChar ==
  /\ isr = "rx" /\ ~RxFull /\ rxFifo # <<>>
  /\ rx_buf' = [rx_buf EXCEPT ![rx_in] = Head(rxFifo)]
  /\ rx_in' = (rx_in + 1) % BufLen
  /\ rxFifo' = Tail(rxFifo) /\ avail' = (Tail(rxFifo) # <<>>)
  /\ UNCHANGED <<isr, control, space, rx_out, txVars, irq_enable,
                 txFifo, hwEnable, ac, host, hostSent, hostGot>>
IrqRxEmpty == \* no valid character
  /\ isr = "rx" /\ ~RxFull /\ rxFifo = <<>>
  /\ avail' = FALSE /\ AfterRx
  /\ UNCHANGED <<control, space, rxVars, txVars, hwVars, irq_enable>>
IrqRxFull == \* the ring is full: no more receive interrupts if there is more
  /\ isr = "rx" /\ RxFull
  /\ IF avail THEN SetEnable(irq_enable \ {"RE"}) ELSE UNCHANGED <<irq_enable, hwEnable>>
  /\ AfterRx
  /\ UNCHANGED <<control, space, avail, rxVars, txVars,
                 txFifo, rxFifo, ac, host, hostSent, hostGot>>

IrqTxChar ==
  /\ isr = "tx" /\ space > 0 /\ tx_out # tx_in
  /\ txFifo' = Append(txFifo, tx_buf[tx_out])
  /\ tx_out' = (tx_out + 1) % BufLen /\ space' = space - 1
  /\ UNCHANGED <<isr, control, avail, rxVars, tx_in, tx_buf, irq_enable,
                 rxFifo, hwEnable, ac, host, hostSent, hostGot>>
IrqTxEnd ==
  /\ isr = "tx" /\ ~(space > 0 /\ tx_out # tx_in)
  /\ IF space > 0 THEN SetEnable(irq_enable \ {"WE"}) ELSE UNCHANGED <<irq_enable, hwEnable>>
  /\ isr' = "control" /\ space' = 0
  /\ UNCHANGED <<control, avail, rxVars, txVars,
                 txFifo, rxFifo, ac, host, hostSent, hostGot>>

Irq ==
  /\ \/ IrqControl \/ IrqRxChar \/ IrqRxEmpty \/ IrqRxFull
     \/ IrqTxChar \/ IrqTxEnd
  /\ UNCHANGED <<idleVars, pie, callVars>>

\* altera_avalon_jtag_uart_timeout, once a second from alt_tick.
IdleFrozen == 1 \* mutant: the seconds do not add up
IdleUncapped == host_inactive + 1 \* mutant: counts past INT_MAX
IdleSecond == IF host_inactive < IntMax - 2 THEN host_inactive + 1 ELSE host_inactive
Timeout ==
  /\ clock /\ isr = "off" /\ pie
  /\ IF ac
     THEN hwEnable' = irq_enable /\ ac' = FALSE /\ host_inactive' = 0
     ELSE host_inactive' = IdleSecond /\ UNCHANGED <<hwEnable, ac>>
  /\ UNCHANGED <<txFifo, rxFifo, host, hostSent, hostGot, rxVars, txVars, irq_enable,
                 timeout, clock, pie, isrVars, callVars>>

-----------------------------------------------------------------------------
\* The driver's calls. Each step of the thread is a volatile access or a run
\* of accesses no one else can tell apart.

Goto(l) == pc' = l /\ UNCHANGED result
Return(r) == pc' = "idle" /\ result' = r
NoData == IF nonblock THEN "EWOULDBLOCK" ELSE "EIO"
Begin(l) == pc' = l /\ result' = "none" /\ done' = 0
Locals == <<nonblock, count, done, n, seen, tmp, got>>
Forget == \* the call returns: its locals are gone
  /\ nonblock' = FALSE /\ count' = 0 /\ done' = 0 /\ n' = 0 /\ seen' = 0 /\ tmp' = {}
  /\ got' = <<>>
Only(changed) == \* what the thread leaves alone, besides what the step is about
  /\ UNCHANGED <<txFifo, rxFifo, ac, host, hostSent, hostGot>>
  /\ UNCHANGED <<host_inactive, timeout>>
  /\ "enable" \in changed \/ UNCHANGED <<irq_enable, hwEnable, pie>>
  /\ "tx" \in changed \/ UNCHANGED <<txVars, taken>>
  /\ "rx" \in changed \/ UNCHANGED <<rxVars, given>>
  /\ IF pc' = "idle"
     THEN Forget
     ELSE /\ "arg" \in changed \/ UNCHANGED nonblock
          /\ "count" \in changed \/ UNCHANGED <<count, done>>
          /\ "look" \in changed \/ UNCHANGED <<n, seen>>
          /\ "enable" \in changed \/ UNCHANGED tmp
          /\ "rx" \in changed \/ UNCHANGED got

\* alt_irq_disable_all and the enables read; then written, and alt_irq_enable_all.
DisableAll == pie' = FALSE
LoadEnable(bit) == DisableAll /\ tmp' = irq_enable \cup {bit} /\ UNCHANGED <<irq_enable, hwEnable>>
StoreEnable == SetEnable(tmp) /\ pie' = TRUE /\ tmp' = {}

\* altera_avalon_jtag_uart_write
WriteReturn == Return(IF done > 0 THEN "done" ELSE NoData)
WriteCall ==
  /\ pc = "idle"
  /\ \E k \in 0..MaxCall, nb \in BOOLEAN :
       taken + k <= MaxTx /\ count' = k /\ nonblock' = nb
  /\ Begin("w_look") /\ Only({"arg", "count"})
FreeFromAll(in, out) == IF in < out THEN out - in ELSE BufLen - in \* mutant: no slot stays free
FreeFrom(in, out) == \* free slots from in on, up to the end of the array
  IF in < out THEN out - 1 - in ELSE IF out > 0 THEN BufLen - in ELSE BufLen - 1 - in
WriteLook == \* tx_in and tx_out are read once; then memcpy
  /\ pc = "w_look" /\ count > 0
  /\ seen' = tx_out /\ n' = LeastOf(FreeFrom(tx_in, tx_out), count)
  /\ tx_buf' = [i \in Slots |->
       IF i \in tx_in..tx_in + n' - 1 THEN taken + (i - tx_in) ELSE tx_buf[i]]
  /\ UNCHANGED <<tx_in, tx_out, taken>>
  /\ Goto(IF n' = 0 THEN "w_kick" ELSE "w_publish")
  /\ Only({"look", "tx"})
WriteAllQuiet == \* mutant: the interrupt routine is woken only when the ring is full
  pc = "w_look" /\ count = 0 /\ WriteReturn /\ Only({})
WriteAll == pc = "w_look" /\ count = 0 /\ Goto("w_kick") /\ Only({})
WritePublish ==
  /\ pc = "w_publish"
  /\ tx_in' = (tx_in + n) % BufLen /\ taken' = taken + n /\ UNCHANGED <<tx_out, tx_buf>>
  /\ count' = count - n /\ done' = done + n
  /\ Goto("w_look") /\ Only({"tx", "count"})
WriteKick == pc = "w_kick" /\ LoadEnable("WE") /\ Goto("w_store") /\ Only({"enable"})
WriteStore ==
  /\ pc = "w_store" /\ StoreEnable
  /\ IF count > 0 /\ ~nonblock THEN Goto("w_spin") ELSE WriteReturn
  /\ Only({"enable"})
WriteSpin ==
  /\ pc = "w_spin" /\ (seen # tx_out \/ host_inactive >= timeout)
  /\ Goto("w_host") /\ Only({})
WriteHost == \* a host that was not seen for a second ends the call
  /\ pc = "w_host"
  /\ IF host_inactive # 0 THEN WriteReturn ELSE Goto("w_look")
  /\ Only({})

\* altera_avalon_jtag_uart_read; got is the caller's buffer.
ReadReturn == Return(IF done > 0 THEN "done" ELSE NoData)
ReadCall ==
  /\ pc = "idle"
  /\ \E k \in 0..MaxCall, nb \in BOOLEAN : count' = k /\ nonblock' = nb
  /\ got' = <<>> /\ UNCHANGED <<rxVars, given>>
  /\ Begin("r_look") /\ Only({"arg", "count", "rx"})
FilledFrom(in, out) == IF in >= out THEN in - out ELSE BufLen - out
ReadLook == \* likewise
  /\ pc = "r_look" /\ count > 0
  /\ seen' = rx_in /\ n' = LeastOf(FilledFrom(rx_in, rx_out), count)
  /\ got' = got \o [i \in 1..n' |-> rx_buf[rx_out + i - 1]]
  /\ UNCHANGED <<rxVars, given>>
  /\ Goto(IF n' > 0 THEN "r_publish" ELSE IF done > 0 \/ nonblock THEN "r_end" ELSE "r_spin")
  /\ Only({"look", "rx"})
ReadAll == pc = "r_look" /\ count = 0 /\ Goto("r_end") /\ Only({})
ReadPublish ==
  /\ pc = "r_publish"
  /\ rx_out' = (rx_out + n) % BufLen /\ given' = given + n /\ UNCHANGED <<rx_in, rx_buf, got>>
  /\ count' = count - n /\ done' = done + n
  /\ Goto("r_look") /\ Only({"rx", "count"})
ReadSpin == \* until a character or the time limit; without a character the read ends
  /\ pc = "r_spin" /\ (seen # rx_in \/ host_inactive >= timeout)
  /\ Goto(IF seen = rx_in THEN "r_end" ELSE "r_look") /\ Only({})
ReadEndQuiet == \* mutant: receive interrupts stay off
  pc = "r_end" /\ ReadReturn /\ Only({})
ReadEnd == \* characters were read: there is room, so interrupts go on again
  /\ pc = "r_end"
  /\ IF done > 0 THEN LoadEnable("RE") /\ Goto("r_store")
     ELSE ReadReturn /\ UNCHANGED <<irq_enable, hwEnable, pie>>
  /\ Only({"enable"})
ReadStore == pc = "r_store" /\ StoreEnable /\ ReadReturn /\ Only({"enable"})

\* altera_avalon_jtag_uart_close: the transmit ring runs empty, or the host is gone.
CloseCall ==
  /\ pc = "idle"
  /\ nonblock' \in BOOLEAN /\ count' = 0
  /\ Begin("c_spin") /\ Only({"arg", "count"})
CloseSpin ==
  /\ pc = "c_spin"
  /\ IF tx_out # tx_in /\ host_inactive < timeout
     THEN nonblock /\ Return("EWOULDBLOCK")
     ELSE Return("done")
  /\ Only({})

\* altera_avalon_jtag_uart_ioctl
SetTimeout(t) == IF t >= 2 /\ t < IntMax THEN t ELSE IntMax - 1
Ioctl ==
  /\ pc = "idle"
  /\ \/ \* TIOCSTIMEOUT
        timeout # IntMax /\ result' = "done" /\ \E t \in 0..IntMax : timeout' = SetTimeout(t)
     \/ \* TIOCGCONNECTED
        timeout # IntMax /\ UNCHANGED timeout
        /\ result' = IF host_inactive < timeout THEN "connected" ELSE "disconnected"
     \/ \* without a clock, or another request
        result' = "ENOTTY" /\ UNCHANGED timeout
  /\ UNCHANGED <<txFifo, rxFifo, hwEnable, ac, host, hostSent, hostGot, rxVars, txVars,
                 irq_enable, host_inactive, pie, pc, Locals, taken, given>>

Calling == WriteCall \/ ReadCall \/ CloseCall \/ Ioctl
Going ==
  \/ WriteLook \/ WriteAll \/ WritePublish \/ WriteKick \/ WriteStore
  \/ WriteSpin \/ WriteHost
  \/ ReadLook \/ ReadAll \/ ReadPublish \/ ReadSpin \/ ReadEnd \/ ReadStore
  \/ CloseSpin
GoOn == isr = "off" /\ UNCHANGED <<isrVars, clock>> /\ Going
Thread == (isr = "off" /\ UNCHANGED <<isrVars, clock>> /\ Calling) \/ GoOn

Next == Host \/ Irq \/ Timeout \/ Thread
Spec == Init /\ [][Next]_vars
\* An interrupt that pends is taken as soon as it may be, a second passes, the
\* thread runs on, and a connected host takes what the UART holds.
FairSpec ==
  /\ Spec
  /\ SF_vars(Irq) /\ WF_vars(Timeout) /\ WF_vars(GoOn)
  /\ WF_vars(HostTake /\ Host)

-----------------------------------------------------------------------------
TypeOK ==
  /\ hwEnable \subseteq {"RE", "WE"} /\ irq_enable \subseteq {"RE", "WE"} /\ tmp \subseteq {"RE", "WE"}
  /\ {ac, host, pie, clock, nonblock, avail} \subseteq BOOLEAN
  /\ {rx_in, rx_out, tx_in, tx_out, seen} \subseteq Slots
  /\ Len(txFifo) <= Depth /\ Len(rxFifo) <= Depth /\ space \in 0..Depth
  /\ host_inactive \in 0..IntMax - 2 /\ timeout \in 0..IntMax
  /\ isr \in {"off", "control", "rx", "tx"}
  /\ n \in 0..BufLen - 1 /\ count \in 0..MaxCall /\ done \in 0..MaxCall

\* The slots a ring holds, and the place of a slot in it.
Held(in, out) == IF in >= out THEN in - out ELSE in + BufLen - out
Place(i, out) == IF i >= out THEN i - out ELSE i + BufLen - out

(* Write direction: the transmit ring followed by what the UART has not yet
   given to the host is exactly the characters accepted and not delivered,
   in order: nothing is lost, repeated or overwritten before it is sent. *)
TxInOrder ==
  LET sent == taken - Held(tx_in, tx_out) IN
  /\ \A i \in Slots : Place(i, tx_out) < Held(tx_in, tx_out) => tx_buf[i] = sent + Place(i, tx_out)
  /\ hostGot + Len(txFifo) = sent
  /\ \A i \in 1..Len(txFifo) : txFifo[i] = hostGot + i - 1

(* Read direction: what the caller was given, the receive ring and the
   receive FIFO are together what the host has sent, in order. *)
RxInOrder ==
  /\ \A i \in Slots : Place(i, rx_out) < Held(rx_in, rx_out) => rx_buf[i] = given + Place(i, rx_out)
  /\ hostSent = given + Held(rx_in, rx_out) + Len(rxFifo)
  /\ \A i \in 1..Len(rxFifo) : rxFifo[i] = given + Held(rx_in, rx_out) + i - 1
  /\ pc # "r_publish" => \A i \in 1..Len(got) : got[i] = given - Len(got) + i - 1

(* No lost wake-up: while characters wait in the transmit ring the transmit
   interrupt is on, and while the receive interrupt is off characters wait
   in the receive ring; or the call that will turn it on is under way. *)
NoLostWakeup ==
  /\ hwEnable = irq_enable
  /\ tx_in # tx_out /\ pc \notin {"w_look", "w_publish", "w_kick", "w_store"}
       => "WE" \in irq_enable
  /\ rx_in = rx_out /\ pc \notin {"r_look", "r_end", "r_store"} => "RE" \in irq_enable

(* What is written is delivered as long as the host stays connected. *)
Delivered == <>[]host => (taken > hostGot ~> taken = hostGot)

(* With a clock, and a time limit the idle counter can reach, no call waits
   for ever on a host that is gone. *)
CallEnds == <>[](clock /\ ~host /\ timeout < IntMax - 1) => []<>(pc = "idle")
=============================================================================
