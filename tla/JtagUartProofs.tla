--------------------------- MODULE JtagUartProofs ---------------------------
(***************************************************************************)
(* For rings and FIFOs of every length, every time limit and every bound   *)
(* on what is written, sent and asked: the driver keeps the order of the   *)
(* characters both ways and never loses a wake-up, wherever the interrupt  *)
(* routine and the alarm break in.                                         *)
(***************************************************************************)
EXTENDS JtagUart, TLAPS

Bits == {"RE", "WE"}
Places == {"idle", "w_look", "w_publish", "w_kick", "w_store", "w_spin", "w_host",
           "r_look", "r_publish", "r_spin", "r_end", "r_store", "c_spin"}

\* The type of every variable; the routine never overfills the transmit FIFO.
HwTyped ==
  /\ txFifo \in Seq(Nat) /\ rxFifo \in Seq(Nat) /\ Len(txFifo) <= Depth /\ Len(rxFifo) <= Depth
  /\ hwEnable \in SUBSET Bits /\ ac \in BOOLEAN /\ host \in BOOLEAN
  /\ hostSent \in Nat /\ hostGot \in Nat
RxTyped == rx_in \in Slots /\ rx_out \in Slots /\ rx_buf \in [Slots -> Nat]
TxTyped == tx_in \in Slots /\ tx_out \in Slots /\ tx_buf \in [Slots -> Nat]
IdleTyped == host_inactive \in 0..IntMax - 2 /\ timeout \in 0..IntMax /\ clock \in BOOLEAN
IsrTyped ==
  /\ irq_enable \in SUBSET Bits /\ pie \in BOOLEAN /\ avail \in BOOLEAN
  /\ isr \in {"off", "control", "rx", "tx"} /\ space \in 0..Depth
  /\ isr \in {"rx", "tx"} => Len(txFifo) + space <= Depth
CallTyped ==
  /\ pc \in Places /\ nonblock \in BOOLEAN /\ n \in 0..BufLen - 1 /\ seen \in Slots
  /\ count \in 0..MaxCall /\ done \in 0..MaxCall /\ count + done <= MaxCall
  /\ pc \in {"w_publish", "r_publish"} => n \in 1..count
  /\ tmp \in SUBSET Bits /\ got \in Seq(Nat) /\ taken \in Nat /\ given \in Nat
Typed == HwTyped /\ RxTyped /\ TxTyped /\ IdleTyped /\ IsrTyped /\ CallTyped

\* The transmit ring, and the part of it that is copied and not yet published.
TxRing ==
  LET q == Held(tx_in, tx_out) IN
  /\ \A i \in Slots : Place(i, tx_out) < q => tx_buf[i] = taken - q + Place(i, tx_out)
  /\ hostGot + Len(txFifo) = taken - q
  /\ \A i \in 1..Len(txFifo) : txFifo[i] = hostGot + i - 1
  /\ pc = "w_publish" =>
       /\ tx_in + n <= BufLen /\ q + n <= BufLen - 1
       /\ \A i \in tx_in..tx_in + n - 1 : tx_buf[i] = taken + (i - tx_in)

\* The receive ring, and the part of it that is copied and not yet released.
RxRing ==
  LET q == Held(rx_in, rx_out)
      ahead == IF pc = "r_publish" THEN n ELSE 0 IN
  /\ \A i \in Slots : Place(i, rx_out) < q => rx_buf[i] = given + Place(i, rx_out)
  /\ hostSent = given + q + Len(rxFifo)
  /\ \A i \in 1..Len(rxFifo) : rxFifo[i] = given + q + i - 1
  /\ \A i \in 1..Len(got) : got[i] = given + ahead - Len(got) + i - 1
  /\ pc = "r_publish" => rx_out + n <= BufLen /\ n <= q

\* Interrupts are off only between the load and the store of the enables, so
\* the copy that is stored is the enables and one more.
Enables ==
  /\ hwEnable = irq_enable
  /\ isr # "off" => pie
  /\ pie <=> pc \notin {"w_store", "r_store"}
  /\ pc = "w_store" => tmp = irq_enable \cup {"WE"}
  /\ pc = "r_store" => tmp = irq_enable \cup {"RE"}
  /\ tx_in # tx_out /\ "WE" \notin irq_enable => pc \in {"w_look", "w_publish", "w_kick", "w_store"}
  /\ rx_in = rx_out /\ "RE" \notin irq_enable =>
       pc = "r_store" \/ (pc \in {"r_look", "r_end"} /\ done > 0)

IInv == Typed /\ TxRing /\ RxRing /\ Enables

-----------------------------------------------------------------------------
\* An index that reaches the end of a ring goes back to its start.
LEMMA Wrap == ASSUME NEW x \in 0..BufLen
              PROVE  x % BufLen = IF x = BufLen THEN 0 ELSE x
<1>1. BufLen \in Nat /\ BufLen > 0
  BY BufAssumption
<1>2. CASE x = BufLen
  BY <1>1, <1>2
<1>3. CASE x # BufLen
  BY <1>1, <1>3
<1>4. QED
  BY <1>2, <1>3

LEMMA InRange ==
  ASSUME NEW x \in Nat, NEW k \in Nat, NEW m \in Nat, x + k <= m, NEW i \in x..x + k - 1
  PROVE  i \in 0..m - 1
OBVIOUS

LEMMA InitInv == Init => IInv
<1> SUFFICES ASSUME Init PROVE IInv
  OBVIOUS
<1> USE BufAssumption, FifoAssumption, IntMaxAssumption, BoundAssumption DEF Init, Bits, Slots
<1>1. Typed
  <2>0. <<>> \in Seq(Nat) /\ Len(<<>>) = 0
    OBVIOUS
  <2>1. HwTyped /\ IsrTyped
    BY <2>0 DEF HwTyped, IsrTyped
  <2>2. RxTyped /\ TxTyped
    BY DEF RxTyped, TxTyped
  <2>3. IdleTyped
    BY DEF IdleTyped, LeastOf
  <2>4. CallTyped
    BY <2>0 DEF CallTyped, Places
  <2>5. QED
    BY <2>1, <2>2, <2>3, <2>4 DEF Typed
<1>2. TxRing
  BY BufAssumption DEF Init, TxRing, Held, Place, Slots
<1>3. RxRing
  BY BufAssumption DEF Init, RxRing, Held, Place, Slots
<1>4. Enables
  BY DEF Init, Enables
<1>5. QED
  BY <1>1, <1>2, <1>3, <1>4 DEF IInv

-----------------------------------------------------------------------------
\* The host, the alarm and the interrupt routine keep the types.
LEMMA TypedHost == Typed /\ (Host \/ Timeout) => Typed'
<1> SUFFICES ASSUME Typed, Host \/ Timeout PROVE Typed'
  OBVIOUS
<1> USE DEF Typed
<1>1. RxTyped' /\ TxTyped' /\ CallTyped' /\ irq_enable' = irq_enable
  BY DEF Host, Timeout, RxTyped, TxTyped, CallTyped, rxVars, txVars, callVars
<1>2. CASE HostTake /\ Host
  <2>1. Tail(txFifo) \in Seq(Nat) /\ Len(Tail(txFifo)) = Len(txFifo) - 1
    BY <1>2 DEF HostTake, HwTyped
  <2>2. HwTyped' /\ IdleTyped'
    BY <1>2, <2>1, FifoAssumption DEF HostTake, Host, HwTyped, IdleTyped, idleVars
  <2>3. IsrTyped'
    BY <1>2, <2>1, FifoAssumption DEF HostTake, Host, HwTyped, IsrTyped, isrVars
  <2>4. QED
    BY <1>1, <2>2, <2>3
<1>3. CASE HostSend /\ Host
  <2>1. Append(rxFifo, hostSent) \in Seq(Nat) /\ Len(Append(rxFifo, hostSent)) = Len(rxFifo) + 1
    BY DEF HwTyped
  <2>2. HwTyped' /\ IsrTyped' /\ IdleTyped'
    BY <1>3, <2>1, FifoAssumption DEF HostSend, Host, HwTyped, IsrTyped, isrVars, IdleTyped, idleVars
  <2>3. QED
    BY <1>1, <2>2
<1>4. CASE HostChange /\ Host
  BY <1>1, <1>4 DEF HostChange, Host, HwTyped, IsrTyped, isrVars, IdleTyped, idleVars
<1>5. CASE Timeout
  <2>1. IdleTyped'
    BY <1>5, IntMaxAssumption DEF Timeout, IdleSecond, IdleTyped
  <2>2. HwTyped' /\ IsrTyped'
    BY <1>5 DEF Timeout, HwTyped, IsrTyped, isrVars
  <2>3. QED
    BY <1>1, <2>1, <2>2
<1>6. QED
  BY <1>2, <1>3, <1>4, <1>5 DEF Host

LEMMA TypedIrq == Typed /\ Irq => Typed'
<1> SUFFICES ASSUME Typed, Irq PROVE Typed'
  OBVIOUS
<1> USE DEF Typed
<1>0. IdleTyped' /\ CallTyped' /\ pie' = pie
  BY DEF Irq, IdleTyped, CallTyped, idleVars, callVars
<1>1. CASE IrqControl
  <2>1. HwTyped' /\ RxTyped' /\ TxTyped'
    BY <1>1 DEF IrqControl, HwTyped, RxTyped, TxTyped, hwVars, rxVars, txVars
  <2>2. IsrTyped'
    BY <1>0, <1>1, FifoAssumption DEF IrqControl, IsrTyped, HwTyped, hwVars, RI, WI
  <2>3. QED
    BY <1>0, <2>1, <2>2
<1>2. CASE IrqRxChar
  <2>1. (rx_in + 1) % BufLen \in Slots
    BY Wrap, BufAssumption DEF RxTyped, Slots
  <2>2. Head(rxFifo) \in Nat /\ Tail(rxFifo) \in Seq(Nat) /\ Len(Tail(rxFifo)) = Len(rxFifo) - 1
    BY <1>2 DEF IrqRxChar, HwTyped
  <2>3. HwTyped'
    BY <1>2, <2>2, FifoAssumption DEF IrqRxChar, HwTyped
  <2>4. RxTyped' /\ TxTyped'
    BY <1>2, <2>1, <2>2 DEF IrqRxChar, RxTyped, TxTyped, txVars
  <2>5. IsrTyped'
    BY <1>0, <1>2 DEF IrqRxChar, IsrTyped
  <2>6. QED
    BY <1>0, <2>3, <2>4, <2>5
<1>3. CASE IrqRxEmpty
  BY <1>0, <1>3 DEF IrqRxEmpty, AfterRx, HwTyped, RxTyped, TxTyped, IsrTyped, hwVars, rxVars, txVars
<1>4. CASE IrqRxFull
  BY <1>0, <1>4 DEF IrqRxFull, AfterRx, SetEnable, HwTyped, RxTyped, TxTyped, IsrTyped, rxVars, txVars
<1>5. CASE IrqTxChar
  <2>1. (tx_out + 1) % BufLen \in Slots
    BY Wrap, BufAssumption DEF TxTyped, Slots
  <2>2. /\ Append(txFifo, tx_buf[tx_out]) \in Seq(Nat)
        /\ Len(Append(txFifo, tx_buf[tx_out])) = Len(txFifo) + 1
    BY DEF HwTyped, TxTyped
  <2>3. HwTyped' /\ RxTyped' /\ TxTyped' /\ IsrTyped'
    BY <1>0, <1>5, <2>1, <2>2, FifoAssumption
       DEF IrqTxChar, HwTyped, RxTyped, TxTyped, IsrTyped, rxVars
  <2>4. QED
    BY <1>0, <2>3
<1>6. CASE IrqTxEnd
  BY <1>0, <1>6, FifoAssumption
     DEF IrqTxEnd, SetEnable, HwTyped, RxTyped, TxTyped, IsrTyped, rxVars, txVars
<1>7. QED
  BY <1>1, <1>2, <1>3, <1>4, <1>5, <1>6 DEF Irq

\* Every step of the thread keeps the types; what it does not touch first.
LEMMA TypedCalling ==
  ASSUME Typed, isr = "off", UNCHANGED <<isrVars, clock>>, Calling
  PROVE  Typed'
<1> USE DEF Typed, isrVars
<1>1. HwTyped' /\ TxTyped' /\ RxTyped' /\ IsrTyped'
  BY DEF Calling, WriteCall, ReadCall, CloseCall, Ioctl, Only, Begin, HwTyped, TxTyped, RxTyped,
         IsrTyped, rxVars, txVars
<1>2. IdleTyped'
  BY IntMaxAssumption
     DEF Calling, WriteCall, ReadCall, CloseCall, Ioctl, Only, SetTimeout, IdleTyped
<1>3. CASE WriteCall
  BY <1>1, <1>2, <1>3, BoundAssumption DEF WriteCall, Only, Begin, CallTyped, Places
<1>4. CASE ReadCall
  <2>1. <<>> \in Seq(Nat)
    OBVIOUS
  <2>2. CallTyped'
    BY <1>4, <2>1, BoundAssumption DEF ReadCall, Only, Begin, CallTyped, Places
  <2>3. QED
    BY <1>1, <1>2, <2>2
<1>5. CASE CloseCall
  BY <1>1, <1>2, <1>5, BoundAssumption DEF CloseCall, Only, Begin, CallTyped, Places
<1>6. CASE Ioctl
  BY <1>1, <1>2, <1>6 DEF Ioctl, CallTyped, Locals
<1>7. QED
  BY <1>1, <1>2, <1>3, <1>4, <1>5, <1>6 DEF Calling

\* A call that returns leaves well-typed locals.
LEMMA ForgetTyped ==
  ASSUME CallTyped, Forget, pc' = "idle", UNCHANGED <<taken, given>>
  PROVE  CallTyped'
<1>1. nonblock' = FALSE /\ count' = 0 /\ done' = 0 /\ n' = 0 /\ seen' = 0 /\ tmp' = {} /\ got' = <<>>
  BY DEF Forget
<1>2. <<>> \in Seq(Nat) /\ 0 \in Slots /\ 0 \in 0..BufLen - 1 /\ 0 \in 0..MaxCall /\ 0 + 0 <= MaxCall
  BY BufAssumption, BoundAssumption DEF Slots
<1>3. pc' \in Places /\ nonblock' \in BOOLEAN /\ tmp' \in SUBSET Bits
  BY <1>1 DEF Places
<1>4. n' \in 0..BufLen - 1 /\ seen' \in Slots /\ count' \in 0..MaxCall /\ done' \in 0..MaxCall
      /\ count' + done' <= MaxCall
  BY <1>1, <1>2
<1>5. got' \in Seq(Nat) /\ taken' \in Nat /\ given' \in Nat
  BY <1>1, <1>2 DEF CallTyped
<1>6. QED
  BY <1>3, <1>4, <1>5 DEF CallTyped

LEMMA TypedGoing ==
  ASSUME Typed, TxRing, RxRing, isr = "off", UNCHANGED <<isrVars, clock>>, Going
  PROVE  Typed'
<1> USE DEF Typed, isrVars
<1>0. <<>> \in Seq(Nat) /\ MaxCall \in Nat
  BY BoundAssumption
<1>1. IdleTyped'
  BY DEF Going, WriteLook, WriteAll, WritePublish, WriteKick, WriteStore, WriteSpin, WriteHost,
         ReadLook, ReadAll, ReadPublish, ReadSpin, ReadEnd, ReadStore, CloseSpin, Only, IdleTyped
<1>2. CASE WriteLook
  <2>1. n' \in 0..BufLen - 1 /\ n' <= count
    BY <1>2, BufAssumption
       DEF WriteLook, FreeFrom, LeastOf, TxTyped, CallTyped, Slots
  <2>2. TxTyped'
    BY <1>2, <2>1 DEF WriteLook, TxTyped, CallTyped, Slots
  <2>3. CallTyped'
    BY <1>2, <2>1 DEF WriteLook, Only, Goto, CallTyped, TxTyped, Places
  <2>4. HwTyped' /\ RxTyped' /\ IsrTyped'
    BY <1>2 DEF WriteLook, Only, HwTyped, RxTyped, IsrTyped, rxVars
  <2>5. QED
    BY <1>1, <2>2, <2>3, <2>4
<1>3. CASE WriteAll \/ WriteSpin \/ WriteHost \/ ReadAll \/ ReadSpin \/ CloseSpin
  <2>1. HwTyped' /\ RxTyped' /\ TxTyped' /\ IsrTyped'
    BY <1>3 DEF WriteAll, WriteSpin, WriteHost, ReadAll, ReadSpin, CloseSpin, Only,
                HwTyped, RxTyped, TxTyped, IsrTyped, rxVars, txVars
  <2>2. pc' \in Places \ {"w_publish", "r_publish"} /\ taken' = taken /\ given' = given
    BY <1>3 DEF WriteAll, WriteSpin, WriteHost, ReadAll, ReadSpin, CloseSpin, Only,
                Goto, Return, WriteReturn, Places
  <2>3. CASE pc' = "idle"
    <3>1. Forget
      BY <1>3, <2>3 DEF WriteAll, WriteSpin, WriteHost, ReadAll, ReadSpin, CloseSpin, Only
    <3>2. CallTyped'
      BY <1>0, <2>2, <2>3, <3>1, ForgetTyped
    <3>3. QED
      BY <1>1, <2>1, <3>2
  <2>4. CASE pc' # "idle"
    <3>1. UNCHANGED <<nonblock, count, done, n, seen, tmp, got>>
      BY <1>3, <2>4 DEF WriteAll, WriteSpin, WriteHost, ReadAll, ReadSpin, CloseSpin, Only
    <3>2. CallTyped'
      BY <2>2, <3>1 DEF CallTyped
    <3>3. QED
      BY <1>1, <2>1, <3>2
  <2>5. QED
    BY <2>3, <2>4
<1>4. CASE WritePublish
  <2>1. tx_in + n \in 0..BufLen
    BY <1>4, BufAssumption DEF WritePublish, TxRing, TxTyped, CallTyped, Slots
  <2>2. (tx_in + n) % BufLen \in Slots
    BY <2>1, Wrap, BufAssumption DEF Slots
  <2>3. HwTyped' /\ RxTyped' /\ TxTyped' /\ IsrTyped'
    BY <1>4, <2>2 DEF WritePublish, Only, HwTyped, RxTyped, TxTyped, IsrTyped, rxVars
  <2>4. CallTyped'
    BY <1>0, <1>4 DEF WritePublish, Only, Goto, CallTyped, Places
  <2>5. QED
    BY <1>1, <2>3, <2>4
<1>5. CASE WriteKick \/ WriteStore \/ ReadEnd \/ ReadStore
  <2>1. HwTyped' /\ RxTyped' /\ TxTyped' /\ IsrTyped'
    BY <1>5 DEF WriteKick, WriteStore, ReadEnd, ReadStore, LoadEnable, StoreEnable, SetEnable, DisableAll,
                Only, HwTyped, RxTyped, TxTyped, IsrTyped, CallTyped, rxVars, txVars, Bits
  <2>2. pc' \in Places \ {"w_publish", "r_publish"} /\ taken' = taken /\ given' = given
    BY <1>5 DEF WriteKick, WriteStore, ReadEnd, ReadStore, Only, Goto,
                Return, WriteReturn, ReadReturn, Places
  <2>3. CASE pc' = "idle"
    <3>1. Forget
      BY <1>5, <2>3 DEF WriteKick, WriteStore, ReadEnd, ReadStore, Only
    <3>2. CallTyped'
      BY <1>0, <2>2, <2>3, <3>1, ForgetTyped
    <3>3. QED
      BY <1>1, <2>1, <3>2
  <2>4. CASE pc' # "idle"
    <3>1. UNCHANGED <<nonblock, count, done, n, seen, got>>
      BY <1>5, <2>4 DEF WriteKick, WriteStore, ReadEnd, ReadStore, Only
    <3>2. tmp' \in SUBSET Bits
      BY <1>5, <2>4 DEF WriteKick, WriteStore, ReadEnd, ReadStore, LoadEnable, StoreEnable, DisableAll,
                        Goto, Return, ReadReturn, IsrTyped, Bits
    <3>3. CallTyped'
      BY <2>2, <3>1, <3>2 DEF CallTyped
    <3>4. QED
      BY <1>1, <2>1, <3>3
  <2>5. QED
    BY <2>3, <2>4
<1>6. CASE ReadLook
  <2>1. n' \in 0..BufLen - 1 /\ n' <= count /\ (n' > 0 => n' \in 1..count)
    BY <1>6, BufAssumption DEF ReadLook, FilledFrom, LeastOf, RxTyped, CallTyped, Slots
  <2>2. [i \in 1..n' |-> rx_buf[rx_out + i - 1]] \in Seq(Nat)
    <3>1. n' <= BufLen - rx_out
      BY <1>6, BufAssumption DEF ReadLook, FilledFrom, LeastOf, RxTyped, CallTyped, Slots
    <3>2. \A i \in 1..n' : rx_buf[rx_out + i - 1] \in Nat
      BY <2>1, <3>1, BufAssumption DEF RxTyped, Slots
    <3>3. QED
      BY <2>1, <3>2
  <2>3. got' \in Seq(Nat)
    BY <1>6, <2>2 DEF ReadLook, CallTyped
  <2>4. CallTyped'
    BY <1>0, <1>6, <2>1, <2>3 DEF ReadLook, Only, Goto, CallTyped, RxTyped, Places
  <2>5. HwTyped' /\ RxTyped' /\ TxTyped' /\ IsrTyped'
    BY <1>6 DEF ReadLook, Only, HwTyped, RxTyped, TxTyped, IsrTyped, rxVars, txVars
  <2>6. QED
    BY <1>1, <2>4, <2>5
<1>7. CASE ReadPublish
  <2>1. rx_out + n \in 0..BufLen
    BY <1>7, BufAssumption DEF ReadPublish, RxRing, RxTyped, CallTyped, Slots
  <2>2. (rx_out + n) % BufLen \in Slots
    BY <2>1, Wrap, BufAssumption DEF Slots
  <2>3. HwTyped' /\ RxTyped' /\ TxTyped' /\ IsrTyped'
    BY <1>7, <2>2 DEF ReadPublish, Only, HwTyped, RxTyped, TxTyped, IsrTyped, txVars
  <2>4. CallTyped'
    BY <1>0, <1>7 DEF ReadPublish, Only, Goto, CallTyped, Places
  <2>5. QED
    BY <1>1, <2>3, <2>4
<1>8. QED
  BY <1>2, <1>3, <1>4, <1>5, <1>6, <1>7 DEF Going

-----------------------------------------------------------------------------
\* Nothing the transmit ring depends on changes.
LEMMA TxQuiet ==
  ASSUME TxRing, UNCHANGED <<txFifo, tx_in, tx_out, tx_buf, hostGot, taken>>,
         pc' # "w_publish" \/ UNCHANGED <<pc, n>>
  PROVE  TxRing'
BY DEF TxRing, Held, Place

\* What the ring and the FIFO hold, in numbers and character by character.
LEMMA TxNumbers ==
  ASSUME Typed, TxRing
  PROVE  /\ Held(tx_in, tx_out) \in 0..BufLen - 1 /\ taken \in Nat /\ hostGot \in Nat
         /\ Len(txFifo) \in Nat /\ n \in 0..BufLen - 1
         /\ tx_in \in 0..BufLen - 1 /\ tx_out \in 0..BufLen - 1
         /\ hostGot + Len(txFifo) = taken - Held(tx_in, tx_out)
<1>1. /\ Held(tx_in, tx_out) \in 0..BufLen - 1 /\ tx_in \in 0..BufLen - 1 /\ tx_out \in 0..BufLen - 1
  BY BufAssumption DEF Typed, TxTyped, Held, Slots
<1>2. taken \in Nat /\ hostGot \in Nat /\ Len(txFifo) \in Nat /\ n \in 0..BufLen - 1
  BY DEF Typed, HwTyped, CallTyped
<1>3. QED
  BY <1>1, <1>2 DEF TxRing

LEMMA TxFacts ==
  ASSUME TxRing
  PROVE  LET q == Held(tx_in, tx_out) IN
         /\ \A i \in 0..BufLen - 1 : Place(i, tx_out) < q => tx_buf[i] = taken - q + Place(i, tx_out)
         /\ \A i \in 1..Len(txFifo) : txFifo[i] = hostGot + i - 1
BY DEF TxRing, Slots

\* What is free from a slot on lies before the end and after what is held.
LEMMA FreeSlots ==
  ASSUME NEW in \in 0..BufLen - 1, NEW out \in 0..BufLen - 1,
         NEW k \in Nat, k <= FreeFrom(in, out)
  PROVE  /\ k <= BufLen - 1 /\ in + k <= BufLen /\ Held(in, out) + k <= BufLen - 1
         /\ \A i \in 0..BufLen - 1 : i >= in /\ i <= in + k - 1 => Place(i, out) >= Held(in, out)
<1>1. CASE in < out
  BY <1>1, BufAssumption DEF FreeFrom, Held, Place
<1>2. CASE in >= out /\ out > 0
  BY <1>2, BufAssumption DEF FreeFrom, Held, Place
<1>3. CASE in >= out /\ out = 0
  BY <1>3, BufAssumption DEF FreeFrom, Held, Place
<1>4. QED
  BY <1>1, <1>2, <1>3, BufAssumption

\* The slots that follow what is held are in place after it.
LEMMA NextSlots ==
  ASSUME NEW in \in 0..BufLen - 1, NEW out \in 0..BufLen - 1, NEW k \in Nat,
         in + k <= BufLen, Held(in, out) + k <= BufLen - 1,
         NEW i \in 0..BufLen - 1, Place(i, out) >= Held(in, out), Place(i, out) < Held(in, out) + k
  PROVE  i = in + (Place(i, out) - Held(in, out))
<1>1. CASE in < out
  BY <1>1, BufAssumption DEF Held, Place
<1>2. CASE in >= out
  BY <1>2, BufAssumption DEF Held, Place
<1>3. QED
  BY <1>1, <1>2, BufAssumption

LEMMA PlaceRange ==
  ASSUME NEW i \in 0..BufLen - 1, NEW out \in 0..BufLen - 1
  PROVE  /\ Place(i, out) \in 0..BufLen - 1
         /\ LET next == IF out + 1 = BufLen THEN 0 ELSE out + 1 IN
            Place(i, next) = IF i = out THEN BufLen - 1 ELSE Place(i, out) - 1
BY BufAssumption DEF Place

\* The interrupt routine sends the oldest character of the ring.
LEMMA TxSend == ASSUME Typed, TxRing, Irq, IrqTxChar PROVE TxRing'
<1> DEFINE q == Held(tx_in, tx_out)
<1> DEFINE next == IF tx_out + 1 = BufLen THEN 0 ELSE tx_out + 1
<1>1. tx_out' = next
  <2>1. tx_out + 1 \in 0..BufLen
    BY TxNumbers, BufAssumption
  <2>2. QED
    BY <2>1, Wrap DEF IrqTxChar
<1>2. UNCHANGED <<tx_in, tx_buf, hostGot, taken, pc, n>> /\ tx_in # tx_out
  BY DEF Irq, IrqTxChar, callVars
<1>3. q \in 1..BufLen - 1 /\ Held(tx_in, next) = q - 1
  <2>1. tx_in \in 0..BufLen - 1 /\ tx_out \in 0..BufLen - 1 /\ tx_in # tx_out
    BY <1>2, TxNumbers
  <2>2. Held(tx_in, tx_out) \in 1..BufLen - 1
    BY <2>1, BufAssumption DEF Held
  <2>3. CASE tx_out + 1 = BufLen
    <3>1. next = 0 /\ Held(tx_in, 0) = Held(tx_in, tx_out) - 1
      BY <2>1, <2>3, BufAssumption DEF Held
    <3>2. QED
      BY <2>2, <3>1
  <2>4. CASE tx_out + 1 # BufLen
    <3>1. next = tx_out + 1
      BY <2>4
    <3>2. Held(tx_in, tx_out + 1) = Held(tx_in, tx_out) - 1
      BY <2>1, <2>4, BufAssumption DEF Held
    <3>3. QED
      BY <2>2, <3>1, <3>2
  <2>5. QED
    BY <2>3, <2>4
<1>4. \A i \in Slots : Place(i, next) < q - 1 => tx_buf[i] = taken - (q - 1) + Place(i, next)
  <2>1. SUFFICES ASSUME NEW i \in 0..BufLen - 1, Place(i, next) < q - 1
                 PROVE  tx_buf[i] = taken - (q - 1) + Place(i, next)
    BY DEF Slots
  <2>2. Place(i, tx_out) \in 0..BufLen - 1
        /\ Place(i, next) = IF i = tx_out THEN BufLen - 1 ELSE Place(i, tx_out) - 1
    BY PlaceRange, TxNumbers
  <2>3. Place(i, tx_out) < q /\ Place(i, next) = Place(i, tx_out) - 1
    BY <1>3, <2>1, <2>2, BufAssumption
  <2>4. tx_buf[i] = taken - q + Place(i, tx_out)
    BY <2>3, TxNumbers, TxFacts
  <2>5. taken \in Nat
    BY TxNumbers
  <2>6. QED
    BY <1>3, <2>2, <2>3, <2>4, <2>5
<1>5. tx_buf[tx_out] = taken - q
  <2>1. Place(tx_out, tx_out) = 0
    BY TxNumbers DEF Place
  <2>2. tx_out \in 0..BufLen - 1 /\ Place(tx_out, tx_out) < q /\ taken \in Nat
    BY <1>3, <2>1, TxNumbers
  <2>3. tx_buf[tx_out] = taken - q + Place(tx_out, tx_out)
    BY <2>2, TxFacts
  <2>4. QED
    BY <1>3, <2>1, <2>2, <2>3
<1>6. /\ Len(txFifo') = Len(txFifo) + 1
      /\ \A i \in 1..Len(txFifo) : txFifo'[i] = txFifo[i]
      /\ txFifo'[Len(txFifo) + 1] = tx_buf[tx_out]
  BY DEF IrqTxChar, Typed, HwTyped
<1>7. hostGot + Len(txFifo') = taken - (q - 1)
  BY <1>3, <1>6, TxNumbers
<1>8. \A i \in 1..Len(txFifo') : txFifo'[i] = hostGot + i - 1
  <2>1. SUFFICES ASSUME NEW i \in 1..Len(txFifo) + 1 PROVE txFifo'[i] = hostGot + i - 1
    BY <1>6
  <2>2. CASE i = Len(txFifo) + 1
    <3>1. txFifo'[i] = taken - q
      BY <1>5, <1>6, <2>2
    <3>2. taken - q = hostGot + i - 1
      BY <1>3, <2>2, TxNumbers
    <3>3. QED
      BY <3>1, <3>2
  <2>3. CASE i # Len(txFifo) + 1
    <3>1. i \in 1..Len(txFifo)
      BY <2>3, TxNumbers
    <3>2. QED
      BY <1>6, <3>1, TxNumbers, TxFacts
  <2>4. QED
    BY <2>2, <2>3
<1>9. pc = "w_publish" =>
         /\ tx_in + n <= BufLen /\ q - 1 + n <= BufLen - 1
         /\ \A i \in tx_in..tx_in + n - 1 : tx_buf[i] = taken + (i - tx_in)
  <2>1. pc = "w_publish" =>
         /\ tx_in + n <= BufLen /\ q + n <= BufLen - 1
         /\ \A i \in tx_in..tx_in + n - 1 : tx_buf[i] = taken + (i - tx_in)
    BY DEF TxRing
  <2>2. QED
    BY <1>3, <2>1, TxNumbers, BufAssumption
<1>10. QED
  BY <1>1, <1>2, <1>3, <1>4, <1>7, <1>8, <1>9 DEF TxRing

\* The host takes the oldest character of the FIFO.
LEMMA TxTake == ASSUME Typed, TxRing, Host, HostTake PROVE TxRing'
<1>1. UNCHANGED <<tx_in, tx_out, tx_buf, taken, pc, n>> /\ hostGot' = hostGot + 1
  BY DEF Host, HostTake, txVars, callVars
<1>2. /\ Len(txFifo') = Len(txFifo) - 1 /\ Len(txFifo) \in Nat
      /\ \A i \in 1..Len(txFifo) - 1 : txFifo'[i] = txFifo[i + 1]
  BY DEF HostTake, Typed, HwTyped
<1>3. hostGot' + Len(txFifo') = taken - Held(tx_in, tx_out)
  BY <1>1, <1>2 DEF TxRing, Typed, HwTyped
<1>4. \A i \in 1..Len(txFifo') : txFifo'[i] = hostGot' + i - 1
  BY <1>1, <1>2 DEF TxRing, Typed, HwTyped
<1>5. QED
  BY <1>1, <1>3, <1>4 DEF TxRing, Held, Place

\* write copies into free slots only.
LEMMA TxCopy == ASSUME Typed, TxRing, WriteLook PROVE TxRing'
<1> DEFINE q == Held(tx_in, tx_out)
<1>1. UNCHANGED <<tx_in, tx_out, txFifo, hostGot, taken>>
  BY DEF WriteLook, Only
<1>2. /\ n' \in 0..BufLen - 1 /\ q \in 0..BufLen - 1
      /\ tx_in + n' <= BufLen /\ q + n' <= BufLen - 1 /\ n' <= FreeFrom(tx_in, tx_out)
  <2>1. FreeFrom(tx_in, tx_out) \in Nat
    BY TxNumbers, BufAssumption DEF FreeFrom
  <2>2. count \in Nat /\ n' = LeastOf(FreeFrom(tx_in, tx_out), count)
    BY BoundAssumption DEF WriteLook, Typed, CallTyped
  <2>3. n' \in Nat /\ n' <= FreeFrom(tx_in, tx_out)
    BY <2>1, <2>2 DEF LeastOf
  <2>4. QED
    BY <2>3, TxNumbers, FreeSlots, BufAssumption
<1>3. ASSUME NEW i \in 0..BufLen - 1, i >= tx_in, i <= tx_in + n' - 1
      PROVE  Place(i, tx_out) >= q
  BY <1>2, <1>3, TxNumbers, FreeSlots
<1>4. \A i \in 0..BufLen - 1 :
         tx_buf'[i] = IF i \in tx_in..tx_in + n' - 1 THEN taken + (i - tx_in) ELSE tx_buf[i]
  BY DEF WriteLook, Slots
<1>5. \A i \in Slots : Place(i, tx_out) < q => tx_buf'[i] = taken - q + Place(i, tx_out)
  <2>1. SUFFICES ASSUME NEW i \in 0..BufLen - 1, Place(i, tx_out) < q
                 PROVE  tx_buf'[i] = taken - q + Place(i, tx_out)
    BY DEF Slots
  <2>2. Place(i, tx_out) \in 0..BufLen - 1
    BY PlaceRange, TxNumbers
  <2>3. ~(i >= tx_in /\ i <= tx_in + n' - 1)
    BY <1>2, <1>3, <2>1, <2>2
  <2>4. i \notin tx_in..tx_in + n' - 1
    BY <2>3, TxNumbers
  <2>5. QED
    BY <1>4, <2>1, <2>4, TxNumbers, TxFacts
<1>6. \A i \in tx_in..tx_in + n' - 1 : tx_buf'[i] = taken + (i - tx_in)
  <2>1. tx_in \in Nat /\ n' \in Nat /\ BufLen \in Nat /\ tx_in + n' <= BufLen
    BY <1>2, TxNumbers, BufAssumption
  <2>2. \A i \in tx_in..tx_in + n' - 1 : i \in 0..BufLen - 1
    BY <2>1, InRange
  <2>3. QED
    BY <1>4, <2>2
<1>7. QED
  BY <1>1, <1>2, <1>5, <1>6, TxNumbers, TxFacts DEF TxRing

\* write publishes what it copied.
LEMMA TxPublish == ASSUME Typed, TxRing, WritePublish PROVE TxRing'
<1> DEFINE q == Held(tx_in, tx_out)
<1>1. UNCHANGED <<tx_out, tx_buf, txFifo, hostGot>> /\ taken' = taken + n /\ pc' = "w_look"
  BY DEF WritePublish, Only, Goto
<1>2. /\ n \in 1..BufLen - 1 /\ tx_in + n <= BufLen /\ q + n <= BufLen - 1
      /\ \A i \in tx_in..tx_in + n - 1 : tx_buf[i] = taken + (i - tx_in)
  <2>1. n \in 1..BufLen - 1
    BY BufAssumption, BoundAssumption DEF WritePublish, Typed, CallTyped
  <2>2. QED
    BY <2>1 DEF WritePublish, TxRing
<1>3. tx_in' = IF tx_in + n = BufLen THEN 0 ELSE tx_in + n
  <2>1. tx_in + n \in 0..BufLen
    BY <1>2, TxNumbers, BufAssumption
  <2>2. QED
    BY <2>1, Wrap DEF WritePublish
<1>4. Held(tx_in', tx_out) = q + n
  BY <1>2, <1>3, TxNumbers, BufAssumption DEF Held
<1>5. \A i \in Slots : Place(i, tx_out) < q + n => tx_buf[i] = taken + n - (q + n) + Place(i, tx_out)
  <2>1. SUFFICES ASSUME NEW i \in 0..BufLen - 1, Place(i, tx_out) < q + n
                 PROVE  tx_buf[i] = taken + n - (q + n) + Place(i, tx_out)
    BY DEF Slots
  <2>2. Place(i, tx_out) \in 0..BufLen - 1 /\ taken \in Nat /\ q \in 0..BufLen - 1
    BY PlaceRange, TxNumbers
  <2>3. taken + n - (q + n) + Place(i, tx_out) = taken - q + Place(i, tx_out)
    BY <1>2, <2>2
  <2>4. CASE Place(i, tx_out) < q
    BY <2>3, <2>4, TxNumbers, TxFacts
  <2>5. CASE Place(i, tx_out) >= q
    <3>1. i = tx_in + (Place(i, tx_out) - q)
      BY <1>2, <2>1, <2>5, TxNumbers, NextSlots
    <3>2. i \in tx_in..tx_in + n - 1
      BY <1>2, <2>1, <2>2, <2>5, <3>1, TxNumbers
    <3>3. tx_buf[i] = taken + (i - tx_in)
      BY <1>2, <3>2
    <3>4. taken + (i - tx_in) = taken - q + Place(i, tx_out)
      BY <2>2, <3>1, TxNumbers
    <3>5. QED
      BY <2>3, <3>3, <3>4
  <2>6. QED
    BY <2>2, <2>4, <2>5
<1>6. hostGot + Len(txFifo) = taken + n - (q + n)
  BY <1>2, TxNumbers
<1>7. QED
  BY <1>1, <1>4, <1>5, <1>6, TxNumbers, TxFacts DEF TxRing
LEMMA TxStep == ASSUME Typed, TxRing, Next PROVE TxRing'
<1>1. CASE Host
  <2>1. CASE HostTake
    BY <1>1, <2>1, TxTake
  <2>2. CASE HostSend \/ HostChange
    BY <1>1, <2>2, TxQuiet DEF Host, HostSend, HostChange, txVars, callVars
  <2>3. QED
    BY <1>1, <2>1, <2>2 DEF Host
<1>2. CASE Irq
  <2>1. CASE IrqTxChar
    BY <1>2, <2>1, TxSend
  <2>2. CASE IrqControl \/ IrqRxChar \/ IrqRxEmpty \/ IrqRxFull \/ IrqTxEnd
    BY <1>2, <2>2, TxQuiet
       DEF Irq, IrqControl, IrqRxChar, IrqRxEmpty, IrqRxFull, IrqTxEnd, txVars, hwVars, callVars
  <2>3. QED
    BY <1>2, <2>1, <2>2 DEF Irq
<1>3. CASE Timeout
  BY <1>3, TxQuiet DEF Timeout, txVars, callVars
<1>4. CASE Calling
  BY <1>4, TxQuiet DEF Calling, WriteCall, ReadCall, CloseCall, Ioctl, Begin, Only, txVars
<1>5. CASE GoOn
  <2>1. CASE WriteLook
    BY <2>1, TxCopy
  <2>2. CASE WritePublish
    BY <2>2, TxPublish
  <2>3. CASE \/ WriteAll \/ WriteKick \/ WriteStore \/ WriteSpin \/ WriteHost
             \/ ReadLook \/ ReadAll \/ ReadPublish \/ ReadSpin \/ ReadEnd \/ ReadStore \/ CloseSpin
    <3>1. pc' # "w_publish"
      BY <2>3 DEF WriteAll, WriteKick, WriteStore, WriteSpin, WriteHost, ReadLook, ReadAll, ReadPublish,
                  ReadSpin, ReadEnd, ReadStore, CloseSpin, Goto, Return, WriteReturn, ReadReturn
    <3>2. UNCHANGED <<txFifo, tx_in, tx_out, tx_buf, hostGot, taken>>
      BY <2>3 DEF WriteAll, WriteKick, WriteStore, WriteSpin, WriteHost, ReadLook, ReadAll, ReadPublish,
                  ReadSpin, ReadEnd, ReadStore, CloseSpin, Only, txVars
    <3>3. QED
      BY <3>1, <3>2, TxQuiet
  <2>4. QED
    BY <1>5, <2>1, <2>2, <2>3 DEF GoOn, Going
<1>6. QED
  BY <1>1, <1>2, <1>3, <1>4, <1>5 DEF Next, Thread

-----------------------------------------------------------------------------
\* The one slot in place after what is held is the next to fill.
LEMMA HeldSlot ==
  ASSUME NEW in \in 0..BufLen - 1, NEW out \in 0..BufLen - 1, NEW i \in 0..BufLen - 1,
         Place(i, out) = Held(in, out)
  PROVE  i = in
<1>1. CASE i >= out
  BY <1>1, BufAssumption DEF Place, Held
<1>2. CASE i < out
  BY <1>2, BufAssumption DEF Place, Held
<1>3. QED
  BY <1>1, <1>2

LEMMA FilledSlots ==
  ASSUME NEW in \in 0..BufLen - 1, NEW out \in 0..BufLen - 1
  PROVE  /\ FilledFrom(in, out) \in 0..BufLen - 1 /\ FilledFrom(in, out) <= Held(in, out)
         /\ out + FilledFrom(in, out) <= BufLen
<1>1. CASE in >= out
  BY <1>1, BufAssumption DEF FilledFrom, Held
<1>2. CASE in < out
  BY <1>2, BufAssumption DEF FilledFrom, Held
<1>3. QED
  BY <1>1, <1>2

\* The receive ring in numbers, and character by character.
LEMMA RxNumbers ==
  ASSUME Typed, RxRing
  PROVE  /\ Held(rx_in, rx_out) \in 0..BufLen - 1 /\ given \in Nat /\ hostSent \in Nat
         /\ Len(rxFifo) \in Nat /\ n \in 0..BufLen - 1 /\ Len(got) \in Nat
         /\ rx_in \in 0..BufLen - 1 /\ rx_out \in 0..BufLen - 1
         /\ hostSent = given + Held(rx_in, rx_out) + Len(rxFifo)
<1>1. /\ Held(rx_in, rx_out) \in 0..BufLen - 1 /\ rx_in \in 0..BufLen - 1 /\ rx_out \in 0..BufLen - 1
  BY BufAssumption DEF Typed, RxTyped, Held, Slots
<1>2. /\ given \in Nat /\ hostSent \in Nat /\ Len(rxFifo) \in Nat /\ n \in 0..BufLen - 1
      /\ Len(got) \in Nat
  BY DEF Typed, HwTyped, CallTyped
<1>3. QED
  BY <1>1, <1>2 DEF RxRing

LEMMA RxFacts ==
  ASSUME RxRing
  PROVE  LET q == Held(rx_in, rx_out) IN
         /\ \A i \in 0..BufLen - 1 : Place(i, rx_out) < q => rx_buf[i] = given + Place(i, rx_out)
         /\ \A i \in 1..Len(rxFifo) : rxFifo[i] = given + q + i - 1
BY DEF RxRing, Slots

\* Where a slot and the filled part lie once the first k slots are released.
LEMMA Released ==
  ASSUME NEW in \in 0..BufLen - 1, NEW out \in 0..BufLen - 1, NEW k \in 0..BufLen - 1,
         out + k <= BufLen, k <= Held(in, out), NEW i \in 0..BufLen - 1
  PROVE  LET next == IF out + k = BufLen THEN 0 ELSE out + k IN
         /\ Held(in, next) = Held(in, out) - k
         /\ Place(i, next) = IF Place(i, out) >= k THEN Place(i, out) - k ELSE Place(i, out) + BufLen - k
<1> DEFINE next == IF out + k = BufLen THEN 0 ELSE out + k
<1>1. Held(in, next) = Held(in, out) - k
  <2>1. CASE in >= out
    BY <2>1, BufAssumption DEF Held
  <2>2. CASE in < out
    BY <2>2, BufAssumption DEF Held
  <2>3. QED
    BY <2>1, <2>2
<1>2. Place(i, next) = IF Place(i, out) >= k THEN Place(i, out) - k ELSE Place(i, out) + BufLen - k
  <2>1. CASE i >= out
    BY <2>1, BufAssumption DEF Place
  <2>2. CASE i < out
    BY <2>2, BufAssumption DEF Place
  <2>3. QED
    BY <2>1, <2>2
<1>3. QED
  BY <1>1, <1>2

\* Nothing the receive ring depends on changes, but the caller may take its buffer.
LEMMA RxQuiet ==
  ASSUME Typed, RxRing, UNCHANGED <<rxFifo, rx_in, rx_out, rx_buf, hostSent, given>>,
         got' = got \/ got' = <<>>,
         (pc # "r_publish" /\ pc' # "r_publish") \/ UNCHANGED <<pc, n, got>>
  PROVE  RxRing'
<1>1. CASE pc # "r_publish" /\ pc' # "r_publish"
  <2>1. \A i \in 1..Len(got') : got'[i] = given + 0 - Len(got') + i - 1
    <3>1. CASE got' = got
      BY <1>1, <3>1 DEF RxRing
    <3>2. CASE got' = <<>>
      BY <3>2
    <3>3. QED
      BY <3>1, <3>2
  <2>2. QED
    BY <1>1, <2>1 DEF RxRing, Held, Place
<1>2. CASE UNCHANGED <<pc, n, got>>
  BY <1>2 DEF RxRing, Held, Place
<1>3. QED
  BY <1>1, <1>2

\* The host sends one more character.
LEMMA RxSend == ASSUME Typed, RxRing, Host, HostSend PROVE RxRing'
<1>1. UNCHANGED <<rx_in, rx_out, rx_buf, given, got, pc, n>> /\ hostSent' = hostSent + 1
  BY DEF Host, HostSend, rxVars, callVars
<1>2. /\ Len(rxFifo') = Len(rxFifo) + 1 /\ rxFifo'[Len(rxFifo) + 1] = hostSent
      /\ \A i \in 1..Len(rxFifo) : rxFifo'[i] = rxFifo[i]
  BY DEF HostSend, Typed, HwTyped
<1>3. ASSUME NEW i \in 1..Len(rxFifo) + 1
      PROVE  rxFifo'[i] = given + Held(rx_in, rx_out) + i - 1
  <2>1. CASE i = Len(rxFifo) + 1
    BY <1>2, <2>1, RxNumbers
  <2>2. CASE i # Len(rxFifo) + 1
    <3>1. i \in 1..Len(rxFifo)
      BY <1>3, <2>2, RxNumbers
    <3>2. QED
      BY <1>2, <3>1, RxFacts
  <2>3. QED
    BY <2>1, <2>2
<1>4. hostSent' = given + Held(rx_in, rx_out) + Len(rxFifo')
  BY <1>1, <1>2, RxNumbers
<1>5. QED
  BY <1>1, <1>2, <1>3, <1>4 DEF RxRing, Held, Place
\* The interrupt routine moves the oldest character of the FIFO to the ring.
LEMMA RxMove == ASSUME Typed, RxRing, Irq, IrqRxChar PROVE RxRing'
<1> DEFINE q == Held(rx_in, rx_out)
<1>1. UNCHANGED <<rx_out, hostSent, given, got, pc, n>>
  BY DEF Irq, IrqRxChar, callVars
<1> DEFINE next == IF rx_in + 1 = BufLen THEN 0 ELSE rx_in + 1
<1>2. rx_in' = next /\ next # rx_out
  <2>1. rx_in + 1 \in 0..BufLen
    BY RxNumbers, BufAssumption
  <2>2. QED
    BY <2>1, Wrap DEF IrqRxChar, RxFull
<1>3. Held(next, rx_out) = q + 1
  <2>1. rx_in \in 0..BufLen - 1 /\ rx_out \in 0..BufLen - 1
    BY RxNumbers
  <2>2. CASE rx_in + 1 = BufLen
    <3>1. next = 0 /\ rx_out > 0 /\ rx_in >= rx_out
      BY <1>2, <2>1, <2>2, BufAssumption
    <3>2. Held(0, rx_out) = Held(rx_in, rx_out) + 1
      BY <2>1, <2>2, <3>1, BufAssumption DEF Held
    <3>3. QED
      BY <3>1, <3>2
  <2>3. CASE rx_in + 1 # BufLen
    <3>1. next = rx_in + 1 /\ rx_in + 1 # rx_out
      BY <1>2, <2>3
    <3>2. Held(rx_in + 1, rx_out) = Held(rx_in, rx_out) + 1
      BY <2>1, <3>1, BufAssumption DEF Held
    <3>3. QED
      BY <3>1, <3>2
  <2>4. QED
    BY <2>2, <2>3
<1>4. /\ rx_buf'[rx_in] = rxFifo[1] /\ rxFifo # <<>> /\ Len(rxFifo') = Len(rxFifo) - 1
      /\ \A i \in 1..Len(rxFifo) - 1 : rxFifo'[i] = rxFifo[i + 1]
      /\ \A i \in Slots \ {rx_in} : rx_buf'[i] = rx_buf[i]
  BY DEF IrqRxChar, Typed, HwTyped, RxTyped
<1>5. rx_buf'[rx_in] = given + q
  <2>1. Len(rxFifo) >= 1
    BY <1>4, RxNumbers DEF Typed, HwTyped
  <2>2. rxFifo[1] = given + q + 1 - 1
    BY <2>1, RxNumbers, RxFacts
  <2>3. QED
    BY <1>4, <2>2, RxNumbers
<1>6. ASSUME NEW i \in Slots, Place(i, rx_out) < q + 1
      PROVE  rx_buf'[i] = given + Place(i, rx_out)
  <2>1. i \in 0..BufLen - 1 /\ Place(i, rx_out) \in 0..BufLen - 1
    BY <1>6, PlaceRange, RxNumbers DEF Slots
  <2>2. CASE i = rx_in
    <3>1. Place(i, rx_out) = q
      BY <2>2 DEF Place, Held
    <3>2. QED
      BY <1>5, <2>2, <3>1
  <2>3. CASE i # rx_in
    <3>1. Place(i, rx_out) # q
      BY <2>1, <2>3, RxNumbers, HeldSlot
    <3>2. Place(i, rx_out) < q
      BY <1>6, <2>1, <3>1, RxNumbers
    <3>3. rx_buf'[i] = rx_buf[i]
      BY <1>4, <1>6, <2>3
    <3>4. QED
      BY <2>1, <3>2, <3>3, RxFacts
  <2>4. QED
    BY <2>2, <2>3
<1>7. ASSUME NEW i \in 1..Len(rxFifo)'
      PROVE  rxFifo'[i] = given + (q + 1) + i - 1
  <2>1. i \in 1..Len(rxFifo) - 1 /\ i + 1 \in 1..Len(rxFifo)
    BY <1>4, <1>7, RxNumbers
  <2>2. rxFifo'[i] = given + q + (i + 1) - 1
    BY <1>4, <2>1, RxFacts
  <2>3. QED
    BY <2>1, <2>2, RxNumbers
<1>8. hostSent = given + (q + 1) + Len(rxFifo')
  BY <1>4, RxNumbers
<1>9. pc = "r_publish" => rx_out + n <= BufLen /\ n <= q + 1
  <2>1. pc = "r_publish" => rx_out + n <= BufLen /\ n <= q
    BY DEF RxRing
  <2>2. QED
    BY <2>1, RxNumbers
<1>10. QED
  BY <1>1, <1>2, <1>3, <1>6, <1>7, <1>8, <1>9 DEF RxRing

\* read copies what the ring holds, from the oldest character on.
LEMMA RxCopy == ASSUME Typed, RxRing, ReadLook PROVE RxRing'
<1> DEFINE q == Held(rx_in, rx_out)
<1>1. UNCHANGED <<rx_in, rx_out, rx_buf, rxFifo, hostSent, given>> /\ pc = "r_look" /\ pc' # "idle"
  BY DEF ReadLook, Only, Goto, rxVars
<1>2. n' \in 0..BufLen - 1 /\ n' <= q /\ rx_out + n' <= BufLen
  <2>1. /\ FilledFrom(rx_in, rx_out) \in 0..BufLen - 1 /\ FilledFrom(rx_in, rx_out) <= q
        /\ rx_out + FilledFrom(rx_in, rx_out) <= BufLen
    BY RxNumbers, FilledSlots
  <2>2. count \in Nat /\ n' = LeastOf(FilledFrom(rx_in, rx_out), count)
    BY BoundAssumption DEF ReadLook, Typed, CallTyped
  <2>3. n' \in Nat /\ n' <= FilledFrom(rx_in, rx_out)
    BY <2>1, <2>2, BufAssumption DEF LeastOf
  <2>4. QED
    BY <2>1, <2>3, RxNumbers, BufAssumption
<1>3. pc' = "r_publish" <=> n' > 0
  BY DEF ReadLook, Goto
<1> DEFINE seg == [i \in 1..n' |-> rx_buf[rx_out + i - 1]]
<1>4. ASSUME NEW k \in 1..n' PROVE seg[k] = given + k - 1 /\ seg[k] \in Nat
  <2>1. k \in Int /\ 1 <= k /\ k <= n'
    BY <1>2, <1>4
  <2>2. rx_out + k - 1 \in 0..BufLen - 1 /\ Place(rx_out + k - 1, rx_out) = k - 1
    BY <1>2, <2>1, RxNumbers, BufAssumption DEF Place
  <2>3. rx_buf[rx_out + k - 1] = given + Place(rx_out + k - 1, rx_out)
    BY <1>2, <2>1, <2>2, RxNumbers, RxFacts
  <2>4. QED
    BY <1>4, <2>1, <2>2, <2>3, RxNumbers
<1>5. seg \in Seq(Nat) /\ Len(seg) = n' /\ got \in Seq(Nat)
  <2>1. n' \in Nat /\ got \in Seq(Nat)
    BY <1>2 DEF Typed, CallTyped
  <2>2. \A k \in 1..n' : rx_buf[rx_out + k - 1] \in Nat
    BY <1>4
  <2>3. seg \in [1..n' -> Nat]
    BY <2>2
  <2> HIDE DEF seg
  <2>4. QED
    BY <2>1, <2>3
<1>6. got' = got \o seg
  BY DEF ReadLook
<1>7. /\ Len(got') = Len(got) + n'
      /\ \A i \in 1..Len(got) : got'[i] = got[i]
      /\ \A i \in Len(got) + 1..Len(got) + n' : got'[i] = seg[i - Len(got)]
  <2> HIDE DEF seg
  <2>1. Len(got \o seg) = Len(got) + Len(seg)
    BY <1>5
  <2>2. \A i \in 1..Len(got) + Len(seg) :
           (got \o seg)[i] = IF i <= Len(got) THEN got[i] ELSE seg[i - Len(got)]
    BY <1>5
  <2>3. Len(got) \in Nat /\ n' \in Nat
    BY <1>2, RxNumbers
  <2>4. QED
    BY <1>5, <1>6, <2>1, <2>2, <2>3
<1>8. ASSUME NEW i \in 1..Len(got')
      PROVE  got'[i] = given + n' - Len(got') + i - 1
  <2> HIDE DEF seg
  <2>1. i \in Int /\ 1 <= i /\ i <= Len(got) + n' /\ Len(got) \in Nat /\ given \in Nat /\ n' \in Nat
    BY <1>2, <1>7, <1>8, RxNumbers
  <2>2. CASE i <= Len(got)
    <3>1. got[i] = given + 0 - Len(got) + i - 1
      BY <1>1, <2>1, <2>2 DEF RxRing
    <3>2. got'[i] = got[i]
      BY <1>7, <2>1, <2>2
    <3>3. QED
      BY <1>7, <2>1, <3>1, <3>2
  <2>3. CASE i > Len(got)
    <3>1. i - Len(got) \in 1..n' /\ i \in Len(got) + 1..Len(got) + n'
      BY <2>1, <2>3
    <3>2. got'[i] = given + (i - Len(got)) - 1
      BY <1>4, <1>7, <3>1
    <3>3. QED
      BY <1>7, <2>1, <3>2
  <2>4. QED
    BY <2>1, <2>2, <2>3
<1>9. (IF pc' = "r_publish" THEN n' ELSE 0) = n'
  BY <1>2, <1>3
<1>10. QED
  <2> HIDE DEF seg
  <2>1. UNCHANGED <<Held(rx_in, rx_out), rx_buf, rx_out>>
    BY <1>1 DEF Held
  <2>2. QED
    BY <1>1, <1>2, <1>8, <1>9, <2>1 DEF RxRing, Place

\* read releases what it copied.
LEMMA RxRelease == ASSUME Typed, RxRing, ReadPublish PROVE RxRing'
<1> DEFINE q == Held(rx_in, rx_out)
<1> DEFINE next == IF rx_out + n = BufLen THEN 0 ELSE rx_out + n
<1>1. UNCHANGED <<rx_in, rx_buf, rxFifo, hostSent, got>> /\ given' = given + n /\ pc' = "r_look"
  BY DEF ReadPublish, Only, Goto
<1>2. pc = "r_publish" /\ n <= q /\ rx_out + n <= BufLen
  BY DEF ReadPublish, RxRing
<1>3. rx_out' = next
  <2>1. rx_out + n \in 0..BufLen
    BY <1>2, RxNumbers, BufAssumption
  <2>2. QED
    BY <2>1, Wrap DEF ReadPublish
<1>4. ASSUME NEW i \in 0..BufLen - 1
      PROVE  /\ Held(rx_in, next) = q - n
             /\ Place(i, next) = IF Place(i, rx_out) >= n THEN Place(i, rx_out) - n
                                 ELSE Place(i, rx_out) + BufLen - n
  BY <1>2, RxNumbers, Released
<1>5. Held(rx_in, next) = q - n
  BY <1>4, RxNumbers
<1>6. ASSUME NEW i \in Slots, Place(i, next) < q - n
      PROVE  rx_buf[i] = given + n + Place(i, next)
  <2>1. i \in 0..BufLen - 1 /\ Place(i, rx_out) \in 0..BufLen - 1
    BY <1>6, PlaceRange, RxNumbers DEF Slots
  <2>2. Place(i, next) = Place(i, rx_out) - n /\ Place(i, rx_out) < q
    BY <1>4, <1>6, <2>1, RxNumbers, BufAssumption
  <2>3. rx_buf[i] = given + Place(i, rx_out)
    BY <2>1, <2>2, RxFacts
  <2>4. QED
    BY <2>1, <2>2, <2>3, RxNumbers
<1>7. /\ hostSent = given + n + (q - n) + Len(rxFifo)
      /\ given + n + (q - n) = given + q
  BY <1>2, RxNumbers
<1>8. \A i \in 1..Len(got) : got[i] = given + n + 0 - Len(got) + i - 1
  <2>1. \A i \in 1..Len(got) : got[i] = given + n - Len(got) + i - 1
    BY <1>2 DEF RxRing
  <2>2. QED
    BY <2>1, RxNumbers
<1>9. \A i \in 1..Len(rxFifo) : rxFifo[i] = given + n + (q - n) + i - 1
  BY <1>7, RxFacts
<1>10. QED
  BY <1>1, <1>3, <1>5, <1>6, <1>7, <1>8, <1>9 DEF RxRing

LEMMA RxStep == ASSUME Typed, RxRing, Next PROVE RxRing'
<1>1. CASE Host
  <2>1. CASE HostSend
    BY <1>1, <2>1, RxSend
  <2>2. CASE HostTake \/ HostChange
    BY <1>1, <2>2, RxQuiet DEF Host, HostTake, HostChange, rxVars, callVars
  <2>3. QED
    BY <1>1, <2>1, <2>2 DEF Host
<1>2. CASE Irq
  <2>1. CASE IrqRxChar
    BY <1>2, <2>1, RxMove
  <2>2. CASE IrqControl \/ IrqTxChar \/ IrqRxEmpty \/ IrqRxFull \/ IrqTxEnd
    BY <1>2, <2>2, RxQuiet
       DEF Irq, IrqControl, IrqTxChar, IrqRxEmpty, IrqRxFull, IrqTxEnd, rxVars, hwVars, callVars
  <2>3. QED
    BY <1>2, <2>1, <2>2 DEF Irq
<1>3. CASE Timeout
  BY <1>3, RxQuiet DEF Timeout, rxVars, callVars
<1>4. CASE Calling
  BY <1>4, RxQuiet DEF Calling, WriteCall, ReadCall, CloseCall, Ioctl, Begin, Only, Locals, rxVars
<1>5. CASE GoOn
  <2>1. CASE ReadLook
    BY <2>1, RxCopy
  <2>2. CASE ReadPublish
    BY <2>2, RxRelease
  <2>3. CASE \/ WriteLook \/ WriteAll \/ WritePublish \/ WriteKick \/ WriteStore \/ WriteSpin
             \/ WriteHost \/ ReadAll \/ ReadSpin \/ ReadEnd \/ ReadStore \/ CloseSpin
    <3>1. pc # "r_publish" /\ pc' # "r_publish"
      BY <2>3 DEF WriteLook, WriteAll, WritePublish, WriteKick, WriteStore, WriteSpin, WriteHost, ReadAll,
                  ReadSpin, ReadEnd, ReadStore, CloseSpin, Goto, Return, WriteReturn, ReadReturn
    <3>2. UNCHANGED <<rxFifo, rx_in, rx_out, rx_buf, hostSent, given>> /\ (got' = got \/ got' = <<>>)
      BY <2>3 DEF WriteLook, WriteAll, WritePublish, WriteKick, WriteStore, WriteSpin, WriteHost, ReadAll,
                  ReadSpin, ReadEnd, ReadStore, CloseSpin, Only, Forget, rxVars
    <3>3. QED
      BY <3>1, <3>2, RxQuiet
  <2>4. QED
    BY <1>5, <2>1, <2>2, <2>3 DEF GoOn, Going
<1>6. QED
  BY <1>1, <1>2, <1>3, <1>4, <1>5 DEF Next, Thread

-----------------------------------------------------------------------------
\* Nothing that decides which interrupts are on changes.
LEMMA EnablesQuiet ==
  ASSUME Enables, UNCHANGED <<irq_enable, hwEnable, isr, pie, tx_in, tx_out, rx_in, rx_out, pc, tmp, done>>
  PROVE  Enables'
BY DEF Enables

LEMMA EnablesIrq == ASSUME Typed, RxRing, Enables, Irq PROVE Enables'
<1> USE DEF Irq, callVars
<1>1. CASE IrqControl
  BY <1>1 DEF Enables, IrqControl, hwVars, rxVars, txVars
<1>2. CASE IrqRxChar
  <2>1. rx_in' # rx_out
    BY <1>2 DEF IrqRxChar, RxFull
  <2>2. QED
    BY <1>2, <2>1 DEF Enables, IrqRxChar, txVars
<1>3. CASE IrqRxEmpty
  BY <1>3 DEF Enables, IrqRxEmpty, AfterRx, hwVars, rxVars, txVars
<1>4. CASE IrqRxFull
  <2>1. rx_in # rx_out
    <3>1. rx_in \in 0..BufLen - 1 /\ rx_in + 1 \in 0..BufLen
      BY RxNumbers, BufAssumption
    <3>2. (rx_in + 1) % BufLen = IF rx_in + 1 = BufLen THEN 0 ELSE rx_in + 1
      BY <3>1, Wrap
    <3>3. (rx_in + 1) % BufLen = rx_out
      BY <1>4 DEF IrqRxFull, RxFull
    <3>4. QED
      BY <3>1, <3>2, <3>3, BufAssumption
  <2>2. QED
    BY <1>4, <2>1 DEF Enables, IrqRxFull, AfterRx, SetEnable, rxVars, txVars
<1>5. CASE IrqTxChar
  BY <1>5 DEF Enables, IrqTxChar, rxVars
<1>6. CASE IrqTxEnd
  <2>1. space > 0 => tx_in = tx_out
    BY <1>6 DEF IrqTxEnd
  <2>2. QED
    BY <1>6, <2>1 DEF Enables, IrqTxEnd, SetEnable, rxVars, txVars
<1>7. QED
  BY <1>1, <1>2, <1>3, <1>4, <1>5, <1>6

LEMMA EnablesStep == ASSUME Typed, RxRing, Enables, Next PROVE Enables'
<1>1. CASE Host
  BY <1>1, EnablesQuiet
     DEF Host, HostTake, HostSend, HostChange, rxVars, txVars, isrVars, callVars
<1>2. CASE Irq
  BY <1>2, EnablesIrq
<1>3. CASE Timeout
  BY <1>3 DEF Enables, Timeout, rxVars, txVars, isrVars, callVars
<1>4. ASSUME isr = "off", UNCHANGED <<isrVars, clock>>, Calling
      PROVE  Enables'
  <2>1. CASE Ioctl
    BY <1>4, <2>1, EnablesQuiet DEF Ioctl, Locals, rxVars, txVars, isrVars
  <2>2. CASE WriteCall \/ ReadCall \/ CloseCall
    BY <1>4, <2>2 DEF Enables, WriteCall, ReadCall, CloseCall, Begin, Only, rxVars, txVars, isrVars
  <2>3. QED
    BY <1>4, <2>1, <2>2 DEF Calling
<1>5. CASE GoOn
  <2> USE DEF GoOn, isrVars
  <2>1. CASE WriteLook
    BY <1>5, <2>1 DEF Enables, WriteLook, Only, Goto, rxVars
  <2>2. CASE WriteAll \/ WriteSpin \/ WriteHost \/ CloseSpin
    BY <1>5, <2>2 DEF Enables, WriteAll, WriteSpin, WriteHost, CloseSpin, Only, Goto, Return, WriteReturn,
                      rxVars, txVars
  <2>3. CASE WritePublish
    BY <1>5, <2>3 DEF Enables, WritePublish, Only, Goto, rxVars
  <2>4. CASE WriteKick
    BY <1>5, <2>4 DEF Enables, WriteKick, LoadEnable, DisableAll, Only, Goto, rxVars, txVars
  <2>5. CASE WriteStore
    BY <1>5, <2>5 DEF Enables, WriteStore, StoreEnable, SetEnable, Only, Goto, Return, WriteReturn,
                      rxVars, txVars
  <2>6. CASE ReadLook
    <3>1. rx_in = rx_out => n' = 0
      <4>1. count \in Nat /\ rx_in - rx_in = 0
        BY RxNumbers, BoundAssumption DEF Typed, CallTyped
      <4>2. QED
        BY <2>6, <4>1, RxNumbers DEF ReadLook, FilledFrom, LeastOf
    <3>2. QED
      BY <1>5, <2>6, <3>1 DEF Enables, ReadLook, Only, Goto, rxVars, txVars
  <2>7. CASE ReadAll
    BY <1>5, <2>7 DEF Enables, ReadAll, Only, Goto, rxVars, txVars
  <2>8. CASE ReadPublish
    <3>1. done' > 0
      BY <2>8, BoundAssumption DEF ReadPublish, Typed, CallTyped
    <3>2. QED
      BY <1>5, <2>8, <3>1 DEF Enables, ReadPublish, Only, Goto, txVars
  <2>9. CASE ReadSpin
    BY <1>5, <2>9 DEF Enables, ReadSpin, Only, Goto, rxVars, txVars
  <2>10. CASE ReadEnd
    <3>1. UNCHANGED <<rx_in, rx_out, tx_in, tx_out, isr>>
      BY <1>5, <2>10 DEF ReadEnd, Only, rxVars, txVars
    <3>2. CASE done > 0
      <4>1. pc' = "r_store" /\ pie' = FALSE /\ tmp' = irq_enable \cup {"RE"}
            /\ irq_enable' = irq_enable /\ hwEnable' = hwEnable
        BY <2>10, <3>2 DEF ReadEnd, LoadEnable, DisableAll, Goto
      <4>2. QED
        BY <1>5, <2>10, <3>1, <4>1 DEF Enables, ReadEnd
    <3>3. CASE ~(done > 0)
      BY <1>5, <2>10, <3>1, <3>3 DEF Enables, ReadEnd, Return, ReadReturn
    <3>4. QED
      BY <3>2, <3>3
  <2>11. CASE ReadStore
    BY <1>5, <2>11 DEF Enables, ReadStore, StoreEnable, SetEnable, Only, Return, ReadReturn, rxVars, txVars
  <2>12. QED
    BY <1>5, <2>1, <2>2, <2>3, <2>4, <2>5, <2>6, <2>7, <2>8, <2>9, <2>10, <2>11 DEF Going
<1>6. QED
  BY <1>1, <1>2, <1>3, <1>4, <1>5 DEF Next, Thread

-----------------------------------------------------------------------------
LEMMA StepInv == ASSUME IInv, [Next]_vars PROVE IInv'
<1> USE DEF IInv
<1>1. CASE Next
  <2>1. Typed'
    BY <1>1, TypedHost, TypedIrq, TypedCalling, TypedGoing DEF Next, Thread, GoOn
  <2>2. QED
    BY <1>1, <2>1, TxStep, RxStep, EnablesStep
<1>2. CASE UNCHANGED vars
  <2>1. Typed'
    BY <1>2 DEF vars, hwVars, rxVars, txVars, idleVars, isrVars, callVars,
                Typed, HwTyped, RxTyped, TxTyped, IdleTyped, IsrTyped, CallTyped
  <2>2. TxRing' /\ RxRing'
    BY <1>2, TxQuiet, RxQuiet DEF vars, hwVars, rxVars, txVars, callVars
  <2>3. Enables'
    BY <1>2, EnablesQuiet DEF vars, hwVars, rxVars, txVars, isrVars, callVars
  <2>4. QED
    BY <2>1, <2>2, <2>3
<1>3. QED
  BY <1>1, <1>2

LEMMA InvImplies == IInv => TypeOK /\ TxInOrder /\ RxInOrder /\ NoLostWakeup
<1> SUFFICES ASSUME IInv PROVE TypeOK /\ TxInOrder /\ RxInOrder /\ NoLostWakeup
  OBVIOUS
<1>1. TypeOK
  BY DEF IInv, Typed, HwTyped, RxTyped, TxTyped, IdleTyped, IsrTyped, CallTyped, TypeOK, Bits
<1>2. TxInOrder
  BY DEF IInv, TxRing, TxInOrder
<1>3. RxInOrder
  <2>1. ASSUME pc # "r_publish" PROVE \A i \in 1..Len(got) : got[i] = given - Len(got) + i - 1
    BY <2>1, RxNumbers DEF IInv, RxRing
  <2>2. QED
    BY <2>1 DEF IInv, RxRing, RxInOrder
<1>4. NoLostWakeup
  BY DEF IInv, Enables, NoLostWakeup
<1>5. QED
  BY <1>1, <1>2, <1>3, <1>4

(* Every variable keeps its type: the rings are indexed within their length,
   the routine never puts more in the transmit FIFO than it holds, and the
   idle counter stays below INT_MAX - 1. *)
THEOREM TypeCorrect == Spec => []TypeOK
BY InitInv, StepInv, InvImplies, PTL DEF Spec

(* Characters written reach the host in order, none lost, repeated or
   overwritten, however write and the interrupt routine interleave. *)
THEOREM TransmitInOrder == Spec => []TxInOrder
BY InitInv, StepInv, InvImplies, PTL DEF Spec

(* Characters the host sends reach the reader in order, none lost while the
   ring is full. *)
THEOREM ReceiveInOrder == Spec => []RxInOrder
BY InitInv, StepInv, InvImplies, PTL DEF Spec

(* The enables in the UART are those the driver holds, and while there is
   something to move the interrupt that moves it is on, or the call that
   turns it on is under way. *)
THEOREM WakeupKept == Spec => []NoLostWakeup
BY InitInv, StepInv, InvImplies, PTL DEF Spec
=============================================================================
