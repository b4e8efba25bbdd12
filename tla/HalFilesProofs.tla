--------------------------- MODULE HalFilesProofs ---------------------------
(***************************************************************************)
(* For tables of every size and any number of files and host handles: a    *)
(* program of any file calls keeps the descriptors the table holds for it, *)
(* each on the file it opened, and a device has one exclusive holder.      *)
(***************************************************************************)
EXTENDS LoadImage, WellFoundedInduction, TLAPS

Names == File \union {"null", "uart", Nowhere}
OpenFlags == SUBSET {"WRONLY", "RDWR", "NONBLOCK", "APPEND"}
Stages == {"sys_init", "stdout", "stdin", "stderr", "main", "exit"}
Running == stage \in {"main", "exit"}

\* The type of every variable; host files have handles of their own.
Typed ==
  /\ TypeOK
  /\ reg \in SUBSET Dev /\ stage \in Stages
  /\ DOMAIN held \subseteq Fd /\ held = [c \in DOMAIN held |-> held[c]]
  /\ \A c \in DOMAIN held :
       held[c] \in [file : File \union {"null", "uart"}, access : SUBSET Access, pos : Nat]
  /\ host \in [Handle -> [file : File \union {NoFile}, pos : Nat]]
HostFiles ==
  /\ \A c \in Fd : fds[c].dev = "host" => fds[c].flags \intersect FlagsMask = {}
  /\ \A c \in Fd : fds[c].dev = "host" => host[fds[c].priv].file \in File
  /\ \A c, e \in Fd : fds[c].dev = "host" /\ fds[e].dev = "host" /\ c # e
                        => fds[c].priv # fds[e].priv

\* While alt_main sets up the standard descriptors there are no others.
Boot ==
  /\ \A c \in Std : fds[c].dev \in {"null", "uart"}
  /\ stage # "sys_init" => "uart" \in reg
  /\ ~Running => \A c \in Fd : /\ c \notin Std => fds[c].dev = NoDev
                               /\ "EXCL" \notin fds[c].flags
  /\ ~Running => DOMAIN held = CASE stage = "stdin" -> {1}
                                 [] stage = "stderr" -> {0, 1}
                                 [] OTHER -> {}
  /\ Running => max > 2 /\ Std \subseteq DOMAIN held
  /\ \A c \in Std \intersect DOMAIN held :
       /\ fds[c].dev = "uart" /\ held[c].file = "uart"
       /\ fds[c].flags \intersect Access = held[c].access

\* No descriptor below the holder of a lock is on its device; the lock keeps
\* later ones away, and the scan that granted it saw all below.
Locks ==
  \A c, e \in Fd : c < e /\ "EXCL" \in fds[e].flags => fds[c].dev # fds[e].dev

IInv == Typed /\ HostFiles /\ Boot /\ NoSlotLost /\ DescriptorRight /\ Locks

-----------------------------------------------------------------------------
(* What open does *)

\* alt_get_fd finds a vacant slot when there is one.
LEMMA SlotVacant ==
  ASSUME MaxFd \in Nat, Vacant # {} PROVE Slot \in Vacant
<1>1. IsWellFoundedOn(OpToRel(<, Nat), Nat) BY NatLessThanWellFounded
<1>2. Vacant \subseteq Nat BY DEF Vacant, Fd
<1>3. PICK x \in Vacant : \A y \in Vacant : ~ (<<y, x>> \in OpToRel(<, Nat))
  BY <1>1, <1>2, WFMin
<1>4. \A y \in Vacant : x <= y
  <2> TAKE y \in Vacant
  <2>1. x \in Nat /\ y \in Nat BY <1>2, <1>3
  <2>2. ~(y < x) BY <1>3, <2>1 DEF OpToRel
  <2> QED BY <2>1, <2>2
<1> QED BY <1>3, <1>4 DEF Slot

Entries == [Fd -> [dev : Dev \union {NoDev}, priv : Handle \union {0}, flags : SUBSET Flag]]

LEMMA SetPriv ==
  ASSUME NEW t \in Entries, NEW c \in Fd, NEW h
  PROVE  [t EXCEPT ![c].priv = h]
           = [t EXCEPT ![c] = [dev |-> t[c].dev, priv |-> h, flags |-> t[c].flags]]
<1> DEFINE u == [t EXCEPT ![c].priv = h]
           r == [dev |-> t[c].dev, priv |-> h, flags |-> t[c].flags]
<1>1. u = [e \in Fd |-> IF e = c THEN u[c] ELSE t[e]] BY DEF Entries
<1>2. u[c] = r BY DEF Entries
<1>3. [t EXCEPT ![c] = r] = [e \in Fd |-> IF e = c THEN r ELSE t[e]] BY DEF Entries
<1> QED BY <1>1, <1>2, <1>3

\* A device opened: its slot was vacant, and nobody held the device.
FreshDevice(o, name, flags) ==
  /\ name \in {"null", "uart"} /\ o.host = host
  /\ o.fds = [fds EXCEPT ![o.rc] = [dev |-> name, priv |-> fds[o.rc].priv,
                                    flags |-> flags \union {"DEV"}]]
  /\ \A e \in Fd : "EXCL" \in fds[e].flags => fds[e].dev # name

\* A host file opened, on a handle that was free.
FreshFile(o, name, flags) ==
  /\ name \in File
  /\ \E h \in Handle :
       /\ host[h] = Free
       /\ o.host = [host EXCEPT ![h] = [file |-> name, pos |-> 0]]
       /\ o.fds = [fds EXCEPT ![o.rc] = [dev |-> "host", priv |-> h, flags |-> flags]]

Fresh(o) == o.rc \in Fd \ Std /\ fds[o.rc].dev = NoDev /\ o.rc <= o.max

LEMMA OpenedCases ==
  ASSUME IInv, NEW name \in Names, NEW flags \in OpenFlags, NEW o \in Opened(name, flags)
  PROVE  /\ o.max \in -1..(MaxFd - 1) /\ max <= o.max
         /\ \/ o.rc = -1 /\ o.fds = fds /\ o.host = host
            \/ Fresh(o) /\ (FreshDevice(o, name, flags) \/ FreshFile(o, name, flags))
<1> USE FdAssumption, NameAssumption
<1> DEFINE d == Found(name)
           t == Taken(d, flags)
<1>1. MaxFd \in Nat /\ MaxFd > 3 OBVIOUS
<1>2. max \in -1..(MaxFd - 1) BY DEF IInv, Typed, TypeOK
<1>3. /\ d \in Dev \union {NoDev}
      /\ d # NoDev => \/ d = "host" /\ name \in File
                      \/ d = name /\ name \in {"null", "uart"}
  BY DEF IInv, Typed, Names, Found, FindDev, FindFile, Dev
<1>4. CASE d = NoDev \/ Vacant = {}
  BY <1>2, <1>4 DEF Opened, HostfsOpen
<1>5. CASE d # NoDev /\ Vacant # {}
  <2>1. Slot \in Vacant BY <1>1, <1>5, SlotVacant
  <2>2. /\ Slot \in Fd \ Std /\ fds[Slot].dev = NoDev
        /\ Slot \in Nat /\ Slot <= MaxFd - 1 /\ Slot > 2
    BY <2>1 DEF Vacant, IInv, Boot, Fd, Std
  <2>3. Raised \in -1..(MaxFd - 1) /\ max <= Raised /\ Slot <= Raised /\ Raised \in Nat
    BY <1>2, <2>2 DEF Raised
  <2>4. PICK p : fds[Slot] = [dev |-> NoDev, priv |-> p, flags |-> {}]
    BY <2>2 DEF IInv, Typed, TypeOK
  <2>5. flags \ FlagsMask = flags BY DEF OpenFlags, FlagsMask
  <2> DEFINE g == flags \union (IF d = "host" THEN {} ELSE {"DEV"})
  <2>6. t = [fds EXCEPT ![Slot] = [dev |-> d, priv |-> fds[Slot].priv, flags |-> g]]
    BY <2>5 DEF Taken
  <2>7. AltReleaseFd(t, Slot) = fds
    <3>1. fds \in Entries BY DEF IInv, Typed, TypeOK, Entries
    <3>2. AltReleaseFd(t, Slot) = [fds EXCEPT ![Slot] = [dev |-> NoDev, priv |-> fds[Slot].priv, flags |-> {}]]
      <4>1. AltReleaseFd(t, Slot) = [t EXCEPT ![Slot] = Vacated(t[Slot])] BY <2>2 DEF AltReleaseFd
      <4>2. Vacated(t[Slot]) = [dev |-> NoDev, priv |-> fds[Slot].priv, flags |-> {}]
        BY <2>2, <2>6, <3>1 DEF Vacated, Entries
      <4> HIDE DEF t
      <4> QED BY <2>2, <2>6, <3>1, <4>1, <4>2 DEF Entries
    <3> QED BY <2>2, <2>4, <3>1, <3>2 DEF Entries
  <2> HIDE DEF t
  <2>8. CASE d = "host"
    <3>1. \/ o = [fds |-> AltReleaseFd(t, Slot), max |-> Raised, host |-> host, rc |-> -1]
          \/ \E h \in Handle : /\ host[h] = Free
                               /\ o = [fds |-> [t EXCEPT ![Slot].priv = h], max |-> Raised,
                                       host |-> [host EXCEPT ![h] = [file |-> name, pos |-> 0]],
                                       rc |-> Slot]
      BY <1>5, <2>8 DEF Opened, HostfsOpen, t
    <3>2. CASE o = [fds |-> AltReleaseFd(t, Slot), max |-> Raised, host |-> host, rc |-> -1]
      BY <2>3, <2>7, <3>2
    <3>3. ASSUME NEW h \in Handle, host[h] = Free,
                 o = [fds |-> [t EXCEPT ![Slot].priv = h], max |-> Raised,
                      host |-> [host EXCEPT ![h] = [file |-> name, pos |-> 0]], rc |-> Slot]
          PROVE  Fresh(o) /\ FreshFile(o, name, flags) /\ o.max = Raised
      <4>1. name \in File BY <1>3, <2>8, <1>5
      <4>2. [t EXCEPT ![Slot].priv = h] = [fds EXCEPT ![Slot] = [dev |-> "host", priv |-> h, flags |-> flags]]
        <5>1. fds \in Entries BY DEF IInv, Typed, TypeOK, Entries
        <5>2. t \in Entries
          BY <2>2, <2>6, <2>8, <5>1 DEF Entries, Dev, Flag, OpenFlags
        <5>3. [t EXCEPT ![Slot].priv = h]
                = [t EXCEPT ![Slot] = [dev |-> t[Slot].dev, priv |-> h, flags |-> t[Slot].flags]]
          BY <5>2, <2>2, SetPriv
        <5>4. t[Slot].dev = "host" /\ t[Slot].flags = flags
          BY <2>2, <2>6, <2>8, <5>1 DEF Entries
        <5> QED BY <2>2, <2>6, <5>1, <5>3, <5>4 DEF Entries
      <4> QED BY <2>2, <2>3, <3>3, <4>1, <4>2 DEF Fresh, FreshFile
    <3> QED BY <2>3, <3>1, <3>2, <3>3
  <2>9. CASE d # "host" /\ AltFileLocked(t, Raised, Slot)
    <3>1. o = [fds |-> AltReleaseFd(t, Slot), max |-> Raised, host |-> host, rc |-> -1]
      BY <1>5, <2>9 DEF Opened, HostfsOpen, t
    <3> QED BY <2>3, <2>7, <3>1
  <2>10. CASE d # "host" /\ ~AltFileLocked(t, Raised, Slot)
    <3>1. o = [fds |-> t, max |-> Raised, host |-> host, rc |-> Slot]
      BY <1>5, <2>10 DEF Opened, HostfsOpen, t
    <3>2. d = name /\ name \in {"null", "uart"} BY <1>3, <1>5, <2>10
    <3>3. ASSUME NEW e \in Fd, "EXCL" \in fds[e].flags, fds[e].dev = name PROVE FALSE
      <4>1. e # Slot BY <2>4, <3>3
      <4>2. e \in 0..Raised
        <5>1. e <= max
          <6>1. fds[e].dev # NoDev BY <3>2, <3>3
          <6>2. CASE e \in Std
            <7>1. Running BY <3>3 DEF IInv, Boot
            <7> QED BY <6>2, <7>1, <1>2 DEF IInv, Boot, Std
          <6>3. CASE e \notin Std BY <6>1, <6>3, <1>2 DEF IInv, Typed, TypeOK, Fd
          <6> QED BY <6>2, <6>3
        <5> QED BY <5>1, <2>3, <1>2 DEF Fd
      <4>3. fds \in [Fd -> [dev : Dev \union {NoDev}, priv : Handle \union {0}, flags : SUBSET Flag]]
        BY DEF IInv, Typed, TypeOK
      <4>4. t[e] = fds[e] /\ t[Slot].dev = d BY <2>2, <2>6, <4>1, <4>3
      <4> QED BY <2>10, <3>2, <3>3, <4>1, <4>2, <4>4 DEF AltFileLocked, LockedScan
    <3>4. o.fds = [fds EXCEPT ![o.rc] = [dev |-> name, priv |-> fds[o.rc].priv, flags |-> flags \union {"DEV"}]]
      BY <2>6, <2>10, <3>1, <3>2
    <3> QED BY <2>2, <2>3, <3>1, <3>2, <3>3, <3>4 DEF Fresh, FreshDevice
  <2> QED BY <2>8, <2>9, <2>10
<1> QED BY <1>4, <1>5

-----------------------------------------------------------------------------
(* The actions keep the invariant *)

LEMMA InitInv == Init => IInv
<1> SUFFICES ASSUME Init PROVE IInv OBVIOUS
<1> USE FdAssumption, NameAssumption DEF Init
<1>1. TypeOK BY DEF TypeOK, Fd, Std, Dev, Flag
<1>2. Typed
  <2>1. host \in [Handle -> [file : File \union {NoFile}, pos : Nat]] BY DEF Free
  <2>2. DOMAIN held = {} OBVIOUS
  <2> QED BY <1>1, <2>1, <2>2 DEF Typed, Dev, Stages
<1>3. HostFiles BY DEF HostFiles, Fd, Std
<1>4. Boot BY DEF Boot, Fd, Std, Running
<1>5. NoSlotLost /\ DescriptorRight /\ Locks BY DEF NoSlotLost, DescriptorRight, Locks
<1> QED BY <1>2, <1>3, <1>4, <1>5 DEF IInv

\* Opening: the new entry is the program's, no lock or handle is touched.
LEMMA OpenInv ==
  ASSUME IInv, stage = "main", NEW name \in Names, NEW flags \in OpenFlags, AltOpen(name, flags)
  PROVE  IInv'
<1> USE FdAssumption, NameAssumption
<1>1. PICK o \in Opened(name, flags) :
        /\ fds' = o.fds /\ max' = o.max /\ host' = o.host
        /\ IF o.rc >= 0 THEN Note(o.rc, name, flags) ELSE UNCHANGED held
        /\ UNCHANGED <<reg, stage>>
  BY DEF AltOpen
<1>2. /\ max' \in -1..(MaxFd - 1) /\ max <= max' /\ max \in -1..(MaxFd - 1)
      /\ \/ o.rc = -1 /\ o.fds = fds /\ o.host = host
         \/ Fresh(o) /\ (FreshDevice(o, name, flags) \/ FreshFile(o, name, flags))
  <2>1. /\ o.max \in -1..(MaxFd - 1) /\ max <= o.max
        /\ \/ o.rc = -1 /\ o.fds = fds /\ o.host = host
           \/ Fresh(o) /\ (FreshDevice(o, name, flags) \/ FreshFile(o, name, flags))
    BY OpenedCases
  <2> QED BY <1>1, <2>1 DEF IInv, Typed, TypeOK
<1>3. fds \in Entries BY DEF IInv, Typed, TypeOK, Entries
<1> DEFINE m == o.max
<1>6. m \in -1..(MaxFd - 1) /\ max <= m /\ max \in -1..(MaxFd - 1) /\ max' = m BY <1>1, <1>2
<1> HIDE DEF m
<1>4. CASE o.rc = -1 /\ o.fds = fds /\ o.host = host
  <2>1. UNCHANGED <<fds, reg, stage, held, host>> BY <1>1, <1>4
  <2>2. TypeOK' BY <1>2, <2>1 DEF TypeOK, IInv, Typed, Fd
  <2>3. Typed' /\ HostFiles' /\ NoSlotLost' /\ DescriptorRight' /\ Locks'
    BY <2>1, <2>2 DEF IInv, Typed, HostFiles, NoSlotLost, DescriptorRight, Locks
  <2>4. Boot' BY <1>2, <2>1 DEF IInv, Boot, Running
  <2> QED BY <2>3, <2>4 DEF IInv
<1>5. CASE Fresh(o) /\ (FreshDevice(o, name, flags) \/ FreshFile(o, name, flags))
  <2> DEFINE c == o.rc
  <2>1. /\ c \in Fd /\ c \notin Std /\ c > 2 /\ fds[c].dev = NoDev /\ c <= m
        /\ c \notin DOMAIN held
    <3>1. c \in Fd \ Std /\ fds[c].dev = NoDev /\ c <= m BY <1>5 DEF Fresh, m
    <3> QED BY <3>1 DEF Fd, Std, IInv, NoSlotLost
  <2>2. /\ DOMAIN held' = DOMAIN held \union {c}
        /\ held' = [e \in DOMAIN held' |-> held'[e]]
        /\ held'[c] = [file |-> name, access |-> flags \intersect Access, pos |-> 0]
        /\ \A e \in DOMAIN held : held'[e] = held[e]
    <3>1. c >= 0 BY <2>1 DEF Fd
    <3>2. Note(c, name, flags) BY <1>1, <3>1
    <3> QED BY <2>1, <3>2 DEF Note
  <2>3. Std \subseteq DOMAIN held /\ Running /\ Running' /\ stage' = "main" /\ reg' = reg
    BY <1>1 DEF IInv, Boot, Running
  <2> HIDE DEF c
  <2>4. CASE FreshDevice(o, name, flags)
    <3>1. /\ name \in {"null", "uart"} /\ host' = host
          /\ \A e \in Fd : "EXCL" \in fds[e].flags => fds[e].dev # name
      BY <1>1, <2>4 DEF FreshDevice
    <3>2. fds' = [fds EXCEPT ![c] = [dev |-> name, priv |-> fds[c].priv, flags |-> flags \union {"DEV"}]]
      BY <1>1, <2>4 DEF FreshDevice, c
    <3>3. /\ fds' \in Entries
          /\ fds'[c].dev = name /\ fds'[c].flags = flags \union {"DEV"}
          /\ \A e \in Fd : e # c => fds'[e] = fds[e]
      BY <1>3, <2>1, <3>1, <3>2 DEF Entries, OpenFlags, Flag, Dev
    <3>4. TypeOK'
      <4>1. ASSUME NEW e \in Fd, e > m, e \notin Std PROVE fds'[e].dev = NoDev
        <5>1. e # c /\ e > max BY <1>6, <2>1, <4>1 DEF Fd
        <5> QED BY <3>3, <4>1, <5>1 DEF IInv, Typed, TypeOK
      <4>2. \A e \in Fd : fds'[e].dev = NoDev => fds'[e].flags = {}
        BY <3>1, <3>3 DEF IInv, Typed, TypeOK
      <4>3. \A e \in Fd : fds'[e].dev = "host" => fds'[e].priv \in Handle
        BY <3>1, <3>3 DEF IInv, Typed, TypeOK
      <4> QED BY <1>6, <3>3, <4>1, <4>2, <4>3 DEF TypeOK, Entries
    <3>5. Typed' BY <1>1, <2>1, <2>2, <3>1, <3>4 DEF IInv, Typed
    <3>6. HostFiles' BY <3>1, <3>3 DEF IInv, HostFiles
    <3>7. Boot' BY <1>2, <2>1, <2>2, <2>3, <3>3 DEF IInv, Boot, Running, Std, Fd
    <3>8. NoSlotLost' BY <2>1, <2>2, <2>3, <3>1, <3>3 DEF IInv, NoSlotLost, Running
    <3>9. DescriptorRight'
      <4>1. fds'[c].flags \intersect Access = held'[c].access BY <2>2, <3>3 DEF Access
      <4> QED BY <2>1, <2>2, <2>3, <3>1, <3>3, <4>1 DEF IInv, DescriptorRight, Running, Typed
    <3>10. Locks'
      <4>1. "EXCL" \notin fds'[c].flags BY <3>3 DEF OpenFlags
      <4> QED BY <3>1, <3>3, <4>1 DEF IInv, Locks
    <3> QED BY <3>5, <3>6, <3>7, <3>8, <3>9, <3>10 DEF IInv
  <2>5. CASE FreshFile(o, name, flags)
    <3>1. PICK h \in Handle :
            /\ host[h] = Free
            /\ host' = [host EXCEPT ![h] = [file |-> name, pos |-> 0]]
            /\ fds' = [fds EXCEPT ![c] = [dev |-> "host", priv |-> h, flags |-> flags]]
      BY <1>1, <2>5 DEF FreshFile, c
    <3>2. name \in File BY <2>5 DEF FreshFile
    <3>3. /\ fds' \in Entries
          /\ fds'[c].dev = "host" /\ fds'[c].flags = flags /\ fds'[c].priv = h
          /\ \A e \in Fd : e # c => fds'[e] = fds[e]
      BY <1>3, <2>1, <3>1 DEF Entries, OpenFlags, Flag, Dev
    <3>4. /\ host' \in [Handle -> [file : File \union {NoFile}, pos : Nat]]
          /\ host'[h] = [file |-> name, pos |-> 0]
          /\ \A g \in Handle : g # h => host'[g] = host[g]
      BY <3>1, <3>2 DEF IInv, Typed
    <3>5. \A e \in Fd : fds[e].dev = "host" => fds[e].priv \in Handle /\ fds[e].priv # h
      BY <3>1 DEF IInv, HostFiles, Typed, TypeOK, Free
    <3>6. TypeOK'
      <4>1. ASSUME NEW e \in Fd, e > m, e \notin Std PROVE fds'[e].dev = NoDev
        <5>1. e # c /\ e > max BY <1>6, <2>1, <4>1 DEF Fd
        <5> QED BY <3>3, <4>1, <5>1 DEF IInv, Typed, TypeOK
      <4>2. \A e \in Fd : fds'[e].dev = NoDev => fds'[e].flags = {}
        BY <3>3 DEF IInv, Typed, TypeOK
      <4>3. \A e \in Fd : fds'[e].dev = "host" => fds'[e].priv \in Handle
        BY <3>3 DEF IInv, Typed, TypeOK
      <4> QED BY <1>6, <3>3, <4>1, <4>2, <4>3 DEF TypeOK, Entries
    <3>7. Typed' BY <1>1, <2>1, <2>2, <3>2, <3>4, <3>6 DEF IInv, Typed
    <3>8. HostFiles'
      <4>1. flags \intersect FlagsMask = {} BY DEF OpenFlags, FlagsMask
      <4> QED BY <3>2, <3>3, <3>4, <3>5, <4>1 DEF IInv, HostFiles
    <3>9. Boot' BY <1>2, <2>1, <2>2, <2>3, <3>3 DEF IInv, Boot, Running, Std, Fd
    <3>10. NoSlotLost' BY <2>1, <2>2, <2>3, <3>3 DEF IInv, NoSlotLost, Running
    <3>11. DescriptorRight'
      BY <2>1, <2>2, <2>3, <3>3, <3>4, <3>5 DEF IInv, DescriptorRight, Running, Typed
    <3>12. Locks'
      <4>1. "EXCL" \notin fds'[c].flags BY <3>3 DEF OpenFlags
      <4>2. \A e \in Fd : "EXCL" \in fds[e].flags => fds[e].dev # "host"
        BY DEF IInv, HostFiles, FlagsMask
      <4> QED BY <3>3, <4>1, <4>2 DEF IInv, Locks
    <3> QED BY <3>7, <3>8, <3>9, <3>10, <3>11, <3>12 DEF IInv
  <2> QED BY <1>5, <2>4, <2>5
<1> QED BY <1>2, <1>4, <1>5

LEMMA SysInitInv == ASSUME IInv, SysInit PROVE IInv'
<1> USE DEF SysInit, table
<1>1. Typed' BY DEF IInv, Typed, TypeOK, Dev, Stages
<1>2. HostFiles' /\ Locks' BY DEF IInv, HostFiles, Locks
<1>3. Boot' BY DEF IInv, Boot, Running, Stages
<1>4. NoSlotLost' /\ DescriptorRight' BY DEF IInv, NoSlotLost, DescriptorRight
<1> QED BY <1>1, <1>2, <1>3, <1>4 DEF IInv

\* The redirection of alt_main always finds a slot, and nobody on the console.
LEMMA ConsoleOpens ==
  ASSUME IInv, ~Running, stage # "sys_init", NEW flags \in OpenFlags, NEW o \in Opened("uart", flags)
  PROVE  Fresh(o) /\ FreshDevice(o, "uart", flags) /\ o.max \in -1..(MaxFd - 1)
<1> USE FdAssumption, NameAssumption
<1>1. Found("uart") = "uart" BY DEF IInv, Boot, Found, FindDev, FindFile
<1>2. 3 \in Vacant BY DEF IInv, Boot, Vacant, Fd, Std
<1>3. Slot \in Vacant BY <1>2, SlotVacant
<1>4. Slot \in Fd /\ Slot # -1 BY <1>3 DEF Vacant, Fd
<1>5. Raised \in -1..(MaxFd - 1) BY <1>4 DEF Raised, IInv, Typed, TypeOK, Fd
<1> DEFINE t == Taken("uart", flags)
<1>6. \A e \in 0..Raised : e # Slot => t[e] = fds[e] /\ e \in Fd
  BY <1>4, <1>5 DEF Taken, IInv, Typed, TypeOK, Fd
<1>7. ~AltFileLocked(t, Raised, Slot)
  BY <1>6 DEF AltFileLocked, LockedScan, IInv, Boot
<1>8. o.rc = Slot BY <1>1, <1>2, <1>7 DEF Opened, HostfsOpen
<1>9. "uart" \in Names /\ "uart" \notin File BY DEF Names
<1>10. ~FreshFile(o, "uart", flags) BY <1>9 DEF FreshFile
<1> QED BY <1>4, <1>8, <1>9, <1>10, OpenedCases

LEMMA RedirectInv ==
  ASSUME IInv, NEW k \in Std, NEW flags \in OpenFlags, NEW next \in Stages, AltOpenFd(k, flags, next),
         \/ stage = "stdout" /\ k = 1 /\ next = "stdin"
         \/ stage = "stdin" /\ k = 0 /\ next = "stderr"
         \/ stage = "stderr" /\ k = 2 /\ next = "main"
  PROVE  IInv'
<1> USE FdAssumption, NameAssumption
<1>1. ~Running /\ stage # "sys_init" BY DEF Running
<1>2. PICK o \in Opened("uart", flags) :
        /\ fds' = IF o.rc >= 0 THEN AltReleaseFd([o.fds EXCEPT ![k] = o.fds[o.rc]], o.rc) ELSE o.fds
        /\ max' = o.max /\ host' = o.host
  BY DEF AltOpenFd
<1>3. Fresh(o) /\ FreshDevice(o, "uart", flags) /\ o.max \in -1..(MaxFd - 1) BY <1>1, ConsoleOpens
<1> DEFINE c == o.rc
           m == o.max
<1>4. c \in Fd /\ c \notin Std /\ c > 2 /\ c >= 0 /\ c <= m /\ k \in Fd /\ c # k /\ fds[c].dev = NoDev
  BY <1>3 DEF Fresh, Fd, Std
<1>5. m \in -1..(MaxFd - 1) /\ m > 2 BY <1>3, <1>4 DEF Fd
<1>6. fds \in Entries BY DEF IInv, Typed, TypeOK, Entries
<1>7. /\ o.fds = [fds EXCEPT ![c] = [dev |-> "uart", priv |-> fds[c].priv, flags |-> flags \union {"DEV"}]]
      /\ host' = host
  BY <1>2, <1>3 DEF FreshDevice
<1>8. /\ o.fds \in Entries /\ o.fds[c].dev = "uart" /\ o.fds[c].flags = flags \union {"DEV"}
      /\ \A e \in Fd : e # c => o.fds[e] = fds[e]
  BY <1>4, <1>6, <1>7 DEF Entries, Dev, Flag, OpenFlags
<1> DEFINE u == [o.fds EXCEPT ![k] = o.fds[c]]
<1>9. fds' = [u EXCEPT ![c] = Vacated(u[c])] BY <1>2, <1>4 DEF AltReleaseFd
<1>10. u \in Entries /\ u[k] = o.fds[c] /\ \A e \in Fd : e # k => u[e] = o.fds[e]
  BY <1>4, <1>8 DEF Entries
<1> HIDE DEF u, c
<1>11. Vacated(u[c]) \in [dev : Dev \union {NoDev}, priv : Handle \union {0}, flags : SUBSET Flag]
  BY <1>4, <1>10 DEF Vacated, Entries
<1>12. /\ fds' \in Entries
       /\ fds'[k].dev = "uart" /\ fds'[k].flags = flags \union {"DEV"}
       /\ fds'[c].dev = NoDev /\ fds'[c].flags = {}
       /\ \A e \in Fd : e # c /\ e # k => fds'[e] = fds[e]
  BY <1>4, <1>8, <1>9, <1>10, <1>11 DEF Entries, Vacated
<1>13. /\ DOMAIN held' = DOMAIN held \union {k}
       /\ held' = [e \in DOMAIN held' |-> held'[e]]
       /\ held'[k] = [file |-> "uart", access |-> flags \intersect Access, pos |-> 0]
       /\ \A e \in DOMAIN held : e # k => held'[e] = held[e]
  BY DEF AltOpenFd, Note
<1>14. stage' = next /\ reg' = reg /\ max' = m BY <1>2 DEF AltOpenFd
<1> HIDE DEF m
<1>15. \A e \in Fd : e \notin Std => fds[e].dev = NoDev BY <1>1 DEF IInv, Boot
<1>16. \A e \in Fd : "EXCL" \notin fds[e].flags BY <1>1 DEF IInv, Boot
<1>17. \A e \in Fd : "EXCL" \notin fds'[e].flags BY <1>12, <1>16 DEF OpenFlags
<1>18. \A e \in Fd : e \notin Std => fds'[e].dev = NoDev BY <1>4, <1>12, <1>15
<1>19. \A e \in Std : fds[e].dev \in {"null", "uart"} /\ e \in Fd BY DEF IInv, Boot, Fd, Std
<1>20. \A e \in Std : fds'[e].dev \in {"null", "uart"} BY <1>4, <1>12, <1>19
<1>21. TypeOK'
  <2>1. \A e \in Fd : fds'[e].dev = NoDev => fds'[e].flags = {}
    BY <1>4, <1>12 DEF IInv, Typed, TypeOK
  <2>2. \A e \in Fd : fds'[e].dev # "host"
    BY <1>18, <1>20
  <2> QED BY <1>5, <1>12, <1>14, <1>18, <2>1, <2>2 DEF TypeOK, Entries
<1>22. Typed'
  BY <1>4, <1>7, <1>13, <1>14, <1>21 DEF IInv, Typed
<1>23. HostFiles' /\ Locks'
  BY <1>17, <1>18, <1>20 DEF HostFiles, Locks
<1>24. /\ stage' # "main" => DOMAIN held' = CASE stage' = "stdin" -> {1} [] stage' = "stderr" -> {0, 1} [] OTHER -> {}
       /\ stage' = "main" => DOMAIN held' = Std
  BY <1>1, <1>13, <1>14 DEF IInv, Boot, Std
<1>25. \A e \in Std \intersect DOMAIN held' :
         /\ fds'[e].dev = "uart" /\ held'[e].file = "uart"
         /\ fds'[e].flags \intersect Access = held'[e].access
  <2>1. fds'[k].flags \intersect Access = held'[k].access BY <1>12, <1>13 DEF Access
  <2> QED BY <1>4, <1>12, <1>13, <1>19, <2>1 DEF IInv, Boot
<1>26. Boot'
  BY <1>5, <1>14, <1>17, <1>18, <1>20, <1>24, <1>25 DEF IInv, Boot, Running
<1>27. NoSlotLost' /\ DescriptorRight'
  BY <1>14, <1>18, <1>20, <1>24, <1>25 DEF NoSlotLost, DescriptorRight, Std, Fd
<1> QED BY <1>22, <1>23, <1>26, <1>27 DEF IInv

\* Closing a standard descriptor changes nothing in the table.
LEMMA CloseStd ==
  ASSUME IInv, NEW c \in Std, CloseFd(c)
  PROVE  UNCHANGED table
<1>1. fds' = fds BY DEF CloseFd, HostfsClose, AltReleaseFd, Std
<1>2. fds[c].dev # "host" BY DEF IInv, Boot
<1> QED BY <1>1, <1>2 DEF CloseFd, HostfsClose, table

LEMMA StutterInv ==
  ASSUME IInv, UNCHANGED <<table, reg, held>>, stage' = stage \/ (stage = "main" /\ stage' = "exit")
  PROVE  IInv'
<1>1. Running' <=> Running BY DEF Running
<1>2. stage' \in Stages BY DEF IInv, Typed, Stages
<1> USE DEF table
<1>3. Typed' BY <1>2 DEF IInv, Typed, TypeOK
<1>4. HostFiles' /\ Locks' BY DEF IInv, HostFiles, Locks
<1>5. Boot' BY <1>1 DEF IInv, Boot, Running
<1>6. NoSlotLost' /\ DescriptorRight' BY <1>1 DEF IInv, NoSlotLost, DescriptorRight, Running
<1> QED BY <1>3, <1>4, <1>5, <1>6 DEF IInv

\* Closing another: the slot is vacant, its handle is nobody else's.
LEMMA CloseInv ==
  ASSUME IInv, stage = "main", NEW c \in DOMAIN held, AltClose(c)
  PROVE  IInv'
<1> USE FdAssumption, NameAssumption
<1>1. CASE c \in Std
  <2>1. UNCHANGED table BY <1>1, CloseStd DEF AltClose
  <2>2. held' = held BY <1>1 DEF AltClose, Drop, IInv, Typed
  <2> QED BY <2>1, <2>2, StutterInv DEF AltClose
<1>2. CASE c \notin Std
  <2>1. c \in Fd /\ c > 2 BY <1>2 DEF IInv, Typed, Fd, Std
  <2>2. fds \in Entries BY DEF IInv, Typed, TypeOK, Entries
  <2>3. fds' = [fds EXCEPT ![c] = Vacated(fds[c])]
    BY <2>1 DEF AltClose, CloseFd, HostfsClose, AltReleaseFd
  <2>4. Vacated(fds[c]) \in [dev : Dev \union {NoDev}, priv : Handle \union {0}, flags : SUBSET Flag]
    BY <2>1, <2>2 DEF Vacated, Entries
  <2>5. /\ fds' \in Entries /\ fds'[c].dev = NoDev /\ fds'[c].flags = {}
        /\ \A e \in Fd : e # c => fds'[e] = fds[e]
    BY <2>1, <2>2, <2>3, <2>4 DEF Vacated, Entries
  <2>6. /\ DOMAIN held' = DOMAIN held \ {c}
        /\ held' = [e \in DOMAIN held' |-> held'[e]]
        /\ \A e \in DOMAIN held' : held'[e] = held[e]
    BY <1>2 DEF AltClose, Drop
  <2>7. UNCHANGED <<max, reg, stage>> BY DEF AltClose, CloseFd, HostfsClose
  <2>8. /\ host' \in [Handle -> [file : File \union {NoFile}, pos : Nat]]
        /\ \A e \in Fd : e # c /\ fds[e].dev = "host" => host'[fds[e].priv] = host[fds[e].priv]
    <3>1. CASE UNCHANGED host BY <3>1 DEF IInv, Typed
    <3>2. CASE fds[c].dev = "host" /\ host' = [host EXCEPT ![fds[c].priv] = Free]
      <4>1. \A e \in Fd : e # c /\ fds[e].dev = "host" => fds[e].priv # fds[c].priv /\ fds[e].priv \in Handle
        BY <2>1, <3>2 DEF IInv, HostFiles, Typed, TypeOK
      <4>2. Free \in [file : File \union {NoFile}, pos : Nat] BY DEF Free
      <4> QED BY <3>2, <4>1, <4>2 DEF IInv, Typed
    <3> QED BY <3>1, <3>2 DEF AltClose, CloseFd, HostfsClose
  <2>9. TypeOK'
    BY <2>1, <2>5, <2>7 DEF IInv, Typed, TypeOK, Entries
  <2>10. Typed' BY <2>6, <2>7, <2>8, <2>9 DEF IInv, Typed
  <2>11. HostFiles' BY <2>5, <2>8 DEF IInv, HostFiles
  <2>12. Boot' BY <1>2, <2>1, <2>5, <2>6, <2>7 DEF IInv, Boot, Running, Std, Fd
  <2>13. NoSlotLost' BY <2>1, <2>5, <2>6, <2>7 DEF IInv, NoSlotLost
  <2>14. DescriptorRight'
    BY <2>5, <2>6, <2>7, <2>8 DEF IInv, DescriptorRight, Typed
  <2>15. Locks'
    <3>1. \A e \in Fd : "EXCL" \in fds[e].flags => fds[e].dev # NoDev BY DEF IInv, Typed, TypeOK
    <3> QED BY <2>5, <3>1 DEF IInv, Locks
  <2> QED BY <2>10, <2>11, <2>12, <2>13, <2>14, <2>15 DEF IInv
<1> QED BY <1>1, <1>2

\* A call that changes flags of one descriptor other than its access mode;
\* locks stay as they are, go, or come where no lower descriptor is on the device.
LEMMA FlagsInv ==
  ASSUME IInv, stage = "main", NEW c \in DOMAIN held, NEW g \in SUBSET Flag,
         fds' = [fds EXCEPT ![c].flags = g], UNCHANGED <<max, host, reg, stage, held>>,
         fds[c].dev # NoDev, g \intersect Access = fds[c].flags \intersect Access,
         fds[c].dev = "host" => g \intersect FlagsMask = {},
         "EXCL" \in g => \A e \in Fd : e < c => fds[e].dev # fds[c].dev
  PROVE  IInv'
<1> USE FdAssumption, NameAssumption
<1>1. c \in Fd BY DEF IInv, Typed
<1>2. fds \in Entries BY DEF IInv, Typed, TypeOK, Entries
<1>3. /\ fds' \in Entries /\ fds'[c].dev = fds[c].dev /\ fds'[c].priv = fds[c].priv
      /\ fds'[c].flags = g
      /\ \A e \in Fd : e # c => fds'[e] = fds[e]
  BY <1>1, <1>2 DEF Entries
<1>4. \A e \in Fd : fds'[e].dev = fds[e].dev /\ fds'[e].priv = fds[e].priv
  BY <1>1, <1>3
<1>5. TypeOK' BY <1>3, <1>4 DEF IInv, Typed, TypeOK, Entries
<1>6. Typed' BY <1>5 DEF IInv, Typed
<1>7. HostFiles' BY <1>3, <1>4 DEF IInv, HostFiles
<1>8. \A e \in Fd : fds'[e].flags \intersect Access = fds[e].flags \intersect Access
  BY <1>3
<1>9. Boot'
  <2>1. Running /\ Running' BY DEF Running
  <2>2. Std \subseteq Fd BY DEF Std, Fd
  <2> QED BY <1>4, <1>8, <2>1, <2>2 DEF IInv, Boot
<1>10. NoSlotLost' BY <1>4 DEF IInv, NoSlotLost
<1>11. DescriptorRight' BY <1>4, <1>8 DEF IInv, DescriptorRight, Typed
<1>12. Locks' BY <1>1, <1>3, <1>4 DEF IInv, Locks
<1> QED BY <1>6, <1>7, <1>9, <1>10, <1>11, <1>12 DEF IInv

LEMMA LockInv ==
  ASSUME IInv, stage = "main", NEW c \in DOMAIN held,
         Exclusive(c) \/ AltFdUnlock(c) \/ \E flags \in Mode : AltFcntl(c, flags)
  PROVE  IInv'
<1> USE FdAssumption, NameAssumption
<1>1. c \in Fd BY DEF IInv, Typed
<1>2. fds[c].flags \in SUBSET Flag BY <1>1 DEF IInv, Typed, TypeOK
<1>3. fds[c].dev # NoDev BY <1>1 DEF IInv, NoSlotLost
<1>4. fds[c].dev = "host" => fds[c].flags \intersect FlagsMask = {} BY <1>1 DEF IInv, HostFiles
<1>5. "EXCL" \in fds[c].flags => \A e \in Fd : e < c => fds[e].dev # fds[c].dev
  BY <1>1 DEF IInv, Locks
<1>6. CASE Exclusive(c) /\ ~AltFdLock(c)
  BY <1>6, StutterInv DEF Exclusive, table
<1>7. CASE Exclusive(c) /\ AltFdLock(c)
  <2> DEFINE g == fds[c].flags \union {"EXCL"}
  <2>1. g \in SUBSET Flag /\ g \intersect Access = fds[c].flags \intersect Access
    BY <1>2 DEF Flag, Access
  <2>2. fds' = [fds EXCEPT ![c].flags = g] BY <1>7 DEF Exclusive
  <2>3. fds[c].dev # "host" BY <1>4, <1>7 DEF Exclusive, FlagsMask
  <2>4. c <= max
    <3>1. max > 2 /\ max \in -1..(MaxFd - 1) BY DEF IInv, Boot, Running, Typed, TypeOK
    <3>2. c \in Std => c < 3 BY DEF Std
    <3>3. c > max => c \in Std BY <1>1, <1>3 DEF IInv, Typed, TypeOK
    <3> QED BY <1>1, <3>1, <3>2, <3>3 DEF Fd
  <2>5. \A e \in Fd : e < c => fds[e].dev # fds[c].dev
    <3>1. \A e \in 0..(max - 1) : e # c => fds[e].dev # fds[c].dev BY <1>7 DEF AltFdLock
    <3>2. max \in -1..(MaxFd - 1) BY DEF IInv, Typed, TypeOK
    <3> QED BY <1>1, <2>4, <3>1, <3>2 DEF Fd
  <2>6. UNCHANGED <<max, host, reg, stage, held>> BY <1>7 DEF Exclusive
  <2> HIDE DEF g
  <2> QED BY <1>3, <2>1, <2>2, <2>3, <2>5, <2>6, FlagsInv
<1>8. CASE AltFdUnlock(c)
  <2> DEFINE g == fds[c].flags \ {"EXCL"}
  <2>1. g \in SUBSET Flag /\ g \intersect Access = fds[c].flags \intersect Access
    BY <1>2 DEF Flag, Access
  <2>2. fds' = [fds EXCEPT ![c].flags = g] /\ UNCHANGED <<max, host, reg, stage, held>>
    BY <1>8 DEF AltFdUnlock
  <2>3. "EXCL" \notin g /\ (fds[c].dev = "host" => g \intersect FlagsMask = {})
    BY <1>4
  <2> HIDE DEF g
  <2> QED BY <1>3, <2>1, <2>2, <2>3, FlagsInv
<1>9. ASSUME NEW flags \in Mode, AltFcntl(c, flags) PROVE IInv'
  <2> DEFINE g == (fds[c].flags \ FcntlMask) \union (flags \intersect FcntlMask)
  <2>1. g \in SUBSET Flag /\ g \intersect Access = fds[c].flags \intersect Access
    BY <1>2 DEF Flag, Access, FcntlMask
  <2>2. fds' = [fds EXCEPT ![c].flags = g] /\ UNCHANGED <<max, host, reg, stage, held>>
    BY <1>9 DEF AltFcntl
  <2>3. /\ "EXCL" \in g => "EXCL" \in fds[c].flags
        /\ fds[c].dev = "host" => g \intersect FlagsMask = {}
    BY <1>4 DEF FcntlMask, FlagsMask
  <2> HIDE DEF g
  <2> QED BY <1>3, <1>5, <2>1, <2>2, <2>3, FlagsInv
<1> QED BY <1>6, <1>7, <1>8, <1>9

\* Transfers and seeks move the position of one handle, which is the
\* descriptor's own, and the program's count of it.
LEMMA MoveInv ==
  ASSUME IInv, stage = "main", NEW c \in DOMAIN held, AltRead(c) \/ AltWrite(c) \/ AltLseek(c)
  PROVE  IInv'
<1> USE FdAssumption, NameAssumption
<1>1. c \in Fd BY DEF IInv, Typed
<1>2. fds[c].dev = "host"
  <2>1. CASE AltRead(c) \/ AltWrite(c) BY <2>1 DEF AltRead, AltWrite, Moved
  <2>2. CASE AltLseek(c)
    <3>1. "lseek" \in Driver[fds[c].dev] BY <2>2 DEF AltLseek
    <3>2. fds[c].dev \in Dev BY <1>1 DEF IInv, NoSlotLost, Typed, TypeOK
    <3> QED BY <3>1, <3>2 DEF Driver, Dev
  <2> QED BY <2>1, <2>2
<1> DEFINE h == fds[c].priv
<1>3. h \in Handle BY <1>1, <1>2 DEF IInv, Typed, TypeOK
<1>4. host[h] = [file |-> held[c].file, pos |-> held[c].pos] /\ held[c].file \in File
  <2>1. host[h] = [file |-> held[c].file, pos |-> held[c].pos]
    BY <1>2 DEF IInv, DescriptorRight
  <2>2. host[h].file \in File BY <1>1, <1>2 DEF IInv, HostFiles
  <2> QED BY <2>1, <2>2
<1>5. held[c] \in [file : File \union {"null", "uart"}, access : SUBSET Access, pos : Nat]
  BY DEF IInv, Typed
<1>6. PICK p \in Nat : host' = [host EXCEPT ![h].pos = p] /\ held' = [held EXCEPT ![c].pos = p]
  <2>1. CASE AltRead(c) \/ AltWrite(c)
    <3>1. host[h].pos = held[c].pos /\ held[c].pos \in Nat BY <1>4, <1>5
    <3> DEFINE p == held[c].pos + 1
    <3>2. p \in Nat BY <3>1
    <3>3. host' = [host EXCEPT ![h].pos = p] /\ held' = [held EXCEPT ![c].pos = p]
      BY <2>1, <3>1 DEF AltRead, AltWrite, Moved
    <3> QED BY <3>2, <3>3
  <2>2. CASE AltLseek(c)
    <3>1. PICK q \in 0..MaxPos : /\ host' = [host EXCEPT ![fds[c].priv].pos = q]
                                /\ held' = [held EXCEPT ![c].pos = q]
      BY <2>2 DEF AltLseek
    <3>2. q \in Nat BY <3>1, PosAssumption
    <3> QED BY <3>1, <3>2
  <2> QED BY <2>1, <2>2
<1>7. UNCHANGED <<fds, max, reg, stage>> BY DEF AltRead, AltWrite, Moved, AltLseek
<1>8. host \in [Handle -> [file : File \union {NoFile}, pos : Nat]] BY DEF IInv, Typed
<1> HIDE DEF h
<1>9. /\ host' \in [Handle -> [file : File \union {NoFile}, pos : Nat]]
      /\ host'[h].file = held[c].file /\ host'[h].pos = p
      /\ \A x \in Handle : x # h => host'[x] = host[x]
  BY <1>3, <1>4, <1>6, <1>8
<1>10. /\ DOMAIN held' = DOMAIN held /\ held' = [e \in DOMAIN held' |-> held'[e]]
       /\ held'[c] \in [file : File \union {"null", "uart"}, access : SUBSET Access, pos : Nat]
       /\ held'[c].file = held[c].file /\ held'[c].access = held[c].access /\ held'[c].pos = p
       /\ \A e \in DOMAIN held : e # c => held'[e] = held[e]
  <2>1. held = [e \in DOMAIN held |-> held[e]] BY DEF IInv, Typed
  <2> QED BY <1>5, <1>6, <2>1
<1>11. host'[h] = [file |-> held'[c].file, pos |-> held'[c].pos]
  BY <1>3, <1>9, <1>10
<1>12. \A e \in Fd : e # c /\ fds[e].dev = "host" => fds[e].priv # h /\ fds[e].priv \in Handle
  BY <1>1, <1>2 DEF IInv, HostFiles, Typed, TypeOK, h
<1>13. Typed'
  <2>1. TypeOK' BY <1>7 DEF IInv, Typed, TypeOK
  <2> QED BY <1>7, <1>9, <1>10, <2>1 DEF IInv, Typed
<1>14. HostFiles' BY <1>4, <1>7, <1>9, <1>12 DEF IInv, HostFiles, h
<1>15. Boot'
  <2>1. c \notin Std BY <1>2 DEF IInv, Boot
  <2> QED BY <1>7, <1>10, <2>1 DEF IInv, Boot, Running
<1>16. NoSlotLost' /\ Locks' BY <1>7, <1>10 DEF IInv, NoSlotLost, Locks
<1>17. DescriptorRight'
  <2>1. ASSUME NEW e \in DOMAIN held, e # c
        PROVE  /\ fds'[e].flags \intersect Access = held'[e].access
               /\ IF fds'[e].dev = "host"
                  THEN host'[fds'[e].priv] = [file |-> held'[e].file, pos |-> held'[e].pos]
                  ELSE fds'[e].dev = held'[e].file
    BY <1>7, <1>9, <1>10, <1>12, <2>1 DEF IInv, DescriptorRight, Typed
  <2>2. /\ fds'[c].flags \intersect Access = held'[c].access
        /\ fds'[c].dev = "host" /\ fds'[c].priv = h
    BY <1>2, <1>7, <1>10 DEF IInv, DescriptorRight, h
  <2> QED BY <1>10, <1>11, <2>1, <2>2 DEF DescriptorRight
<1> QED BY <1>13, <1>14, <1>15, <1>16, <1>17 DEF IInv

LEMMA StepInv == ASSUME IInv, [Next]_vars PROVE IInv'
<1>1. CASE UNCHANGED vars BY <1>1, StutterInv DEF vars, table
<1>2. CASE SysInit BY <1>2, SysInitInv
<1>3. CASE AltIoRedirect
  <2>1. {"WRONLY"} \in OpenFlags /\ {} \in OpenFlags BY DEF OpenFlags
  <2>2. 0 \in Std /\ 1 \in Std /\ 2 \in Std BY DEF Std
  <2>3. CASE stage = "stdout" /\ AltOpenFd(1, {"WRONLY"}, "stdin")
    BY <2>1, <2>2, <2>3, RedirectInv DEF Stages
  <2>4. CASE stage = "stdin" /\ AltOpenFd(0, {}, "stderr")
    BY <2>1, <2>2, <2>4, RedirectInv DEF Stages
  <2>5. CASE stage = "stderr" /\ AltOpenFd(2, {"WRONLY"}, "main")
    BY <2>1, <2>2, <2>5, RedirectInv DEF Stages
  <2> QED BY <1>3, <2>3, <2>4, <2>5 DEF AltIoRedirect
<1>4. CASE MainReturns
  <2>1. 1 \in Std /\ CloseFd(1) BY <1>4 DEF Std, MainReturns
  <2>2. UNCHANGED table BY <2>1, CloseStd
  <2> QED BY <1>4, <2>2, StutterInv DEF MainReturns
<1>5. CASE Exited BY <1>5, StutterInv DEF Exited, vars, table
<1>6. CASE Program
  <2>1. stage = "main" BY <1>6 DEF Program
  <2>2. ASSUME NEW name \in Names, NEW flags \in Mode, AltOpen(name, flags) PROVE IInv'
    <3>1. flags \in OpenFlags BY ModeAssumption DEF OpenFlags
    <3> QED BY <2>1, <2>2, <3>1, OpenInv
  <2>3. ASSUME NEW c \in DOMAIN held,
               \/ AltClose(c) \/ Exclusive(c) \/ AltFdUnlock(c) \/ \E flags \in Mode : AltFcntl(c, flags)
               \/ AltRead(c) \/ AltWrite(c) \/ AltLseek(c)
        PROVE  IInv'
    <3>1. CASE AltClose(c) BY <2>1, <3>1, CloseInv
    <3>2. CASE Exclusive(c) \/ AltFdUnlock(c) \/ \E flags \in Mode : AltFcntl(c, flags)
      BY <2>1, <3>2, LockInv
    <3>3. CASE AltRead(c) \/ AltWrite(c) \/ AltLseek(c) BY <2>1, <3>3, MoveInv
    <3> QED BY <2>3, <3>1, <3>2, <3>3
  <2> QED BY <1>6, <2>2, <2>3 DEF Program, Names
<1> QED BY <1>1, <1>2, <1>3, <1>4, <1>5, <1>6 DEF Next

LEMMA Invariant == Spec => []IInv
<1>1. Init => IInv BY InitInv
<1>2. IInv /\ [Next]_vars => IInv' BY StepInv
<1> QED BY <1>1, <1>2, PTL DEF Spec

-----------------------------------------------------------------------------
(* The theorems *)

\* The descriptor table keeps its shape, whatever the program calls.
THEOREM TypeCorrect == Spec => []TypeOK
<1>1. IInv => TypeOK BY DEF IInv, Typed
<1> QED BY <1>1, Invariant, PTL

\* No slot is lost and none is freed under the program, for any ALT_MAX_FD.
THEOREM SlotsKept == Spec => []NoSlotLost
<1>1. IInv => NoSlotLost BY DEF IInv
<1> QED BY <1>1, Invariant, PTL

\* Each descriptor leads to the file, position and access mode the program
\* knows of, however many files and host handles there are.
THEOREM DescriptorsRight == Spec => []DescriptorRight
<1>1. IInv => DescriptorRight BY DEF IInv
<1> QED BY <1>1, Invariant, PTL

\* A device has one exclusive holder: the locks that alt_fd_lock grants without
\* seeing the highest descriptor never meet.
THEOREM HoldersApart == Spec => []OneHolder
<1>1. ASSUME IInv PROVE OneHolder
  <2> SUFFICES ASSUME NEW c \in Fd, NEW e \in Fd, c # e,
                      "EXCL" \in fds[c].flags, "EXCL" \in fds[e].flags
               PROVE  fds[c].dev # fds[e].dev
    BY DEF OneHolder
  <2>1. CASE c < e BY <1>1, <2>1 DEF IInv, Locks
  <2>2. CASE e < c BY <1>1, <2>2 DEF IInv, Locks
  <2> QED BY <2>1, <2>2, FdAssumption DEF Fd
<1> QED BY <1>1, Invariant, PTL

\* A locked device is not opened again, whatever has been closed since.
THEOREM LocksHonoured == Spec => LockHonoured
<1>1. ASSUME IInv, Next PROVE NoneBesideLock
  <2> SUFFICES ASSUME NEW c \in Fd \ Std, fds[c].dev = NoDev, fds'[c].dev # NoDev,
                      NEW e \in Fd, fds[e].dev = fds'[c].dev, "EXCL" \in fds[e].flags
               PROVE  FALSE
    BY DEF NoneBesideLock
  <2>1. Running BY <1>1 DEF IInv, Boot
  <2>2. c > 2 /\ c \notin DOMAIN held
    BY <1>1, <2>1, FdAssumption DEF IInv, NoSlotLost, Running, Fd, Std
  <2>3. fds \in Entries BY <1>1 DEF IInv, Typed, TypeOK, Entries
  <2>4. ~SysInit /\ ~AltIoRedirect /\ ~Exited
    BY <2>1 DEF Running, SysInit, AltIoRedirect, Exited, vars
  <2>5. ~MainReturns BY DEF MainReturns, CloseFd, HostfsClose, AltReleaseFd
  <2>6. ASSUME NEW k \in DOMAIN held, AltClose(k) \/ Exclusive(k) \/ AltFdUnlock(k)
                 \/ (\E flags \in Mode : AltFcntl(k, flags)) \/ AltRead(k) \/ AltWrite(k) \/ AltLseek(k)
        PROVE  FALSE
    <3>1. k # c /\ k \in Fd BY <1>1, <2>2, <2>6 DEF IInv, Typed
    <3>2. fds'[c] = fds[c]
      BY <2>3, <2>6, <3>1 DEF AltClose, CloseFd, HostfsClose, AltReleaseFd, Exclusive, AltFdUnlock, AltFcntl,
                              AltRead, AltWrite, Moved, AltLseek, Entries
    <3> QED BY <3>2
  <2>7. ASSUME NEW name \in Names, NEW flags \in Mode, AltOpen(name, flags) PROVE FALSE
    <3>1. flags \in OpenFlags BY ModeAssumption DEF OpenFlags
    <3>2. PICK o \in Opened(name, flags) : fds' = o.fds BY <2>7 DEF AltOpen
    <3>3. /\ o.fds # fds
          /\ Fresh(o) /\ (FreshDevice(o, name, flags) \/ FreshFile(o, name, flags))
      BY <1>1, <3>1, <3>2, OpenedCases
    <3>4. c = o.rc BY <2>3, <3>2, <3>3 DEF Fresh, FreshDevice, FreshFile, Entries
    <3>5. CASE FreshDevice(o, name, flags)
      <4>1. fds'[c].dev = name BY <2>3, <3>2, <3>4, <3>5 DEF FreshDevice, Entries
      <4> QED BY <3>5, <4>1 DEF FreshDevice
    <3>6. CASE FreshFile(o, name, flags)
      <4>1. fds'[c].dev = "host" BY <2>3, <3>2, <3>4, <3>6 DEF FreshFile, Entries
      <4> QED BY <1>1, <4>1 DEF IInv, HostFiles, FlagsMask
    <3> QED BY <3>3, <3>5, <3>6
  <2> QED BY <1>1, <2>4, <2>5, <2>6, <2>7 DEF Next, Program, Names
<1>2. IInv /\ [Next]_vars => [NoneBesideLock]_vars BY <1>1
<1> QED BY <1>2, Invariant, PTL DEF Spec, LockHonoured

-----------------------------------------------------------------------------
(* load_image *)

Loading == Reading \union {"close"}

\* Until load_image closes its file, main runs, and it holds a descriptor that
\* it opened for the image and may read from.
FileOpen ==
  /\ at \in Loading => /\ stage = "main" /\ file \in DOMAIN held
                       /\ held[file].file = Image /\ held[file].access = {}
  /\ at = "exit" => stage \in {"main", "exit"}

LEMMA LoadOpens ==
  ASSUME IInv, FileOpen, LoadOpen
  PROVE  Program /\ FileOpen'
<1>1. stage = "main" /\ AltOpen(Image, {})
  BY DEF LoadOpen
<1>2. PICK o \in Opened(Image, {}) :
        /\ IF o.rc >= 0 THEN Note(o.rc, Image, {}) ELSE UNCHANGED held
        /\ UNCHANGED <<reg, stage>>
  BY <1>1 DEF AltOpen
<1>3. Program
  BY <1>1, ImageAssumption DEF Program
<1>4. at' \in {"magic", "exit"} /\ (at' = "magic" => held' # held /\ file' \in DOMAIN held' \ DOMAIN held)
  BY DEF LoadOpen
<1>5. ASSUME at' = "magic"
      PROVE  file' \in DOMAIN held' /\ held'[file'].file = Image /\ held'[file'].access = {}
  <2>1. Note(o.rc, Image, {})
    BY <1>2, <1>4, <1>5
  <2>2. held' = [c \in DOMAIN held \union {o.rc} |->
                   IF c = o.rc THEN [file |-> Image, access |-> {} \intersect Access, pos |-> 0]
                               ELSE held[c]]
    BY <2>1 DEF Note
  <2>3. file' = o.rc
    BY <1>4, <1>5, <2>2
  <2>4. held'[o.rc] = [file |-> Image, access |-> {} \intersect Access, pos |-> 0]
    BY <2>2
  <2> QED
    BY <1>4, <1>5, <2>3, <2>4
<1> QED
  BY <1>1, <1>2, <1>3, <1>4, <1>5 DEF FileOpen, Loading, Reading

\* A step of load_image is a call of a program that runs, or none.
LEMMA LoadStep ==
  ASSUME IInv, FileOpen, [LoadNext]_<<vars, load>>
  PROVE  [Next]_vars /\ FileOpen'
<1> USE DEF FileOpen, Loading, Reading
<1>1. CASE UNCHANGED <<vars, load>>
  BY <1>1 DEF vars, load
<1>2. CASE at = "idle" /\ Next /\ UNCHANGED load
  BY <1>2 DEF load
<1>3. CASE LoadOpen
  BY <1>3, LoadOpens DEF Next
<1>4. CASE LoadRefill
  <2>1. stage = "main" /\ file \in DOMAIN held /\ AltRead(file) /\ at \in Reading
    BY <1>4 DEF LoadRefill
  <2>2. Program
    BY <2>1 DEF Program
  <2>3. at' = at /\ file' = file
    BY <1>4 DEF LoadRefill, load
  <2>4. stage' = stage /\ held' = [held EXCEPT ![file].pos = @ + 1]
    BY <2>1 DEF AltRead, Moved
  <2>5. held[file] \in [file : File \union {"null", "uart"}, access : SUBSET Access, pos : Nat]
    BY <2>1 DEF IInv, Typed
  <2>6. /\ file \in DOMAIN held' /\ held'[file].file = held[file].file
        /\ held'[file].access = held[file].access
    BY <2>1, <2>4, <2>5
  <2> QED
    BY <2>1, <2>2, <2>3, <2>4, <2>6 DEF Next
<1>5. CASE LoadMagic
  <2>1. CASE UNCHANGED vars /\ at' = "header"
    BY <1>5, <2>1 DEF LoadMagic, vars
  <2>2. CASE AltClose(file) /\ at' = "exit"
    <3>1. stage = "main" /\ file \in DOMAIN held
      BY <1>5 DEF LoadMagic
    <3>2. Program
      BY <2>2, <3>1 DEF Program
    <3>3. stage' = "main"
      BY <2>2, <3>1 DEF AltClose
    <3> QED
      BY <2>2, <3>2, <3>3 DEF Next
  <2> QED
    BY <1>5, <2>1, <2>2 DEF LoadMagic
<1>6. CASE LoadHeader \/ LoadTable \/ LoadRow \/ LoadRowEnd \/ LoadPixel
  <2>1. UNCHANGED vars /\ file' = file /\ at \in Reading /\ at' \in Loading
    <3>1. CASE LoadHeader
      BY <3>1 DEF LoadHeader
    <3>2. CASE LoadTable
      BY <3>2 DEF LoadTable
    <3>3. CASE LoadRow
      BY <3>3 DEF LoadRow
    <3>4. CASE LoadRowEnd
      BY <3>4 DEF LoadRowEnd
    <3>5. CASE LoadPixel
      BY <3>5 DEF LoadPixel
    <3> QED
      BY <1>6, <3>1, <3>2, <3>3, <3>4, <3>5
  <2> QED
    BY <2>1 DEF vars
<1>7. CASE LoadClose
  <2>1. stage = "main" /\ file \in DOMAIN held /\ AltClose(file) /\ at' = "idle"
    BY <1>7 DEF LoadClose
  <2> QED
    BY <2>1 DEF Next, Program
<1>8. CASE LoadExit
  <2>1. fds[1].dev = "uart"
    BY <1>8 DEF LoadExit, IInv, Boot, Running, Std
  <2>2. CloseFd(1)
    BY <1>8, <2>1 DEF LoadExit, table, CloseFd, AltReleaseFd
  <2>3. MainReturns
    BY <1>8, <2>2 DEF LoadExit, MainReturns
  <2>4. at' = "exit" /\ stage' = "exit"
    BY <1>8 DEF LoadExit, load
  <2> QED
    BY <2>3, <2>4 DEF Next
<1>9. CASE at = "exit" /\ Exited /\ UNCHANGED load
  <2>1. Next /\ stage' = stage /\ at' = at
    BY <1>9 DEF Next, Exited, vars, load
  <2> QED
    BY <1>9, <2>1
<1> QED
  BY <1>1, <1>2, <1>3, <1>4, <1>5, <1>6, <1>7, <1>8, <1>9 DEF LoadNext

\* Whatever fgetc reads comes from the image: as long as load_image has not
\* closed it, its descriptor leads to that file of the host, and may be read.
FileHeld ==
  at \in Loading =>
    /\ fds[file].dev = "host" /\ host[fds[file].priv].file = Image
    /\ Readable(file)

\* load_image, with the reads of the C library behind its fgetc at any time, is
\* a program of the file calls, so that all of the above holds while it runs,
\* whatever the host refuses and however often it is called; and its reads go
\* to the image, whatever descriptors and handles were used before.
THEOREM LoadIsProgram == LoadSpec => Spec /\ []FileHeld
<1>1. LoadInit => Init /\ IInv /\ FileOpen
  BY InitInv DEF LoadInit, Rest, FileOpen, Loading, Reading
<1>2. IInv /\ FileOpen /\ [LoadNext]_<<vars, load>> => [Next]_vars /\ IInv' /\ FileOpen'
  BY LoadStep, StepInv
<1>3. ASSUME IInv, FileOpen PROVE FileHeld
  <2> SUFFICES ASSUME at \in Loading
               PROVE  /\ fds[file].dev = "host" /\ host[fds[file].priv].file = Image
                      /\ Readable(file)
    BY DEF FileHeld
  <2>1. /\ stage = "main" /\ file \in DOMAIN held /\ file \in Fd
        /\ held[file].file = Image /\ held[file].access = {}
    BY <1>3 DEF FileOpen, IInv, Typed
  <2>2. /\ fds[file].flags \intersect Access = held[file].access
        /\ IF fds[file].dev = "host"
           THEN host[fds[file].priv] = [file |-> held[file].file, pos |-> held[file].pos]
           ELSE fds[file].dev = held[file].file
    BY <1>3, <2>1 DEF IInv, DescriptorRight
  <2>3. fds[file].dev \in Dev \union {NoDev}
    BY <1>3, <2>1 DEF IInv, Typed, TypeOK
  <2>4. fds[file].dev = "host"
    BY <2>1, <2>2, <2>3, NameAssumption, ImageAssumption DEF Dev
  <2>5. "WRONLY" \notin fds[file].flags
    BY <2>1, <2>2 DEF Access
  <2>6. "read" \in Driver["host"]
    BY DEF Driver
  <2> QED
    BY <2>1, <2>2, <2>4, <2>5, <2>6 DEF Readable
<1> QED
  BY <1>1, <1>2, <1>3, PTL DEF LoadSpec, Spec

\* The word of a pixel belongs to no other pixel.
LEMMA WordOfPixel ==
  ASSUME NEW W \in Nat, NEW r \in Nat, NEW q \in Nat,
         NEW x \in 0..(W - 1), NEW y \in 0..(W - 1), r * W + x = q * W + y
  PROVE  r = q /\ x = y
<1>1. ASSUME NEW n \in Nat, NEW m \in Nat, NEW u \in 0..(W - 1), NEW v \in 0..(W - 1), n < m
      PROVE  n * W + u < m * W + v
  <2>1. (n + 1) * W <= m * W /\ (n + 1) * W = n * W + W /\ n * W \in Nat /\ m * W \in Nat
    BY <1>1
  <2> QED
    BY <2>1
<1>2. ~(r < q)
  BY <1>1
<1>3. ~(q < r)
  BY <1>1
<1>4. r = q /\ r * W \in Nat
  BY <1>2, <1>3
<1> QED
  BY <1>4

\* The words of the picture end with that of its last pixel.
LEMMA WordInPicture ==
  ASSUME NEW W \in Nat, NEW h \in Nat, NEW r \in 0..(h - 1), NEW x \in 0..(W - 1)
  PROVE  r * W + x \in Nat /\ r * W + x < W * h
<1>1. (r + 1) * W <= h * W /\ (r + 1) * W = r * W + W /\ h * W = W * h /\ r * W \in Nat
  OBVIOUS
<1> QED
  BY <1>1

\* Rows that need no filling follow one another directly.
LEMMA NoFilling ==
  ASSUME NEW W \in Nat, (3 * W) % 4 = 0
  PROVE  4 * ((3 * W + 3) \div 4) = 3 * W
OBVIOUS

LEMMA NextRow ==
  ASSUME NEW h \in Int, NEW r \in Int, NEW w \in Int
  PROVE  (h - 1 - (r - 1)) * w = (h - 1 - r) * w + w
OBVIOUS

-----------------------------------------------------------------------------
(* The header *)

\* What the model's bitmaps are, and the weights of a byte.
LEMMA Numbers ==
  /\ ByteSpace \in Nat /\ ByteSpace > 25 /\ MaxFails \in Nat
  /\ Weight[1] = 1 /\ Weight[2] = ByteSpace /\ Weight[3] \in Nat /\ Weight[4] \in Nat
  /\ Dword \in Nat
<1>1. ByteSpace \in Nat /\ ByteSpace > 25 /\ MaxFails \in Nat
  BY LoadAssumption
<1>2. /\ Weight[1] = 1 /\ Weight[2] = ByteSpace /\ Weight[3] = ByteSpace * ByteSpace
      /\ Weight[4] = ByteSpace * ByteSpace * ByteSpace
  BY DEF Weight
<1>3. ByteSpace * ByteSpace \in Nat
  BY <1>1
<1>4. ByteSpace * ByteSpace * ByteSpace \in Nat
  BY <1>1, <1>3
<1>5. Dword \in Nat
  BY <1>1, <1>4 DEF Dword
<1> QED
  BY <1>1, <1>2, <1>3, <1>4, <1>5

W == Width(bmp)
H == Height(bmp)

LEMMA BmpTyped ==
  ASSUME bmp \in Bmp
  PROVE  /\ W \in Nat \ {0} /\ H \in Nat \ {0} /\ BitCount(bmp) \in Nat /\ Colours(bmp) \in Nat
         /\ W * H <= Dword \div 4 /\ H - 1 < Dword \div 2 /\ 4 * Colours(bmp) < Dword
         /\ bmp.length \in Nat
         /\ \A q \in 2..53 : HeaderByte(q) \in 0..(ByteSpace - 1)
<1>1. /\ bmp.length \in Nat /\ \A q \in 2..53 : bmp.header[q] \in 0..(ByteSpace - 1)
      /\ W > 0 /\ H > 0 /\ W * H <= Dword \div 4 /\ 4 * Colours(bmp) < Dword
  BY BmpAssumption DEF W, H
<1>2. ASSUME NEW q \in 2..50 PROVE Four(bmp.header, q) \in Nat
  <2>1. /\ q \in 2..53 /\ q + 1 \in 2..53 /\ q + 2 \in 2..53 /\ q + 3 \in 2..53
    BY <1>2
  <2>2. /\ bmp.header[q] \in Nat /\ bmp.header[q + 1] \in Nat /\ bmp.header[q + 2] \in Nat
        /\ bmp.header[q + 3] \in Nat
    BY <1>1, <2>1, Numbers
  <2> QED
    BY <2>2, Numbers DEF Four
<1>3. W \in Nat /\ H \in Nat /\ Colours(bmp) \in Nat
  BY <1>2 DEF W, H, Width, Height, Colours
<1>4. BitCount(bmp) \in Nat
  <2>1. bmp.header[28] \in Nat /\ bmp.header[29] \in Nat
    BY <1>1, Numbers
  <2> QED
    BY <2>1, Numbers DEF BitCount
<1>5. H - 1 < Dword \div 2
  <2>1. H <= W * H
    BY <1>1, <1>3
  <2>2. W * H \in Nat
    BY <1>3
  <2> QED
    BY <1>1, <1>3, <2>1, <2>2, Numbers
<1>6. \A q \in 2..53 : HeaderByte(q) \in 0..(ByteSpace - 1)
  BY <1>1, Numbers DEF HeaderByte
<1> QED
  BY <1>1, <1>3, <1>4, <1>5, <1>6

\* The first n bytes of the field at offset q as an undisturbed load reads them.
Part(q, n) ==
  (IF n > 0 THEN HeaderByte(q) ELSE 0) + (IF n > 1 THEN Weight[2] * HeaderByte(q + 1) ELSE 0)
    + (IF n > 2 THEN Weight[3] * HeaderByte(q + 2) ELSE 0)
    + (IF n > 3 THEN Weight[4] * HeaderByte(q + 3) ELSE 0)
BitsPart(n) ==
  (IF n > 0 THEN HeaderByte(28) ELSE 0) + (IF n > 1 THEN Weight[2] * HeaderByte(29) ELSE 0)

\* One more byte of a field.
LEMMA PartStep ==
  ASSUME bmp \in Bmp, i \in 1..52, NEW first \in 17..45, NEW q, q = first + 1
  PROVE  Part(q, i - first) + Term(HeaderByte(i + 1), first, 4) = Part(q, i + 1 - first)
<1> DEFINE B(m) == HeaderByte(first + 1 + m)
<1>1. \A m \in 0..3 : B(m) \in Nat /\ (i = first + m => HeaderByte(i + 1) = B(m))
  <2> TAKE m \in 0..3
  <2>1. first + 1 + m \in 2..53 /\ (i = first + m => i + 1 = first + 1 + m)
    OBVIOUS
  <2>2. B(m) \in 0..(ByteSpace - 1)
    BY <2>1, BmpTyped
  <2> QED
    BY <2>1, <2>2, Numbers
<1> DEFINE q0 == HeaderByte(first + 1)
           q1 == Weight[2] * HeaderByte(first + 1 + 1)
           q2 == Weight[3] * HeaderByte(first + 1 + 2)
           q3 == Weight[4] * HeaderByte(first + 1 + 3)
<1>2. q0 \in Nat /\ q1 \in Nat /\ q2 \in Nat /\ q3 \in Nat
  <2>1. B(0) \in Nat /\ B(1) \in Nat /\ B(2) \in Nat /\ B(3) \in Nat
    BY <1>1
  <2>2. first + 1 + 0 = first + 1
    OBVIOUS
  <2> QED
    BY <2>1, <2>2, Numbers
<1>3. Term(HeaderByte(i + 1), first, 4) =
        IF i = first THEN q0 ELSE IF i = first + 1 THEN q1
        ELSE IF i = first + 2 THEN q2 ELSE IF i = first + 3 THEN q3 ELSE 0
  <2>1. CASE i = first
    <3>1. i - first + 1 = 1 /\ i + 1 = first + 1 /\ i \in first..(first + 4 - 1)
      BY <2>1
    <3> QED
      BY <1>2, <2>1, <3>1, Numbers DEF Term
  <2>2. CASE i = first + 1
    <3>1. i - first + 1 = 2 /\ i + 1 = first + 1 + 1 /\ i \in first..(first + 4 - 1) /\ i # first
      BY <2>2
    <3> QED
      BY <2>2, <3>1 DEF Term
  <2>3. CASE i = first + 2
    <3>1. i - first + 1 = 3 /\ i + 1 = first + 1 + 2 /\ i \in first..(first + 4 - 1)
          /\ i # first /\ i # first + 1
      BY <2>3
    <3> QED
      BY <2>3, <3>1 DEF Term
  <2>4. CASE i = first + 3
    <3>1. i - first + 1 = 4 /\ i + 1 = first + 1 + 3 /\ i \in first..(first + 4 - 1)
          /\ i # first /\ i # first + 1 /\ i # first + 2
      BY <2>4
    <3> QED
      BY <2>4, <3>1 DEF Term
  <2>5. CASE i \notin first..(first + 3)
    BY <2>5 DEF Term
  <2> QED
    BY <2>1, <2>2, <2>3, <2>4, <2>5
<1>4. \A n \in Int : Part(first + 1, n) =
        (IF n > 0 THEN q0 ELSE 0) + (IF n > 1 THEN q1 ELSE 0)
          + (IF n > 2 THEN q2 ELSE 0) + (IF n > 3 THEN q3 ELSE 0)
  BY DEF Part
<1> HIDE DEF q0, q1, q2, q3
<1>5. i - first \in Int /\ i + 1 - first \in Int
  OBVIOUS
<1>6. /\ Part(first + 1, i - first) =
           (IF i - first > 0 THEN q0 ELSE 0) + (IF i - first > 1 THEN q1 ELSE 0)
             + (IF i - first > 2 THEN q2 ELSE 0) + (IF i - first > 3 THEN q3 ELSE 0)
      /\ Part(first + 1, i + 1 - first) =
           (IF i + 1 - first > 0 THEN q0 ELSE 0) + (IF i + 1 - first > 1 THEN q1 ELSE 0)
             + (IF i + 1 - first > 2 THEN q2 ELSE 0) + (IF i + 1 - first > 3 THEN q3 ELSE 0)
  BY <1>4, <1>5
<1>7. Part(first + 1, i - first) + Term(HeaderByte(i + 1), first, 4)
        = Part(first + 1, i + 1 - first)
  BY <1>2, <1>3, <1>6
<1> QED
  BY <1>7, Zenon

\* A field of which all bytes are in the file is read as it stands there.
LEMMA PartWhole ==
  ASSUME bmp \in Bmp, NEW q \in 2..50, q + 3 < bmp.length, NEW n \in Int, n > 3
  PROVE  Part(q, n) = Four(bmp.header, q)
<1>1. /\ HeaderByte(q) = bmp.header[q] /\ HeaderByte(q + 1) = bmp.header[q + 1]
      /\ HeaderByte(q + 2) = bmp.header[q + 2] /\ HeaderByte(q + 3) = bmp.header[q + 3]
  BY BmpTyped DEF HeaderByte
<1>2. n > 0 /\ n > 1 /\ n > 2
  OBVIOUS
<1> QED
  BY <1>1, <1>2 DEF Part, Four

\* What the header variables hold says which file this is.
Fits == width = W /\ height = H /\ BitCount(bmp) = 24

\* While the header is read, load_image is as many bytes late as reads have
\* failed.  A header that is late cannot have a bit count of 24: what it reads
\* as the count would be the number of planes, or the last byte of the height
\* and the number of planes.
HeaderRead ==
  at \in {"header", "table"} =>
    /\ i \in 1..53 /\ (at = "header" => i < 53) /\ (at = "table" => i = 53)
    /\ byte \in Nat /\ fails \in Nat /\ byte >= 2 /\ byte + fails = i + 1 /\ shift = fails
    /\ width \in Nat /\ height \in Nat /\ bits \in Nat /\ offset \in Nat
    /\ fails = 0 => /\ width = Part(18, i - 17) /\ height = Part(22, i - 21)
                    /\ offset = Part(46, i - 45) /\ bits = BitsPart(i - 27)
    /\ i <= 27 => bits = 0
    /\ i = 28 => bits < ByteSpace /\ (bits = 24 => fails = 0 \/ fails > 2)
    /\ i > 28 /\ bits = 24 /\ fails <= 3 => Fits

LEMMA TermTyped ==
  ASSUME i \in 1..52, NEW v \in Nat, NEW first \in Nat, NEW size \in 0..4
  PROVE  Term(v, first, size) \in Nat
<1>1. CASE i \in first..(first + size - 1)
  <2>1. i - first + 1 \in 1..4
    BY <1>1
  <2>2. Weight[i - first + 1] \in Nat
    BY <2>1, Numbers
  <2>3. Term(v, first, size) = Weight[i - first + 1] * v
    BY <1>1 DEF Term
  <2> QED
    BY <2>2, <2>3
<1>2. CASE i \notin first..(first + size - 1)
  BY <1>2 DEF Term
<1> QED
  BY <1>1, <1>2

\* What is read as the low byte of the bit count is 24 only if none or more
\* than two reads have failed by then.
LEMMA LowByte ==
  ASSUME bmp \in Bmp, byte \in Nat, fails \in Nat, byte >= 2, byte + fails = 28, HeaderByte(byte) = 24
  PROVE  fails = 0 \/ fails > 2
<1>1. bmp.header[26] = 1 /\ bmp.header[27] = 0
  BY BmpAssumption
<1>2. HeaderByte(26) # 24 /\ HeaderByte(27) # 24
  BY <1>1, Numbers DEF HeaderByte
<1>3. byte # 26 /\ byte # 27
  BY <1>2
<1> QED
  BY <1>3

\* With the high byte of the count, only a header that is not late fits.
LEMMA HighByte ==
  ASSUME bmp \in Bmp, byte \in Nat, fails \in 0..3, byte + fails = 29, HeaderByte(byte) = 0,
         fails = 0 \/ fails > 2
  PROVE  fails = 0 /\ bmp.length > 29
<1>1. bmp.header[26] = 1
  BY BmpAssumption
<1>2. HeaderByte(26) # 0
  BY <1>1, Numbers DEF HeaderByte
<1>3. byte # 26
  BY <1>2
<1>4. fails = 0 /\ byte = 29
  BY <1>3
<1>5. bmp.length > 29
  BY <1>4, BmpTyped, Numbers DEF HeaderByte
<1> QED
  BY <1>4, <1>5

LEMMA HeaderInv ==
  ASSUME bmp \in Bmp, HeaderRead, LoadHeader
  PROVE  HeaderRead'
<1>1. /\ at = "header" /\ i \in 1..52 /\ bmp' = bmp
      /\ byte \in Nat /\ fails \in Nat /\ byte >= 2 /\ byte + fails = i + 1
      /\ width \in Nat /\ height \in Nat /\ bits \in Nat /\ offset \in Nat
  BY DEF LoadHeader, HeaderRead
<1>2. PICK lost \in {0, 1} :
        LET v == IF lost = 1 THEN ByteSpace - 1 ELSE HeaderByte(byte) IN
        /\ fails' = fails + lost /\ shift' = fails' /\ byte' = byte + 1 - lost
        /\ width' = width + Term(v, 17, 4) /\ height' = height + Term(v, 21, 4)
        /\ bits' = bits + Term(v, 27, 2) /\ offset' = offset + Term(v, 45, 4)
  BY DEF LoadHeader
<1> DEFINE v == IF lost = 1 THEN ByteSpace - 1 ELSE HeaderByte(byte)
<1>3. v \in 0..(ByteSpace - 1) /\ v \in Nat
  <2>1. byte \in 2..53
    BY <1>1
  <2>2. HeaderByte(byte) \in 0..(ByteSpace - 1)
    BY <2>1, BmpTyped
  <2> QED
    BY <2>2, Numbers
<1>4. /\ fails' = fails + lost /\ shift' = fails' /\ byte' = byte + 1 - lost
       /\ width' = width + Term(v, 17, 4) /\ height' = height + Term(v, 21, 4)
       /\ bits' = bits + Term(v, 27, 2) /\ offset' = offset + Term(v, 45, 4)
       /\ (lost = 1 => v = ByteSpace - 1) /\ (lost # 1 => v = HeaderByte(byte))
  BY <1>2
<1> HIDE DEF v
<1>5. /\ i' = i + 1 /\ at' \in {"header", "table"}
      /\ (at' = "header" => i' < 53) /\ (at' = "table" => i' = 53)
  BY <1>1 DEF LoadHeader
<1>6. /\ byte' \in Nat /\ fails' \in Nat /\ byte' >= 2 /\ byte' + fails' = i' + 1 /\ shift' = fails'
  BY <1>1, <1>2, <1>4, <1>5
<1>7. /\ Term(v, 17, 4) \in Nat /\ Term(v, 21, 4) \in Nat /\ Term(v, 27, 2) \in Nat
      /\ Term(v, 45, 4) \in Nat
  <2>1. 17 \in Nat /\ 21 \in Nat /\ 27 \in Nat /\ 45 \in Nat /\ 4 \in 0..4 /\ 2 \in 0..4
    OBVIOUS
  <2> QED
    BY <1>1, <1>3, <2>1, TermTyped, Zenon
<1>8. width' \in Nat /\ height' \in Nat /\ bits' \in Nat /\ offset' \in Nat
  BY <1>1, <1>2, <1>4, <1>7
<1>9. Term(v, 27, 2) = IF i = 27 THEN v ELSE IF i = 28 THEN ByteSpace * v ELSE 0
  <2>1. CASE i = 27
    BY <1>3, <2>1, Numbers DEF Term
  <2>2. CASE i = 28
    BY <1>3, <2>2, Numbers DEF Term
  <2>3. CASE i # 27 /\ i # 28
    BY <1>1, <2>3 DEF Term
  <2> QED
    BY <2>1, <2>2, <2>3
<1>10. ASSUME fails' = 0
      PROVE  /\ width' = Part(18, i' - 17) /\ height' = Part(22, i' - 21)
             /\ offset' = Part(46, i' - 45) /\ bits' = BitsPart(i' - 27)
  <2>1. fails = 0 /\ lost = 0 /\ byte = i + 1
    BY <1>1, <1>2, <1>4, <1>10
  <2>2. v = HeaderByte(i + 1)
    BY <1>4, <2>1
  <2>3. /\ width = Part(18, i - 17) /\ height = Part(22, i - 21)
        /\ offset = Part(46, i - 45) /\ bits = BitsPart(i - 27)
    BY <1>1, <2>1 DEF HeaderRead
  <2>4. /\ Part(18, i - 17) + Term(v, 17, 4) = Part(18, i + 1 - 17)
        /\ Part(22, i - 21) + Term(v, 21, 4) = Part(22, i + 1 - 21)
        /\ Part(46, i - 45) + Term(v, 45, 4) = Part(46, i + 1 - 45)
    <3>1. /\ 17 \in 17..45 /\ 18 = 17 + 1 /\ 21 \in 17..45 /\ 22 = 21 + 1
          /\ 45 \in 17..45 /\ 46 = 45 + 1
      OBVIOUS
    <3>2. \A first \in 17..45 : \A q : q = first + 1 =>
            Part(q, i - first) + Term(HeaderByte(i + 1), first, 4) = Part(q, i + 1 - first)
      BY <1>1, PartStep
    <3>3. \A first \in 17..45 : \A q : q = first + 1 =>
            Part(q, i - first) + Term(v, first, 4) = Part(q, i + 1 - first)
      BY <2>2, <3>2, Zenon
    <3>4. Part(18, i - 17) + Term(v, 17, 4) = Part(18, i + 1 - 17)
      BY <3>1, <3>3
    <3>5. Part(22, i - 21) + Term(v, 21, 4) = Part(22, i + 1 - 21)
      BY <3>1, <3>3
    <3>6. Part(46, i - 45) + Term(v, 45, 4) = Part(46, i + 1 - 45)
      BY <3>1, <3>3
    <3> QED
      BY <3>4, <3>5, <3>6
  <2>5. i' - 17 = i + 1 - 17 /\ i' - 21 = i + 1 - 21 /\ i' - 45 = i + 1 - 45 /\ i' - 27 = i + 1 - 27
    BY <1>1, <1>5
  <2>6. /\ width' = Part(18, i' - 17) /\ height' = Part(22, i' - 21) /\ offset' = Part(46, i' - 45)
    BY <1>4, <2>3, <2>4, <2>5, Zenon
  <2>7. BitsPart(i - 27) + Term(v, 27, 2) = BitsPart(i + 1 - 27)
    <3>1. HeaderByte(28) \in Nat /\ HeaderByte(29) \in Nat
      BY BmpTyped, Numbers
    <3>2. (i = 27 => v = HeaderByte(28)) /\ (i = 28 => v = HeaderByte(29))
      BY <2>2
    <3>3. ByteSpace * HeaderByte(29) \in Nat
      BY <3>1, Numbers
    <3> QED
      BY <1>1, <1>9, <3>1, <3>2, <3>3, Numbers DEF BitsPart
  <2> QED
    BY <1>4, <2>3, <2>5, <2>6, <2>7, Zenon
<1>11. i' <= 27 => bits' = 0
  BY <1>1, <1>2, <1>4, <1>5, <1>9 DEF HeaderRead
<1>12. i' = 28 => bits' < ByteSpace /\ (bits' = 24 => fails' = 0 \/ fails' > 2)
  <2> SUFFICES ASSUME i' = 28
               PROVE  bits' < ByteSpace /\ (bits' = 24 => fails' = 0 \/ fails' > 2)
    OBVIOUS
  <2>1. i = 27 /\ bits = 0 /\ bits' = v
    BY <1>1, <1>2, <1>4, <1>3, <1>5, <1>9 DEF HeaderRead
  <2>2. ASSUME bits' = 24 PROVE fails' = 0 \/ fails' > 2
    <3>1. lost = 0 /\ HeaderByte(byte) = 24
      BY <1>2, <1>4, <2>1, <2>2, Numbers
    <3>2. byte + fails = 28 /\ fails' = fails
      BY <1>1, <1>2, <1>4, <2>1, <3>1
    <3> QED
      BY <1>1, <3>1, <3>2, LowByte
  <2> QED
    BY <1>3, <2>1, <2>2, Numbers
<1>13. ASSUME i' > 28, bits' = 24, fails' <= 3 PROVE Fits'
  <2>1. CASE i > 28
    <3>1. width' = width /\ height' = height /\ bits' = bits /\ fails <= 3
      <4>1. Term(v, 17, 4) = 0 /\ Term(v, 21, 4) = 0 /\ Term(v, 27, 2) = 0
        BY <1>1, <2>1 DEF Term
      <4> QED
        BY <1>1, <1>2, <1>4, <1>13, <4>1
    <3>2. Fits
      BY <1>1, <1>13, <2>1, <3>1 DEF HeaderRead
    <3> QED
      BY <1>1, <3>1, <3>2 DEF Fits, W, H
  <2>2. CASE i = 28
    <3>1. bits \in Nat /\ bits < ByteSpace /\ (bits = 24 => fails = 0 \/ fails > 2)
      BY <1>1, <2>2 DEF HeaderRead
    <3>2. bits + ByteSpace * v = 24
      BY <1>2, <1>4, <1>9, <1>13, <2>2
    <3>3. v = 0 /\ bits = 24
      <4>1. ASSUME v >= 1 PROVE FALSE
        <5>1. ByteSpace * v >= ByteSpace
          BY <1>3, <4>1, Numbers
        <5>2. ByteSpace * v \in Nat
          BY <1>3, Numbers
        <5> QED
          BY <3>1, <3>2, <5>1, <5>2, Numbers
      <4>2. v = 0
        BY <1>3, <4>1, Numbers
      <4> QED
        BY <3>1, <3>2, <4>2, Numbers
    <3>4. lost = 0 /\ HeaderByte(byte) = 0 /\ fails' = fails
      BY <1>1, <1>2, <1>4, <3>3, Numbers
    <3>5. fails = 0 /\ bmp.length > 29
      BY <1>1, <1>13, <2>2, <3>1, <3>3, <3>4, HighByte, Numbers
    <3>6. width' = Part(18, 12) /\ height' = Part(22, 8) /\ bits' = BitsPart(2)
      BY <1>5, <1>10, <2>2, <3>4, <3>5
    <3>7. Part(18, 12) = Four(bmp.header, 18) /\ Part(22, 8) = Four(bmp.header, 22)
      BY <3>5, PartWhole, BmpTyped
    <3>8. BitsPart(2) = BitCount(bmp)
      BY <3>5, BmpTyped DEF BitsPart, BitCount, HeaderByte
    <3> QED
      BY <1>1, <1>13, <3>6, <3>7, <3>8 DEF Fits, W, H, Width, Height
  <2> QED
    BY <1>1, <1>5, <1>13, <2>1, <2>2
<1>14. /\ \A q, n : Part(q, n)' = Part(q, n)
       /\ \A n : BitsPart(n)' = BitsPart(n)
  BY <1>1 DEF Part, BitsPart, HeaderByte
<1> QED
  <2>1. fails' = 0 => /\ width' = Part(18, i - 17)' /\ height' = Part(22, i - 21)'
                      /\ offset' = Part(46, i - 45)' /\ bits' = BitsPart(i - 27)'
    BY <1>1, <1>10 DEF Part, BitsPart, HeaderByte
  <2>2. i' \in 1..53
    BY <1>1, <1>5
  <2> QED
    BY <1>5, <1>6, <1>8, <1>11, <1>12, <1>13, <2>1, <2>2 DEF HeaderRead

-----------------------------------------------------------------------------
(* The picture *)

LEMMA ModSmall ==
  ASSUME NEW a \in Nat, NEW m \in Nat, a < m
  PROVE  a % m = a
OBVIOUS

\* The bytes of a pixel, of the next one, and of the next row.
LEMMA Offsets ==
  ASSUME bmp \in Bmp, NEW r \in Int, NEW x \in Int
  PROVE  /\ Offset(r, x) \in Int
         /\ Offset(r, x + 1) = Offset(r, x) + 3
         /\ Offset(H - 1, 0) = 54 + 4 * Colours(bmp)
         /\ (3 * W) % 4 = 0 => Offset(r - 1, 0) = Offset(r, W)
<1> DEFINE S == 4 * ((3 * W + 3) \div 4)
           B == 54 + 4 * Colours(bmp)
<1>1. W \in Nat /\ H \in Nat /\ Colours(bmp) \in Nat
  BY BmpTyped
<1>2. \A q, y : Offset(q, y) = B + (H - 1 - q) * S + 3 * y
  BY DEF Offset, W, H
<1>3. (3 * W) % 4 = 0 => S = 3 * W
  BY <1>1, NoFilling
<1>4. S \in Int /\ B \in Int
  BY <1>1
<1> HIDE DEF S, B
<1>5. (H - 1 - r) * S \in Int
  BY <1>1, <1>4
<1>6. Offset(r, x) \in Int /\ Offset(r, x + 1) = Offset(r, x) + 3
  BY <1>2, <1>4, <1>5
<1>7. Offset(H - 1, 0) = B
  <2>1. H - 1 - (H - 1) = 0 /\ 0 * S = 0
    BY <1>1, <1>4
  <2> QED
    BY <1>2, <1>4, <2>1
<1>8. ASSUME (3 * W) % 4 = 0 PROVE Offset(r - 1, 0) = Offset(r, W)
  <2>1. (H - 1 - (r - 1)) * S = (H - 1 - r) * S + S
    BY <1>1, <1>4, NextRow
  <2>2. Offset(r - 1, 0) = B + ((H - 1 - r) * S + S) + 3 * 0
    BY <1>2, <2>1
  <2>3. Offset(r, W) = B + (H - 1 - r) * S + 3 * W
    BY <1>2
  <2> QED
    BY <1>1, <1>3, <1>4, <1>5, <1>8, <2>2, <2>3
<1> QED
  BY <1>6, <1>7, <1>8 DEF B

\* The loops have written the rows above i, and row i up to column j.
Done(r, x) == r > i \/ (at = "pixels" /\ r = i /\ x < j)

Plain == (3 * W) % 4 = 0 /\ bmp.length >= 54

\* Where the loops are, if they have the picture's own format: the stream
\* stands at the bytes of the next pixel until a read fails.
Standing ==
  /\ at = "rows" => i \in -1..(H - 1)
  /\ at = "pixels" => i \in 0..(H - 1) /\ j \in 0..W
  /\ at = "close" => i = -1
  /\ \A a \in DOMAIN fb : a < W * H
  /\ Plain /\ fails = 0 => /\ at = "rows" => byte = Offset(i, 0)
                           /\ at = "pixels" => byte = Offset(i, j)
  /\ Plain => \A r \in 0..(H - 1), x \in 0..(W - 1) :
                /\ WordAt(r, x) \in good => Done(r, x) /\ fb[WordAt(r, x)] = Pixel(r, x)
                /\ fails = 0 /\ Done(r, x) => WordAt(r, x) \in good

PictureRead ==
  at \in {"rows", "pixels", "close"} =>
    /\ byte \in Nat /\ fails \in Nat /\ shift \in Nat /\ shift <= fails
    /\ at # "close" => bits = 24
    /\ bits # 24 => fb = << >> /\ good = {}
    /\ fails = 0 /\ bmp.length >= 54 => bits = BitCount(bmp)
    /\ shift > 0 => good = {}
    /\ good \subseteq DOMAIN fb
    /\ shift <= 3 /\ bits = 24 => Fits /\ Standing

\* Before the loops nothing is written, and the header is read from the start.
Started ==
  /\ at \in Loading => bmp \in Bmp
  /\ at \notin {"rows", "pixels", "close"} => fb = << >> /\ good = {}
  /\ at \in {"idle", "magic"} => /\ byte = 0 /\ fails = 0 /\ shift = 0
                                 /\ width = 0 /\ height = 0 /\ bits = 0 /\ offset = 0

LEMMA TableInv ==
  ASSUME bmp \in Bmp, Started, HeaderRead, LoadTable
  PROVE  PictureRead'
<1>1. /\ at = "table" /\ bmp' = bmp /\ i = 53 /\ shift' = shift /\ shift = fails
      /\ byte \in Nat /\ fails \in Nat /\ byte + fails = 54
      /\ UNCHANGED <<width, height, bits, offset, fb, good, j>>
      /\ height \in Nat /\ offset \in Nat /\ bits \in Nat
      /\ fb = << >> /\ good = {}
  BY DEF LoadTable, HeaderRead, Started, header
<1>2. PICK lost \in 0..(MaxFails - fails) :
        lost <= TableBytes /\ fails' = fails + lost /\ byte' = byte + TableBytes - lost
  BY DEF LoadTable
<1>3. Dword \in Nat /\ Dword > 0 /\ TableBytes \in Nat
  <2>1. Dword \in Nat /\ Dword > 0
    BY BmpTyped, Numbers
  <2>2. 4 * offset \in Nat
    BY <1>1
  <2> QED
    BY <2>1, <2>2 DEF TableBytes
<1>4. byte' \in Nat /\ fails' \in Nat /\ shift' \in Nat /\ shift' <= fails'
  BY <1>1, <1>2, <1>3, Numbers
<1>5. ASSUME fails' = 0, bmp.length >= 54
      PROVE  bits = BitCount(bmp) /\ byte' = 54 + 4 * Colours(bmp)
  <2>1. fails = 0 /\ lost = 0 /\ byte = 54
    BY <1>1, <1>2, <1>5, Numbers
  <2>2. offset = Part(46, 8) /\ bits = BitsPart(26)
    BY <1>1, <2>1 DEF HeaderRead
  <2>3. offset = Colours(bmp)
    BY <1>5, <2>2, PartWhole, BmpTyped DEF Colours
  <2>4. bits = BitCount(bmp)
    BY <1>5, <2>2, BmpTyped DEF BitsPart, BitCount, HeaderByte
  <2>5. TableBytes = 4 * Colours(bmp)
    <3>1. 4 * Colours(bmp) \in Nat /\ 4 * Colours(bmp) < Dword
      BY BmpTyped
    <3>2. (4 * Colours(bmp)) % Dword = 4 * Colours(bmp)
      BY <1>3, <3>1, ModSmall
    <3> QED
      BY <2>3, <3>2 DEF TableBytes
  <2> QED
    BY <1>1, <1>2, <2>1, <2>4, <2>5, BmpTyped
<1>6. /\ at' \in {"rows", "close"} /\ (at' = "rows" <=> bits = 24)
      /\ bits = 24 => i' = Signed((height - 1) % Dword)
  BY DEF LoadTable
<1>7. ASSUME shift <= 3, bits = 24 PROVE Fits' /\ Standing'
  <2>1. Fits
    BY <1>1, <1>7 DEF HeaderRead
  <2>2. Fits'
    BY <1>1, <2>1 DEF Fits, W, H
  <2>3. i' = H - 1 /\ H \in Nat /\ at' = "rows"
    <3>1. H \in Nat \ {0} /\ H - 1 < Dword \div 2 /\ height = H
      BY <2>1, BmpTyped DEF Fits
    <3>2. (height - 1) % Dword = H - 1
      BY <1>3, <3>1, ModSmall
    <3> QED
      BY <1>6, <1>7, <3>1, <3>2 DEF Signed
  <2>4. ASSUME Plain, fails' = 0 PROVE byte' = Offset(i', 0)
    <3>1. byte' = 54 + 4 * Colours(bmp)
      BY <1>5, <2>4 DEF Plain
    <3> QED
      BY <2>3, <3>1, Offsets
  <2>5. \A r \in 0..(H - 1) : \A x : ~Done(r, x)'
    BY <2>3 DEF Done
  <2>6. W' = W /\ H' = H /\ Plain' = Plain /\ Offset(i, 0)' = Offset(i', 0)
    BY <1>1 DEF W, H, Plain, Offset
  <2>7. i' \in -1..(H - 1)
    BY <2>3
  <2> QED
    BY <1>1, <2>2, <2>3, <2>4, <2>5, <2>6, <2>7 DEF Standing
<1> QED
  BY <1>1, <1>4, <1>5, <1>6, <1>7 DEF PictureRead

\* A row begins or ends.
LEMMA RowInv ==
  ASSUME bmp \in Bmp, PictureRead, LoadRow \/ LoadRowEnd
  PROVE  PictureRead'
<1>1. /\ at \in {"rows", "pixels"} /\ at' \in {"rows", "pixels", "close"}
      /\ UNCHANGED <<bmp, byte, fails, shift, width, height, bits, offset, fb, good>>
      /\ bits = 24
  BY DEF LoadRow, LoadRowEnd, PictureRead, header
<1>2. /\ byte \in Nat /\ fails \in Nat /\ shift \in Nat /\ shift <= fails
      /\ fails = 0 /\ bmp.length >= 54 => bits = BitCount(bmp)
      /\ shift > 0 => good = {}
      /\ good \subseteq DOMAIN fb
      /\ shift <= 3 => Fits /\ Standing
  BY <1>1 DEF PictureRead
<1>3. W' = W /\ H' = H /\ Plain' = Plain /\ BitCount(bmp)' = BitCount(bmp) /\ (Fits => Fits')
      /\ \A r, x : /\ Offset(r, x)' = Offset(r, x) /\ Pixel(r, x)' = Pixel(r, x)
                   /\ WordAt(r, x)' = WordAt(r, x)
  BY <1>1 DEF W, H, Plain, Fits, Offset, Pixel, Fgetc, WordAt
<1>4. ASSUME shift <= 3 PROVE Standing'
  <2>1. Standing /\ width = W /\ W \in Nat /\ H \in Nat
    BY <1>2, <1>4, BmpTyped DEF Fits
  <2>2. /\ at' = "rows" => i' \in -1..(H - 1)
        /\ at' = "pixels" => i' \in 0..(H - 1) /\ j' \in 0..W
        /\ at' = "close" => i' = -1
        /\ \A r \in 0..(H - 1), x \in 0..(W - 1) : Done(r, x)' <=> Done(r, x)
    <3>1. CASE LoadRow
      <4>1. /\ at = "rows" /\ i' = i /\ i \in -1..(H - 1)
            /\ \/ i >= 0 /\ at' = "pixels" /\ j' = 0
               \/ ~(i >= 0) /\ at' = "close"
        BY <2>1, <3>1 DEF LoadRow, Standing
      <4> QED
        BY <2>1, <4>1 DEF Done
    <3>2. CASE LoadRowEnd
      <4>1. at = "pixels" /\ j >= W /\ at' = "rows" /\ i' = i - 1 /\ i \in 0..(H - 1) /\ j \in 0..W
        BY <2>1, <3>2 DEF LoadRowEnd, Standing
      <4>2. \A r \in 0..(H - 1), x \in 0..(W - 1) : Done(r, x)' <=> Done(r, x)
        BY <2>1, <4>1 DEF Done
      <4>3. i' \in -1..(H - 1)
        BY <2>1, <4>1
      <4> QED
        BY <4>1, <4>2, <4>3
    <3> QED
      BY <3>1, <3>2
  <2>3. ASSUME Plain, fails = 0
        PROVE  (at' = "rows" => byte = Offset(i', 0)) /\ (at' = "pixels" => byte = Offset(i', j'))
    <3>1. CASE LoadRow
      <4>1. at = "rows" /\ i' = i /\ at' # "rows" /\ (at' = "pixels" => j' = 0)
        BY <3>1 DEF LoadRow
      <4> QED
        BY <2>1, <2>3, <4>1 DEF Standing
    <3>2. CASE LoadRowEnd
      <4>1. at = "pixels" /\ j >= W /\ at' = "rows" /\ i' = i - 1 /\ i \in Int /\ j \in 0..W
        BY <2>1, <3>2 DEF LoadRowEnd, Standing
      <4>2. j = W /\ byte = Offset(i, j)
        BY <2>1, <2>3, <4>1 DEF Standing
      <4>3. Offset(i - 1, 0) = Offset(i, W)
        BY <2>3, <4>1, Offsets DEF Plain
      <4> QED
        BY <4>1, <4>2, <4>3
    <3> QED
      BY <3>1, <3>2
  <2>4. Offset(i, 0)' = Offset(i', 0) /\ Offset(i, j)' = Offset(i', j')
    BY <1>1 DEF Offset
  <2>5. Plain => \A r \in 0..(H - 1), x \in 0..(W - 1) :
                   /\ WordAt(r, x) \in good => Done(r, x)' /\ fb[WordAt(r, x)] = Pixel(r, x)
                   /\ fails = 0 /\ Done(r, x)' => WordAt(r, x) \in good
    BY <2>1, <2>2 DEF Standing
  <2>6. \A a \in DOMAIN fb : a < W * H
    BY <2>1 DEF Standing
  <2> QED
    BY <1>1, <1>3, <2>2, <2>3, <2>4, <2>5, <2>6 DEF Standing
<1> QED
  BY <1>1, <1>2, <1>3, <1>4 DEF PictureRead

\* One pixel: its word is no other's, so that what was written stays.
LEMMA PixelInv ==
  ASSUME bmp \in Bmp, PictureRead, LoadPixel
  PROVE  PictureRead'
<1>1. /\ at = "pixels" /\ at' = "pixels" /\ j < width /\ j' = j + 1 /\ bits = 24
      /\ UNCHANGED <<bmp, shift, i, width, height, bits, offset>>
      /\ byte \in Nat /\ fails \in Nat /\ shift \in Nat /\ shift <= fails
      /\ fails = 0 /\ bmp.length >= 54 => bits = BitCount(bmp)
      /\ shift > 0 => good = {}
      /\ good \subseteq DOMAIN fb
      /\ shift <= 3 => Fits /\ Standing
  BY DEF LoadPixel, PictureRead, header
<1> DEFINE New == Address
           Bytes == <<Fgetc(byte + 2), Fgetc(byte + 2), Fgetc(byte + 1), Fgetc(byte)>>
<1>2. /\ fails' \in Nat /\ fails <= fails' /\ byte' \in Nat
      /\ DOMAIN fb' = DOMAIN fb \union {New}
      /\ \A a \in DOMAIN fb : a # New => fb'[a] = fb[a]
      /\ good' = (IF fails' = 0 THEN good \union {New} ELSE good)
      /\ fails' = 0 => byte' = byte + 3 /\ fb'[New] = Bytes
  <2>1. PICK lostB \in {0, 1}, lostG \in {0, 1}, lostR \in {0, 1} :
          LET B == IF lostB = 1 THEN EOF ELSE Fgetc(byte)
              G == IF lostG = 1 THEN EOF ELSE Fgetc(byte + 1 - lostB)
              R == IF lostR = 1 THEN EOF ELSE Fgetc(byte + 2 - lostB - lostG)
              lost == lostB + lostG + lostR
          IN /\ fails + lost <= MaxFails /\ fails' = fails + lost /\ byte' = byte + 3 - lost
             /\ fb' = [a \in DOMAIN fb \union {Address} |->
                         IF a = Address THEN <<R, R, G, B>> ELSE fb[a]]
             /\ good' = IF fails' = 0 THEN good \union {Address} ELSE good
    BY DEF LoadPixel
  <2> DEFINE B == IF lostB = 1 THEN EOF ELSE Fgetc(byte)
             G == IF lostG = 1 THEN EOF ELSE Fgetc(byte + 1 - lostB)
             R == IF lostR = 1 THEN EOF ELSE Fgetc(byte + 2 - lostB - lostG)
  <2>2. /\ fails' = fails + (lostB + lostG + lostR) /\ byte' = byte + 3 - (lostB + lostG + lostR)
        /\ good' = (IF fails' = 0 THEN good \union {New} ELSE good)
    BY <2>1
  <2>3. fb' = [a \in DOMAIN fb \union {New} |-> IF a = New THEN <<R, R, G, B>> ELSE fb[a]]
    BY <2>1
  <2>4. fails' = 0 => <<R, R, G, B>> = Bytes /\ byte' = byte + 3
    <3>1. fails' = 0 => lostB = 0 /\ lostG = 0 /\ lostR = 0
      BY <1>1, <2>2
    <3>2. byte + 1 - 0 = byte + 1 /\ byte + 2 - 0 - 0 = byte + 2
      BY <1>1
    <3> QED
      BY <1>1, <2>2, <3>1, <3>2
  <2>5. fails' \in Nat /\ fails <= fails' /\ byte' \in Nat
    BY <1>1, <2>2
  <2> HIDE DEF R, G, B, Bytes, New
  <2>6. /\ DOMAIN fb' = DOMAIN fb \union {New} /\ fb'[New] = <<R, R, G, B>>
        /\ \A a \in DOMAIN fb : a # New => fb'[a] = fb[a]
    BY <2>3
  <2> QED
    BY <2>2, <2>4, <2>5, <2>6
<1>3. good' \subseteq DOMAIN fb' /\ (shift > 0 => good' = {})
  BY <1>1, <1>2
<1>4. W' = W /\ H' = H /\ Plain' = Plain /\ BitCount(bmp)' = BitCount(bmp) /\ (Fits => Fits')
      /\ \A r, x : /\ Offset(r, x)' = Offset(r, x) /\ Pixel(r, x)' = Pixel(r, x)
                   /\ WordAt(r, x)' = WordAt(r, x)
  BY <1>1 DEF W, H, Plain, Fits, Offset, Pixel, Fgetc, WordAt
<1>5. ASSUME shift <= 3 PROVE Standing'
  <2>1. /\ Standing /\ width = W /\ W \in Nat /\ H \in Nat
        /\ i \in 0..(H - 1) /\ j \in 0..(W - 1)
    BY <1>1, <1>5, BmpTyped DEF Fits, Standing
  <2>2. New = WordAt(i, j) /\ New < W * H
    <3>1. i * W + j \in Nat /\ i * W + j < W * H
      BY <2>1, WordInPicture
    <3>2. W * H <= Dword \div 4 /\ W * H \in Nat /\ Dword \div 4 \in Nat
      BY <2>1, BmpTyped, Numbers
    <3>3. i * W + j < Dword \div 4
      BY <3>1, <3>2
    <3>4. (i * W + j) % (Dword \div 4) = i * W + j
      BY <3>1, <3>2, <3>3, ModSmall
    <3> QED
      BY <2>1, <3>1, <3>4 DEF Address, WordAt, W
  <2>3. i' \in 0..(H - 1) /\ j' \in 0..W
    BY <1>1, <2>1
  <2>4. \A a \in DOMAIN fb' : a < W * H
    BY <1>2, <2>1, <2>2 DEF Standing
  <2>5. ASSUME Plain, fails' = 0
        PROVE  byte' = Offset(i', j') /\ Bytes = Pixel(i, j)
    <3>1. byte = Offset(i, j) /\ byte' = byte + 3
      BY <1>1, <1>2, <2>1, <2>5 DEF Standing
    <3>2. Offset(i, j + 1) = Offset(i, j) + 3
      BY <2>1, Offsets
    <3> QED
      BY <1>1, <3>1, <3>2 DEF Pixel
  <2>6. ASSUME Plain, NEW r \in 0..(H - 1), NEW x \in 0..(W - 1)
        PROVE  /\ WordAt(r, x) \in good' => Done(r, x)' /\ fb'[WordAt(r, x)] = Pixel(r, x)
               /\ fails' = 0 /\ Done(r, x)' => WordAt(r, x) \in good'
    <3>1. CASE r = i /\ x = j
      <4>1. Done(r, x)' /\ ~Done(r, x) /\ WordAt(r, x) = New
        BY <1>1, <2>1, <2>2, <3>1 DEF Done
      <4>2. WordAt(r, x) \notin good
        BY <2>1, <2>6, <4>1 DEF Standing
      <4> QED
        BY <1>2, <2>5, <2>6, <3>1, <4>1, <4>2
    <3>2. CASE ~(r = i /\ x = j)
      <4>1. WordAt(r, x) # New
        <5>1. r \in Nat /\ i \in Nat
          BY <2>1
        <5>2. r * W + x # i * W + j
          BY <2>1, <3>2, <5>1, WordOfPixel
        <5> QED
          BY <2>2, <5>2 DEF WordAt, W
      <4>2. Done(r, x)' <=> Done(r, x)
        BY <1>1, <2>1, <3>2 DEF Done
      <4>3. WordAt(r, x) \in good' <=> WordAt(r, x) \in good
        BY <1>2, <4>1
      <4>4. WordAt(r, x) \in good => fb'[WordAt(r, x)] = fb[WordAt(r, x)]
        BY <1>1, <1>2, <4>1
      <4>5. /\ WordAt(r, x) \in good => Done(r, x) /\ fb[WordAt(r, x)] = Pixel(r, x)
            /\ fails = 0 /\ Done(r, x) => WordAt(r, x) \in good
        BY <2>1, <2>6 DEF Standing
      <4>6. fails' = 0 => fails = 0
        BY <1>1, <1>2
      <4> QED
        BY <4>2, <4>3, <4>4, <4>5, <4>6
    <3> QED
      BY <3>1, <3>2
  <2>7. Offset(i, j)' = Offset(i', j')
    BY <1>1 DEF Offset
  <2> QED
    BY <1>1, <1>4, <2>3, <2>4, <2>5, <2>6, <2>7 DEF Standing
<1> QED
  BY <1>1, <1>2, <1>3, <1>4, <1>5 DEF PictureRead

LoadInv == Started /\ HeaderRead /\ PictureRead

LEMMA LoadInvStep ==
  ASSUME LoadInv, [LoadNext]_<<vars, load>>
  PROVE  LoadInv'
<1> USE DEF Loading, Reading
<1>1. CASE UNCHANGED load
  <2>1. /\ UNCHANGED <<at, bmp, byte, fails, shift, i, j, width, height, bits, offset, fb, good>>
    BY <1>1 DEF load, header
  <2>2. Started' /\ HeaderRead'
    BY <2>1 DEF LoadInv, Started, HeaderRead, Part, BitsPart, HeaderByte, Fits, W, H
  <2>3. W' = W /\ H' = H /\ Plain' = Plain /\ BitCount(bmp)' = BitCount(bmp) /\ Fits' = Fits
        /\ \A r, x : /\ Offset(r, x)' = Offset(r, x) /\ Pixel(r, x)' = Pixel(r, x)
                     /\ WordAt(r, x)' = WordAt(r, x) /\ Done(r, x)' = Done(r, x)
    BY <2>1 DEF W, H, Plain, Fits, Offset, Pixel, Fgetc, WordAt, Done
  <2>4. Offset(i, 0)' = Offset(i, 0) /\ Offset(i, j)' = Offset(i, j)
    BY <2>1 DEF Offset
  <2>5. Standing' <=> Standing
    BY <2>1, <2>3, <2>4 DEF Standing
  <2> QED
    BY <2>1, <2>2, <2>3, <2>5 DEF LoadInv, PictureRead
<1>2. CASE LoadOpen
  <2>1. /\ at = "idle" /\ at' \in {"magic", "exit"} /\ bmp' \in Bmp
        /\ UNCHANGED <<byte, fails, shift, i, j, width, height, bits, offset, fb, good>>
    BY <1>2 DEF LoadOpen, header
  <2> QED
    BY <2>1 DEF LoadInv, Started, HeaderRead, PictureRead
<1>3. CASE LoadMagic
  <2>1. /\ at = "magic" /\ bmp' = bmp /\ bmp \in Bmp
        /\ UNCHANGED <<fails, shift, j, width, height, bits, offset, fb, good>>
        /\ fb = << >> /\ good = {} /\ fails = 0 /\ shift = 0
        /\ width = 0 /\ height = 0 /\ bits = 0 /\ offset = 0
        /\ (at' = "header" /\ byte' = 2 /\ i' = 1) \/ at' = "exit"
    BY <1>3 DEF LoadMagic, LoadInv, Started, header
  <2>2. Started' /\ PictureRead'
    BY <2>1 DEF Started, PictureRead
  <2>3. at' = "header" =>
          /\ Part(18, i - 17)' = 0 /\ Part(22, i - 21)' = 0 /\ Part(46, i - 45)' = 0
          /\ BitsPart(i - 27)' = 0
    BY <2>1 DEF Part, BitsPart
  <2>4. HeaderRead'
    BY <2>1, <2>3 DEF HeaderRead
  <2> QED
    BY <2>2, <2>4 DEF LoadInv
<1>4. CASE LoadHeader
  <2>1. /\ at = "header" /\ at' \in {"header", "table"} /\ bmp' = bmp /\ bmp \in Bmp
        /\ fb' = fb /\ good' = good
    BY <1>4 DEF LoadHeader, LoadInv, Started
  <2>2. HeaderRead'
    BY <1>4, <2>1, HeaderInv DEF LoadInv
  <2> QED
    BY <2>1, <2>2 DEF LoadInv, Started, PictureRead
<1>5. CASE LoadTable
  <2>1. at = "table" /\ at' \in {"rows", "close"} /\ bmp' = bmp /\ bmp \in Bmp
    BY <1>5 DEF LoadTable, LoadInv, Started
  <2>2. PictureRead'
    BY <1>5, <2>1, TableInv DEF LoadInv
  <2> QED
    BY <2>1, <2>2 DEF LoadInv, Started, HeaderRead
<1>6. CASE LoadRow \/ LoadRowEnd \/ LoadPixel
  <2>1. /\ at \in {"rows", "pixels"} /\ at' \in {"rows", "pixels", "close"}
        /\ bmp' = bmp /\ bmp \in Bmp
    BY <1>6 DEF LoadRow, LoadRowEnd, LoadPixel, LoadInv, Started
  <2>2. PictureRead'
    BY <1>6, <2>1, RowInv, PixelInv DEF LoadInv
  <2> QED
    BY <2>1, <2>2 DEF LoadInv, Started, HeaderRead
<1>7. CASE LoadClose
  <2>1. /\ at' = "idle" /\ byte' = 0 /\ fails' = 0 /\ shift' = 0 /\ fb' = << >> /\ good' = {}
        /\ width' = 0 /\ height' = 0 /\ bits' = 0 /\ offset' = 0
    BY <1>7 DEF LoadClose
  <2> QED
    BY <2>1 DEF LoadInv, Started, HeaderRead, PictureRead
<1>8. CASE UNCHANGED <<vars, load>> \/ LoadRefill \/ LoadExit
  BY <1>1, <1>8 DEF LoadRefill, LoadExit
<1> QED
  BY <1>1, <1>2, <1>3, <1>4, <1>5, <1>6, <1>7, <1>8 DEF LoadNext

\* For a bitmap of any size, cut off anywhere, and any reads that fail: nothing
\* is written outside the picture unless four or more reads fail within the
\* header, and a picture without filling stands upright, each pixel from its
\* own bytes, up to the first read that fails.
THEOREM PictureRight == LoadSpec => []PictureStored
<1>1. LoadInit => LoadInv
  BY DEF LoadInit, Rest, LoadInv, Started, HeaderRead, PictureRead, Loading, Reading
<1>2. LoadInv /\ [LoadNext]_<<vars, load>> => LoadInv'
  BY LoadInvStep
<1>3. ASSUME LoadInv PROVE PictureStored
  <2> SUFFICES ASSUME at \in Loading PROVE NothingOutside /\ Upright
    BY DEF PictureStored, Loading
  <2>1. bmp \in Bmp /\ W \in Nat /\ H \in Nat
    BY <1>3, BmpTyped DEF LoadInv, Started
  <2>2. CASE at \notin {"rows", "pixels", "close"}
    <3>1. fb = << >> /\ good = {}
      BY <1>3, <2>2 DEF LoadInv, Started
    <3> QED
      BY <2>2, <3>1 DEF NothingOutside, Upright, Written
  <2>3. CASE at \in {"rows", "pixels", "close"}
    <3>1. NothingOutside
      <4>1. bits # 24 => fb = << >>
        BY <1>3, <2>3 DEF LoadInv, PictureRead
      <4>2. shift <= 3 /\ bits = 24 => Fits /\ \A a \in DOMAIN fb : a < W * H
        BY <1>3, <2>3 DEF LoadInv, PictureRead, Standing
      <4> QED
        BY <4>1, <4>2 DEF NothingOutside, Written, Fits, W, H
    <3>2. Upright
      <4> SUFFICES ASSUME Plain, NEW r \in 0..(H - 1), NEW x \in 0..(W - 1)
                   PROVE  /\ WordAt(r, x) \in good => fb[WordAt(r, x)] = Pixel(r, x)
                          /\ at = "close" /\ fails = 0 /\ BitCount(bmp) = 24 => WordAt(r, x) \in good
        BY DEF Upright, Plain, W, H
      <4>1. /\ fails \in Nat /\ shift \in Nat /\ shift <= fails
            /\ bits # 24 => good = {}
            /\ fails = 0 => bits = BitCount(bmp)
            /\ shift > 0 => good = {}
            /\ shift <= 3 /\ bits = 24 => Standing
        BY <1>3, <2>3 DEF LoadInv, PictureRead, Plain
      <4>2. ASSUME WordAt(r, x) \in good PROVE fb[WordAt(r, x)] = Pixel(r, x)
        BY <4>1, <4>2 DEF Standing
      <4>3. ASSUME at = "close", fails = 0, BitCount(bmp) = 24 PROVE WordAt(r, x) \in good
        <5>1. Standing
          BY <4>1, <4>3
        <5>2. Done(r, x)
          BY <2>1, <4>3, <5>1 DEF Standing, Done
        <5> QED
          BY <4>3, <5>1, <5>2 DEF Standing
      <4> QED
        BY <4>2, <4>3
    <3> QED
      BY <3>1, <3>2
  <2> QED
    BY <2>2, <2>3
<1> QED
  BY <1>1, <1>2, <1>3, PTL DEF LoadSpec
=============================================================================
