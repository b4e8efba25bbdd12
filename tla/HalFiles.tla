------------------------------ MODULE HalFiles ------------------------------
(***************************************************************************)
(* The descriptor table of the HAL (alt_fd_list, HAL/src/alt_*.c) between  *)
(* a program that makes file calls and the drivers behind it: /dev/null,   *)
(* the console (the JTAG UART) and the host file system, which passes each *)
(* call to a file handle of the debugging host (altera_hostfs.c).  The     *)
(* program is sequential and the table has no lock in this build (ALT_SEM  *)
(* is empty), so a call is one step.  The program uses no descriptor that  *)
(* it has closed: the HAL would follow a null device pointer then.         *)
(***************************************************************************)
EXTENDS Integers, FiniteSets

CONSTANTS MaxFd,   \* ALT_MAX_FD
          File,    \* names below the mount point of the host file system
          Nowhere, \* a name that is neither a device nor below a mount point
          Handle,  \* the host's file handles
          Mode,    \* the flags programs open with, each a set of flags
          MaxPos,  \* bound: how far a file is read, written and moved over
          NoDev,   \* the null device pointer
          NoFile   \* behind a handle that is free

ASSUME FdAssumption == MaxFd \in Nat /\ MaxFd > 3
ASSUME NameAssumption ==
  /\ NoDev \notin {"null", "uart", "host"}
  /\ NoFile \notin File
  /\ File \intersect {"null", "uart", NoDev} = {}
  /\ Nowhere \notin File \union {"null", "uart"}
ASSUME ModeAssumption == Mode \subseteq SUBSET {"WRONLY", "RDWR", "NONBLOCK", "APPEND"}
ASSUME PosAssumption == MaxPos \in Nat

VARIABLES fds,   \* alt_fd_list
          max,   \* alt_max_fd
          reg,   \* the devices and file systems on alt_dev_list and alt_fs_list
          stage, \* how far alt_main has got
          held,  \* the program's view: file, access mode and position of each
          host   \* the file and the position behind each handle of the host

vars == <<fds, max, reg, stage, held, host>>
table == <<fds, max, host>>

Fd == 0..(MaxFd - 1)
Std == 0..2
Dev == {"null", "uart", "host"}
Flag == {"WRONLY", "RDWR", "NONBLOCK", "APPEND", "EXCL", "DEV"}
FlagsMask == {"EXCL", "DEV"}
FcntlMaskWide == Flag \ FlagsMask
FcntlMask == {"APPEND", "NONBLOCK"}

\* The functions each driver gives the HAL.
Driver == [null |-> {"write"},
           uart |-> {"close", "read", "write", "ioctl"},
           host |-> {"open", "close", "read", "write", "lseek", "fstat"}]

Access == {"WRONLY", "RDWR"}
Free == [file |-> NoFile, pos |-> 0]

Init ==
  /\ fds = [i \in Fd |-> [dev |-> IF i \in Std THEN "null" ELSE NoDev,
                          priv |-> 0, flags |-> {}]]
  /\ max = -1
  /\ reg = {"null"}
  /\ stage = "sys_init"
  /\ held = << >>
  /\ host = [h \in Handle |-> Free]

-----------------------------------------------------------------------------
(* Opening and closing *)

\* The devices by name, then the file systems by mount point.
FindDev(name) == name \in reg \ {"host"}
FindFile(name) == name \in File /\ "host" \in reg
Found(name) ==
  CASE FindDev(name) -> name [] ~FindDev(name) /\ FindFile(name) -> "host" [] OTHER -> NoDev

Vacant == {i \in Fd : fds[i].dev = NoDev}
Slot == CHOOSE i \in Vacant : \A j \in Vacant : i <= j
Raised == IF Slot > max THEN Slot ELSE max

\* The table once alt_get_fd has taken the slot and the flags are in it.
Taken(d, flags) ==
  [fds EXCEPT ![Slot] =
    [dev |-> d, priv |-> @.priv,
     flags |-> (flags \ FlagsMask) \union (IF d = "host" THEN {} ELSE {"DEV"})]]

\* alt_file_locked
LockedScan(t, m, i) ==
  \E j \in 0..m : j # i /\ t[j].dev = t[i].dev /\ "EXCL" \in t[j].flags

LockedScanShort(t, m, i) ==
  \E j \in 0..(m - 1) : j # i /\ t[j].dev = t[i].dev /\ "EXCL" \in t[j].flags

AltFileLocked(t, m, i) == LockedScan(t, m, i)

Vacated(e) == [dev |-> NoDev, priv |-> e.priv, flags |-> {}]
ReleaseAny(t, i) == [t EXCEPT ![i] = Vacated(@)]
ReleaseFlagsKept(t, i) == IF i > 2 THEN [t EXCEPT ![i].dev = NoDev] ELSE t

AltReleaseFd(t, i) ==
  IF i > 2 THEN [t EXCEPT ![i] = Vacated(@)] ELSE t

\* alt_hostfs_open with a handle that the host gives.
HostfsOpen(t, name) ==
  {[fds |-> [t EXCEPT ![Slot].priv = h], max |-> Raised,
    host |-> [host EXCEPT ![h] = [file |-> name, pos |-> 0]], rc |-> Slot] :
     h \in {g \in Handle : host[g] = Free}}

\* What ALT_OPEN may leave and return.  It fails when there is no such device,
\* no slot, or the device is locked, or when the host refuses (or is out of
\* handles); a slot that was taken is given back.
Opened(name, flags) ==
  LET d == Found(name)
      t == Taken(d, flags)
      failed == [fds |-> AltReleaseFd(t, Slot), max |-> Raised, host |-> host, rc |-> -1]
  IN IF d = NoDev \/ Vacant = {}
     THEN {[fds |-> fds, max |-> max, host |-> host, rc |-> -1]}
     ELSE IF d = "host"
     THEN {failed} \union HostfsOpen(t, name)
     ELSE IF AltFileLocked(t, Raised, Slot) THEN {failed}
     ELSE {[fds |-> t, max |-> Raised, host |-> host, rc |-> Slot]}

\* ALT_CLOSE: the driver first, then the slot, whatever the driver says.  A
\* host that reports an error may have kept the handle.
HostfsClose(i) == UNCHANGED host \/ host' = [host EXCEPT ![fds[i].priv] = Free]
CloseFd(i) ==
  /\ IF fds[i].dev = "host" THEN HostfsClose(i) ELSE UNCHANGED host
  /\ fds' = AltReleaseFd(fds, i)
  /\ UNCHANGED max

-----------------------------------------------------------------------------
(* alt_main: the drivers, the standard descriptors, the program, its end *)

SysInit ==
  /\ stage = "sys_init"
  /\ reg' = reg \union {"uart", "host"}
  /\ stage' = "stdout"
  /\ UNCHANGED <<table, held>>

\* The program's note of an open that succeeded, and of a close.
Note(i, name, flags) ==
  held' = [j \in DOMAIN held \union {i} |->
             IF j = i THEN [file |-> name, access |-> flags \intersect Access, pos |-> 0] ELSE held[j]]
Drop(i) == held' = [j \in DOMAIN held \ ({i} \ Std) |-> held[j]]

\* alt_open_fd: the entry is copied and its own slot given back.
AltOpenFd(i, flags, next) ==
  /\ \E o \in Opened("uart", flags) :
       /\ fds' = IF o.rc >= 0 THEN AltReleaseFd([o.fds EXCEPT ![i] = o.fds[o.rc]], o.rc) ELSE o.fds
       /\ max' = o.max /\ host' = o.host
  /\ stage' = next
  /\ Note(i, "uart", flags)
  /\ UNCHANGED reg

AltIoRedirect ==
  \/ stage = "stdout" /\ AltOpenFd(1, {"WRONLY"}, "stdin")
  \/ stage = "stdin" /\ AltOpenFd(0, {}, "stderr")
  \/ stage = "stderr" /\ AltOpenFd(2, {"WRONLY"}, "main")

\* main returns: alt_main closes the standard output and exits.
MainReturns ==
  /\ stage = "main" /\ stage' = "exit"
  /\ CloseFd(1)
  /\ UNCHANGED <<reg, held>>

\* ALT_EXIT spins.
Exited == stage = "exit" /\ UNCHANGED vars

-----------------------------------------------------------------------------
(* The calls of a program *)

AltOpen(name, flags) ==
  \E o \in Opened(name, flags) :
    /\ fds' = o.fds /\ max' = o.max /\ host' = o.host
    /\ IF o.rc >= 0 THEN Note(o.rc, name, flags) ELSE UNCHANGED held
    /\ UNCHANGED <<reg, stage>>

AltClose(i) == CloseFd(i) /\ Drop(i) /\ UNCHANGED <<reg, stage>>

\* What the access mode lets through to the driver.
Readable(i) == "WRONLY" \notin fds[i].flags /\ "read" \in Driver[fds[i].dev]
Writable(i) == fds[i].flags \intersect Access # {} /\ "write" \in Driver[fds[i].dev]

\* The host moves the position of the handle, and the program keeps its own
\* count of it from what the call returns; a console or /dev/null has none.
\* An error of the driver or of the access check leaves everything as it is.
Moved(i) ==
  /\ fds[i].dev = "host" /\ held[i].pos < MaxPos
  /\ host' = [host EXCEPT ![fds[i].priv].pos = @ + 1]
  /\ held' = [held EXCEPT ![i].pos = @ + 1]
  /\ UNCHANGED <<fds, max, reg, stage>>
AltRead(i) == Readable(i) /\ Moved(i)
AltWrite(i) == Writable(i) /\ Moved(i)

AltLseek(i) ==
  /\ "lseek" \in Driver[fds[i].dev]
  /\ \E p \in 0..MaxPos : /\ host' = [host EXCEPT ![fds[i].priv].pos = p]
                          /\ held' = [held EXCEPT ![i].pos = p]
  /\ UNCHANGED <<fds, max, reg, stage>>

\* TIOCEXCL.  The scan stops short of the highest descriptor in use.
AltFdLockFree(i) == TRUE
AltFdLock(i) == \A j \in 0..(max - 1) : j # i => fds[j].dev # fds[i].dev

Exclusive(i) ==
  /\ "DEV" \in fds[i].flags
  /\ fds' = IF AltFdLock(i) THEN [fds EXCEPT ![i].flags = @ \union {"EXCL"}] ELSE fds
  /\ UNCHANGED <<max, host, reg, stage, held>>

\* TIOCNXCL
AltFdUnlock(i) ==
  /\ "DEV" \in fds[i].flags
  /\ fds' = [fds EXCEPT ![i].flags = @ \ {"EXCL"}]
  /\ UNCHANGED <<max, host, reg, stage, held>>

\* F_SETFL
AltFcntl(i, flags) ==
  /\ fds' = [fds EXCEPT ![i].flags = (@ \ FcntlMask) \union (flags \intersect FcntlMask)]
  /\ UNCHANGED <<max, host, reg, stage, held>>

Program ==
  /\ stage = "main"
  /\ \/ \E name \in File \union {"null", "uart", Nowhere}, flags \in Mode : AltOpen(name, flags)
     \/ \E i \in DOMAIN held : \/ AltClose(i) \/ Exclusive(i) \/ AltFdUnlock(i)
                               \/ \E flags \in Mode : AltFcntl(i, flags)
     \/ \E i \in DOMAIN held : AltRead(i) \/ AltWrite(i) \/ AltLseek(i)

Next == SysInit \/ AltIoRedirect \/ MainReturns \/ Exited \/ Program

Spec == Init /\ [][Next]_vars

-----------------------------------------------------------------------------
(* Properties *)

\* The table keeps its shape: alt_max_fd covers every descriptor in use, a
\* free slot has no flags left over, a host file has a handle of its own.
TypeOK ==
  /\ fds \in [Fd -> [dev : Dev \union {NoDev}, priv : Handle \union {0}, flags : SUBSET Flag]]
  /\ max \in -1..(MaxFd - 1)
  /\ \A i \in Fd : i > max /\ i \notin Std => fds[i].dev = NoDev
  /\ \A i \in Fd : fds[i].dev = NoDev => fds[i].flags = {}
  /\ \A i \in Fd : fds[i].dev = "host" => fds[i].priv \in Handle

\* Once the program runs, a slot is in use exactly if the program has its
\* descriptor: a failed open or close leaves none behind (ALT_OPEN, ALT_CLOSE),
\* and the standard descriptors outlive being closed (alt_release_fd).
NoSlotLost ==
  stage \in {"main", "exit"} => \A i \in Fd : fds[i].dev # NoDev <=> i \in DOMAIN held

\* Every descriptor leads to the file that the program opened under it, at
\* the position and in the access mode the program knows of: no slot or host
\* handle that is reused, no flags that F_SETFL or the redirection brings,
\* and no call on another descriptor make it a different one.
DescriptorRight ==
  stage \in {"main", "exit"} => \A i \in DOMAIN held :
    /\ fds[i].flags \intersect Access = held[i].access
    /\ IF fds[i].dev = "host"
       THEN host[fds[i].priv] = [file |-> held[i].file, pos |-> held[i].pos]
       ELSE fds[i].dev = held[i].file

\* While a descriptor holds its device exclusively no new descriptor for that
\* device comes up (alt_file_locked, whatever slots came free since).
NoneBesideLock ==
  \A i \in Fd \ Std : fds[i].dev = NoDev /\ fds'[i].dev # NoDev =>
    ~ \E j \in Fd : fds[j].dev = fds'[i].dev /\ "EXCL" \in fds[j].flags
LockHonoured == [][NoneBesideLock]_vars

\* Two descriptors never hold one device exclusively at a time, although
\* alt_fd_lock does not look at the highest descriptor in use.
OneHolder ==
  \A i, j \in Fd :
    i # j /\ "EXCL" \in fds[i].flags \intersect fds[j].flags => fds[i].dev # fds[j].dev
=============================================================================
