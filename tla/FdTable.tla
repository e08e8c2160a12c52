------------------------------ MODULE FdTable ------------------------------
(***************************************************************************)
(* The file descriptors of the HAL: the pool alt_fd_list, its high-water   *)
(* mark, the lock for exclusive access, and the redirection of stdout,     *)
(* stdin and stderr from /dev/null to the JTAG UART before main runs.      *)
(* There is one thread, so that a call is a step.                          *)
(***************************************************************************)
EXTENDS Integers, FiniteSets, Sequences

CONSTANTS ALT_MAX_FD,   \* 32
          Devices,      \* registered ones, known by their names
          Null,         \* alt_dev_null
          StdDev,       \* ALT_STDIN, ALT_STDOUT, ALT_STDERR: their names
          Mounted,      \* a file's name -> the file system it is on
          Opening,      \* devices and file systems with an open function
          Names,        \* arguments of open
          None          \* dev = 0

FileSystems == {Mounted[f] : f \in DOMAIN Mounted}

\* alt_find_dev, then alt_find_file.
FindFile(name) == IF name \in DOMAIN Mounted THEN Mounted[name] ELSE None
Find(name)     == IF name \in Devices THEN name ELSE FindFile(name)

\* The standard channels lead to a device without an open function, as the JTAG
\* UART is (altera_avalon_jtag_uart_fd.h 97), or to a name that nothing has.
ASSUME FdAssumption ==
  /\ ALT_MAX_FD \in Nat /\ ALT_MAX_FD > 3
  /\ Null \in Devices /\ None \notin Devices \cup FileSystems
  /\ Devices \cap FileSystems = {} /\ None \notin Opening
  /\ \A c \in 0 .. 2 : Find(StdDev[c]) \notin Opening

Fd    == 0 .. ALT_MAX_FD - 1
Std   == 0 .. 2
Entry == [dev : Devices \cup FileSystems \cup {None},
          flags : SUBSET {"EXCL", "DEV", "NONBLOCK"}]

VARIABLES alt_fd_list, alt_max_fd,
          redirect,   \* channels alt_io_redirect has still to see to
          held        \* history: what open returned and close has not had back

vars == <<alt_fd_list, alt_max_fd, redirect, held>>

TypeOK == /\ alt_fd_list \in [Fd -> Entry] /\ alt_max_fd \in {-1} \cup Fd
          /\ redirect \in {<<1, 0, 2>>, <<0, 2>>, <<2>>, <<>>}
          /\ held \subseteq Fd \ Std

Free == [dev |-> None, flags |-> {}]

Init == /\ alt_fd_list = [fd \in Fd |-> [Free EXCEPT !.dev = IF fd \in Std THEN Null ELSE None]]
        /\ alt_max_fd = -1 /\ redirect = <<1, 0, 2>> /\ held = {}
-----------------------------------------------------------------------------
\* alt_get_fd, and where it leaves alt_max_fd.  (Variants: at the last one taken, past it.)
FreeFds == {fd \in Fd : alt_fd_list[fd].dev = None}
FirstFree == CHOOSE fd \in FreeFds : \A g \in FreeFds : fd <= g
MarkLast(fd) == fd
MarkPast(fd) == IF fd >= alt_max_fd THEN fd + 1 ELSE alt_max_fd
Mark(fd) == IF fd > alt_max_fd THEN fd ELSE alt_max_fd

\* alt_file_locked, its search.  (Variant: it stops before the last.)
FileLockedBelow(list, self, mark) ==
  \E fd \in Fd : /\ fd < mark /\ fd # self
                 /\ list[fd].dev = list[self].dev /\ "EXCL" \in list[fd].flags
FileLocked(list, self, mark) ==
  \E fd \in Fd : /\ fd <= mark /\ fd # self
                 /\ list[fd].dev = list[self].dev /\ "EXCL" \in list[fd].flags

\* alt_release_fd.  (Variant: of any descriptor.)
ReleaseAny(list, fd) == [list EXCEPT ![fd] = Free]
Release(list, fd) == IF fd > 2 THEN [list EXCEPT ![fd] = Free] ELSE list

\* The pool with the first free descriptor taken.
Taken(d, flags) ==
  [alt_fd_list EXCEPT ![FirstFree] =
     [dev |-> d, flags |-> flags \cup {f \in {"DEV"} : d \in Devices}]]

\* open: the pool, the mark and the value returned, -1 for an error.
OpenResults(name, flags) ==
  LET d      == Find(name)
      fd     == FirstFree
      locked == d \in Devices /\ FileLocked(Taken(d, flags), fd, Mark(fd))
  IN  IF d = None \/ FreeFds = {}
      THEN {[list |-> alt_fd_list, max |-> alt_max_fd, fd |-> -1]}
      ELSE {r \in {[list |-> Taken(d, flags), max |-> Mark(fd), fd |-> fd]} : ~locked}
           \cup
           {r \in {[list |-> Release(Taken(d, flags), fd), max |-> Mark(fd), fd |-> -1]} :
              d \in Opening \/ locked}

\* alt_open_fd, for one channel after the other.
Redirect ==
  /\ redirect # <<>> /\ redirect' = Tail(redirect)
  /\ \E r \in OpenResults(StdDev[Head(redirect)], {}) :
       /\ alt_fd_list' = IF r.fd < 0 THEN r.list
                         ELSE Release([r.list EXCEPT ![Head(redirect)] = r.list[r.fd]], r.fd)
       /\ alt_max_fd' = r.max
  /\ UNCHANGED held

\* From here on main runs.
Main == redirect = <<>> /\ UNCHANGED redirect

Open(name, flags) ==
  /\ Main
  /\ \E r \in OpenResults(name, flags) :
       /\ alt_fd_list' = r.list /\ alt_max_fd' = r.max
       /\ held' = held \cup ({r.fd} \ {-1})

Close(fd) == /\ Main /\ alt_fd_list' = Release(alt_fd_list, fd)
             /\ held' = held \ {fd} /\ UNCHANGED alt_max_fd

SetFlags(fd, flags) == /\ Main /\ alt_fd_list' = [alt_fd_list EXCEPT ![fd].flags = flags]
                       /\ UNCHANGED <<alt_max_fd, held>>

\* ioctl TIOCEXCL and TIOCNXCL, only of a device; alt_fd_lock, which does not look
\* at descriptor alt_max_fd itself, and alt_fd_unlock.
Is(fd, flag) == flag \in alt_fd_list[fd].flags

FdLock(fd) ==
  /\ Is(fd, "DEV")
  /\ \A g \in Fd : g < alt_max_fd /\ g # fd => alt_fd_list[g].dev # alt_fd_list[fd].dev
  /\ SetFlags(fd, alt_fd_list[fd].flags \cup {"EXCL"})

FdUnlock(fd) == Is(fd, "DEV") /\ SetFlags(fd, alt_fd_list[fd].flags \ {"EXCL"})

\* fcntl F_SETFL.
Fcntl(fd, flags) ==
  SetFlags(fd, (alt_fd_list[fd].flags \ {"NONBLOCK"}) \cup flags)

Modes == {{}, {"NONBLOCK"}}

\* A caller uses what it was given and the standard channels.
Next == \/ Redirect
        \/ \E name \in Names, flags \in Modes : Open(name, flags)
        \/ \E fd \in held \cup Std :
             Close(fd) \/ FdLock(fd) \/ FdUnlock(fd) \/ \E flags \in Modes : Fcntl(fd, flags)

Spec == Init /\ [][Next]_vars
-----------------------------------------------------------------------------
\* No descriptor is lost or handed out twice: those in use beyond the standard
\* ones are the caller's, after a failed open and a redirection as well, and none
\* of them is above alt_max_fd, where alt_file_locked would not look for it.
PoolWhole ==
  \A fd \in Fd \ Std : /\ fd \in held <=> alt_fd_list[fd].dev # None
                       /\ fd \notin held => alt_fd_list[fd] = Free
                       /\ fd \in held => fd <= alt_max_fd

\* "Further calls to open() for this device will fail until the lock is released"
\* (alt_fd_lock.c 44-45): nobody joins the holder of a lock, through whatever
\* open, close and fcntl the mark has moved past whom.
LockHolds ==
  [][\A fd, g \in Fd :
       /\ Is(fd, "EXCL") /\ "EXCL" \in alt_fd_list'[fd].flags /\ g # fd
       /\ alt_fd_list'[g].dev = alt_fd_list[fd].dev
       => alt_fd_list[g].dev = alt_fd_list[fd].dev]_vars

\* Once main runs the standard channels lead where the board's settings say, or
\* to /dev/null if there is no such device, whatever is closed or full.
Channel(c) == IF Find(StdDev[c]) = None THEN Null ELSE Find(StdDev[c])
StdStays == redirect = <<>> => \A c \in Std : alt_fd_list[c].dev = Channel(c)
=============================================================================
