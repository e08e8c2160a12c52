---------------------------- MODULE FdTableProofs ----------------------------
(***************************************************************************)
(* The pool of file descriptors stays whole, the standard channels stay    *)
(* where they are put, and nobody joins the holder of a lock, for every    *)
(* size of the pool and any devices and file systems.                      *)
(***************************************************************************)
EXTENDS FdTable, WellFoundedInduction, TLAPS

\* Channels that alt_io_redirect has still to see to.
Waiting == {redirect[i] : i \in DOMAIN redirect}

\* A channel leads to /dev/null until its turn has come.
Channels ==
  \A c \in Std : alt_fd_list[c].dev = IF c \in Waiting THEN Null ELSE Channel(c)

\* Before main nothing is open and nothing locked; later only devices are.
Locks ==
  /\ redirect # <<>> => held = {} /\ \A fd \in Fd : "EXCL" \notin alt_fd_list[fd].flags
  /\ \A fd \in Fd : "EXCL" \in alt_fd_list[fd].flags => "DEV" \in alt_fd_list[fd].flags
  /\ \A fd \in Fd : "DEV" \in alt_fd_list[fd].flags => alt_fd_list[fd].dev \in Devices

\* Whoever opened a device has raised the mark over the standard channels.
Marked == \A fd \in Fd : "DEV" \in alt_fd_list[fd].flags => alt_max_fd > 2

Inv == TypeOK /\ PoolWhole /\ Channels /\ Locks /\ Marked

\* A pool with a free place has a first one.
LEMMA LeastFree ==
  ASSUME FreeFds # {}
  PROVE  FirstFree \in FreeFds /\ \A g \in FreeFds : FirstFree <= g
<1>. DEFINE Less == {ss \in Nat \X Nat : ss[1] < ss[2]}
<1>1. FreeFds \subseteq Nat
  BY FdAssumption DEF FreeFds, Fd
<1>2. IsWellFoundedOn(Less, Nat)
  BY NatLessThanWellFounded DEF OpToRel
<1>3. PICK x \in FreeFds : \A y \in FreeFds : <<y, x>> \notin Less
  <2>. HIDE DEF Less
  <2>. QED BY <1>1, <1>2, WFMin
<1>4. ASSUME NEW y \in FreeFds PROVE x <= y
  <2>1. x \in Nat /\ y \in Nat /\ <<y, x>> \notin Less
    BY <1>1, <1>3
  <2>. QED BY <2>1
<1>. QED BY <1>3, <1>4 DEF FirstFree

\* A name stands for a device, a file system or nothing; a standard channel
\* always for something, if only /dev/null.
LEMMA Found ==
  /\ \A name : Find(name) \in Devices \cup FileSystems \cup {None}
  /\ \A c \in Std : Channel(c) \in Devices \cup FileSystems /\ Channel(c) # None
<1>1. \A name : Find(name) \in Devices \cup FileSystems \cup {None}
  BY DEF Find, FindFile, FileSystems
<1>. QED BY <1>1, FdAssumption DEF Channel

\* The standard channels are never free.
LEMMA StdTaken == ASSUME Inv PROVE \A c \in Std : alt_fd_list[c].dev # None
BY Found, FdAssumption DEF Inv, Channels, Std

\* So open hands out a descriptor beyond them.
LEMMA FirstFreeIsNew ==
  ASSUME Inv, FreeFds # {}
  PROVE  FirstFree \in Fd \ Std /\ FirstFree > 2 /\ FirstFree \notin held /\ alt_fd_list[FirstFree] = Free
<1>1. FirstFree \in Fd /\ alt_fd_list[FirstFree].dev = None
  BY LeastFree DEF FreeFds
<1>2. FirstFree \notin Std
  BY <1>1, StdTaken
<1>. QED BY <1>1, <1>2 DEF Inv, PoolWhole, Fd, Std

\* What open may do: it fails and leaves the pool as it was, for one of four
\* reasons, or takes the first free descriptor of a pool it may share.
LEMMA Opened ==
  ASSUME Inv, NEW name, NEW flags \in Modes, NEW r \in OpenResults(name, flags)
  PROVE  \/ /\ r.fd = -1 /\ r.list = alt_fd_list
            /\ r.max \in {-1} \cup Fd /\ r.max >= alt_max_fd
            /\ \/ Find(name) = None
               \/ FreeFds = {}
               \/ Find(name) \in Opening
               \/ FileLocked(Taken(Find(name), flags), FirstFree, Mark(FirstFree))
         \/ /\ r.fd = FirstFree /\ r.list = Taken(Find(name), flags) /\ r.max = Mark(FirstFree)
            /\ FreeFds # {} /\ Find(name) # None
            /\ Find(name) \in Devices =>
                 ~FileLocked(Taken(Find(name), flags), FirstFree, Mark(FirstFree))
<1>. DEFINE d == Find(name)
            locked == d \in Devices /\ FileLocked(Taken(d, flags), FirstFree, Mark(FirstFree))
<1>1. CASE d = None \/ FreeFds = {}
  <2>1. r = [list |-> alt_fd_list, max |-> alt_max_fd, fd |-> -1]
    BY <1>1 DEF OpenResults
  <2>2. alt_max_fd \in {-1} \cup Fd
    BY DEF Inv, TypeOK
  <2>3. alt_max_fd >= alt_max_fd
    BY <2>2 DEF Fd
  <2>. QED BY <1>1, <2>1, <2>2, <2>3
<1>2. CASE d # None /\ FreeFds # {}
  <2>1. \/ /\ r = [list |-> Taken(d, flags), max |-> Mark(FirstFree), fd |-> FirstFree]
           /\ ~locked
        \/ /\ r = [list |-> Release(Taken(d, flags), FirstFree),
                   max |-> Mark(FirstFree), fd |-> -1]
           /\ d \in Opening \/ locked
    BY <1>2 DEF OpenResults
  <2>2. Release(Taken(d, flags), FirstFree) = alt_fd_list
    BY <1>2, FirstFreeIsNew DEF Inv, TypeOK, Release, Taken
  <2>3. Mark(FirstFree) \in {-1} \cup Fd /\ Mark(FirstFree) >= alt_max_fd
    BY <1>2, FirstFreeIsNew, FdAssumption DEF Inv, TypeOK, Mark, Fd
  <2>. QED BY <1>2, <2>1, <2>2, <2>3
<1>. QED BY <1>1, <1>2

\* The entry a successful open writes.
LEMMA TakenEntry ==
  ASSUME Inv, FreeFds # {}, NEW name, NEW flags \in Modes
  PROVE  LET list == Taken(Find(name), flags)
         IN  /\ list \in [Fd -> Entry]
             /\ \A fd \in Fd \ {FirstFree} : list[fd] = alt_fd_list[fd]
             /\ list[FirstFree].dev = Find(name)
             /\ "EXCL" \notin list[FirstFree].flags
             /\ "DEV" \in list[FirstFree].flags => Find(name) \in Devices
<1>. DEFINE e == [dev |-> Find(name), flags |-> flags \cup {f \in {"DEV"} : Find(name) \in Devices}]
<1>1. e \in Entry
  BY Found DEF Entry, Modes
<1>2. "EXCL" \notin e.flags /\ ("DEV" \in e.flags => Find(name) \in Devices)
  BY DEF Modes
<1>3. FirstFree \in Fd
  BY FirstFreeIsNew
<1>4. Taken(Find(name), flags) = [alt_fd_list EXCEPT ![FirstFree] = e]
  BY DEF Taken
<1>. HIDE DEF e
<1>5. e.dev = Find(name)
  BY DEF e
<1>. QED BY <1>1, <1>2, <1>3, <1>4, <1>5 DEF Inv, TypeOK
-----------------------------------------------------------------------------
\* Before main the pool has a place (descriptor 3), nothing is locked and no
\* standard device refuses: a channel is redirected unless its device is missing.
LEMMA RedirectStep ==
  ASSUME Inv, Redirect
  PROVE  LET c == Head(redirect)
         IN  /\ c \in Std /\ c \in Waiting /\ Waiting' = Waiting \ {c}
             /\ redirect' \in {<<0, 2>>, <<2>>, <<>>}
             /\ alt_max_fd' \in {-1} \cup Fd /\ held' = {} /\ held = {}
             /\ alt_fd_list' \in [Fd -> Entry]
             /\ \A fd \in Fd \ {c} : alt_fd_list'[fd] = alt_fd_list[fd]
             /\ alt_fd_list'[c].dev = Channel(c)
             /\ "EXCL" \notin alt_fd_list'[c].flags
             /\ "DEV" \in alt_fd_list'[c].flags => Channel(c) \in Devices
             /\ alt_max_fd' >= alt_max_fd /\ ("DEV" \in alt_fd_list'[c].flags => alt_max_fd' > 2)
<1>. DEFINE c == Head(redirect)
<1>1. redirect \in {<<1, 0, 2>>, <<0, 2>>, <<2>>}
  BY DEF Inv, TypeOK, Redirect
<1>2. c \in Std /\ c \in Waiting /\ Waiting' = Waiting \ {c} /\ redirect' \in {<<0, 2>>, <<2>>, <<>>}
  <2>1. CASE redirect = <<1, 0, 2>>
    <3>1. redirect' = <<0, 2>> /\ c = 1
      BY <2>1 DEF Redirect
    <3>2. Waiting = {1, 0, 2} /\ Waiting' = {0, 2}
      BY <2>1, <3>1 DEF Waiting
    <3>. QED BY <3>1, <3>2 DEF Std
  <2>2. CASE redirect = <<0, 2>>
    <3>1. redirect' = <<2>> /\ c = 0
      BY <2>2 DEF Redirect
    <3>2. Waiting = {0, 2} /\ Waiting' = {2}
      BY <2>2, <3>1 DEF Waiting
    <3>. QED BY <3>1, <3>2 DEF Std
  <2>3. CASE redirect = <<2>>
    <3>1. redirect' = <<>> /\ c = 2
      BY <2>3 DEF Redirect
    <3>2. Waiting = {2} /\ Waiting' = {}
      BY <2>3, <3>1 DEF Waiting
    <3>. QED BY <3>1, <3>2 DEF Std
  <2>. QED BY <1>1, <2>1, <2>2, <2>3
<1>3. held = {} /\ held' = {} /\ \A fd \in Fd : "EXCL" \notin alt_fd_list[fd].flags
  BY DEF Inv, Locks, Redirect
<1>4. FreeFds # {}
  <2>1. 3 \in Fd \ Std
    BY FdAssumption DEF Fd, Std
  <2>. QED BY <2>1, <1>3 DEF Inv, PoolWhole, Free, FreeFds
<1>5. FirstFree \in Fd \ Std /\ FirstFree > 2 /\ alt_fd_list[FirstFree] = Free
  BY <1>4, FirstFreeIsNew
<1>6. Find(StdDev[c]) \notin Opening
  BY <1>2, FdAssumption DEF Std
<1>7. {} \in Modes
  BY DEF Modes
<1>8. PICK r \in OpenResults(StdDev[c], {}) :
        /\ alt_fd_list' = IF r.fd < 0 THEN r.list ELSE Release([r.list EXCEPT ![c] = r.list[r.fd]], r.fd)
        /\ alt_max_fd' = r.max
  BY DEF Redirect
<1>. DEFINE list == Taken(Find(StdDev[c]), {})
<1>9. /\ list \in [Fd -> Entry]
      /\ \A fd \in Fd \ {FirstFree} : list[fd] = alt_fd_list[fd]
      /\ list[FirstFree].dev = Find(StdDev[c])
      /\ "EXCL" \notin list[FirstFree].flags
      /\ "DEV" \in list[FirstFree].flags => Find(StdDev[c]) \in Devices
  BY <1>4, <1>7, TakenEntry
<1>10. ~FileLocked(list, FirstFree, Mark(FirstFree))
  BY <1>3, <1>9 DEF FileLocked
<1>11. CASE Find(StdDev[c]) = None
  <2>1. r.fd = -1 /\ r.list = alt_fd_list /\ r.max \in {-1} \cup Fd /\ r.max >= alt_max_fd
    BY <1>7, <1>11, Opened
  <2>2. alt_fd_list' = alt_fd_list /\ alt_max_fd' \in {-1} \cup Fd /\ alt_max_fd' >= alt_max_fd
    BY <1>8, <2>1
  <2>3. Channel(c) = Null /\ alt_fd_list[c].dev = Null /\ Null \in Devices
    BY <1>2, <1>11, FdAssumption DEF Channel, Inv, Channels
  <2>4. c \in Fd /\ alt_fd_list \in [Fd -> Entry]
    BY <1>2, FdAssumption DEF Inv, TypeOK, Std, Fd
  <2>5. "DEV" \in alt_fd_list'[c].flags => alt_max_fd' > 2
    BY <2>2, <2>4 DEF Inv, Marked, TypeOK, Fd
  <2>. QED BY <1>2, <1>3, <2>2, <2>3, <2>4, <2>5
<1>12. CASE Find(StdDev[c]) # None
  <2>1. /\ r.fd = FirstFree /\ r.list = list /\ r.max = Mark(FirstFree)
    BY <1>4, <1>6, <1>7, <1>10, <1>12, Opened
  <2>2. alt_fd_list' = [[list EXCEPT ![c] = list[FirstFree]] EXCEPT ![FirstFree] = Free]
    BY <1>5, <1>8, <2>1 DEF Release, Fd
  <2>3. c \in Fd /\ c # FirstFree /\ FirstFree \in Fd
    BY <1>2, <1>5, FdAssumption DEF Std, Fd
  <2>4. Free \in Entry
    BY DEF Free, Entry
  <2>5. alt_fd_list' \in [Fd -> Entry]
    <3>. HIDE DEF list
    <3>. QED BY <1>9, <2>2, <2>3, <2>4
  <2>6. /\ alt_fd_list'[c] = list[FirstFree]
        /\ \A fd \in Fd \ {c} : alt_fd_list'[fd] = alt_fd_list[fd]
    <3>. HIDE DEF list
    <3>. QED BY <1>5, <1>9, <2>2, <2>3
  <2>7. alt_max_fd' \in {-1} \cup Fd /\ alt_max_fd' >= alt_max_fd /\ alt_max_fd' > 2
    BY <1>5, <1>8, <2>1 DEF Mark, Inv, TypeOK, Fd
  <2>8. Channel(c) = Find(StdDev[c])
    BY <1>12 DEF Channel
  <2>. HIDE DEF list
  <2>. QED BY <1>2, <1>3, <1>9, <2>5, <2>6, <2>7, <2>8
<1>. QED BY <1>11, <1>12

LEMMA RedirectInv == ASSUME Inv, Redirect PROVE Inv'
<1>. DEFINE c == Head(redirect)
<1>1. /\ c \in Std /\ c \in Waiting /\ Waiting' = Waiting \ {c}
      /\ redirect' \in {<<0, 2>>, <<2>>, <<>>}
      /\ alt_max_fd' \in {-1} \cup Fd /\ held' = {} /\ held = {}
      /\ alt_fd_list' \in [Fd -> Entry]
      /\ \A fd \in Fd \ {c} : alt_fd_list'[fd] = alt_fd_list[fd]
      /\ alt_fd_list'[c].dev = Channel(c)
      /\ "EXCL" \notin alt_fd_list'[c].flags
      /\ "DEV" \in alt_fd_list'[c].flags => Channel(c) \in Devices
      /\ alt_max_fd' >= alt_max_fd /\ ("DEV" \in alt_fd_list'[c].flags => alt_max_fd' > 2)
  BY RedirectStep
<1>. HIDE DEF c
<1>2. TypeOK'
  BY <1>1 DEF TypeOK
<1>3. PoolWhole'
  BY <1>1 DEF Inv, PoolWhole
<1>4. Channels'
  <2>1. Std \subseteq Fd
    BY FdAssumption DEF Std, Fd
  <2>2. ASSUME NEW x \in Std PROVE alt_fd_list'[x].dev = IF x \in Waiting' THEN Null ELSE Channel(x)
    BY <1>1, <2>1 DEF Inv, Channels
  <2>. QED BY <2>2 DEF Channels, Channel
<1>5. Locks'
  <2>1. redirect # <<>>
    BY DEF Redirect
  <2>2. ASSUME NEW fd \in Fd
        PROVE  /\ "EXCL" \notin alt_fd_list'[fd].flags
               /\ "DEV" \in alt_fd_list'[fd].flags => alt_fd_list'[fd].dev \in Devices
    BY <1>1, <2>1 DEF Inv, Locks
  <2>. QED BY <1>1, <2>2 DEF Locks
<1>6. Marked'
  BY <1>1 DEF Inv, Marked, TypeOK, Fd
<1>. QED BY <1>2, <1>3, <1>4, <1>5, <1>6 DEF Inv

\* Whatever open did, every entry but the one it handed out is as before.
LEMMA OpenStep ==
  ASSUME Inv, NEW name, NEW flags \in Modes, Open(name, flags)
  PROVE  /\ redirect = <<>> /\ redirect' = <<>>
         /\ alt_max_fd' \in {-1} \cup Fd /\ alt_max_fd' >= alt_max_fd
         /\ \/ alt_fd_list' = alt_fd_list /\ held' = held
            \/ /\ FreeFds # {} /\ held' = held \cup {FirstFree}
               /\ alt_fd_list' = Taken(Find(name), flags)
               /\ Find(name) # None /\ alt_max_fd' = Mark(FirstFree)
               /\ Find(name) \in Devices => ~FileLocked(alt_fd_list', FirstFree, Mark(FirstFree))
<1>1. PICK r \in OpenResults(name, flags) :
        /\ alt_fd_list' = r.list /\ alt_max_fd' = r.max
        /\ held' = held \cup ({r.fd} \ {-1})
  BY DEF Open
<1>2. redirect = <<>> /\ redirect' = <<>>
  BY DEF Open, Main
<1>3. CASE r.fd = -1
  <2>1. r.list = alt_fd_list /\ r.max \in {-1} \cup Fd /\ r.max >= alt_max_fd
    <3>1. FreeFds # {} => FirstFree # -1
      BY FirstFreeIsNew
    <3>. QED BY <1>3, <3>1, Opened
  <2>. QED BY <1>1, <1>2, <1>3, <2>1
<1>4. CASE r.fd # -1
  <2>1. /\ r.fd = FirstFree /\ r.list = Taken(Find(name), flags) /\ r.max = Mark(FirstFree)
        /\ FreeFds # {} /\ Find(name) # None
        /\ Find(name) \in Devices =>
             ~FileLocked(Taken(Find(name), flags), FirstFree, Mark(FirstFree))
    BY <1>4, Opened
  <2>2. Mark(FirstFree) \in {-1} \cup Fd /\ Mark(FirstFree) >= alt_max_fd
    BY <2>1, FirstFreeIsNew, FdAssumption DEF Inv, TypeOK, Mark, Fd
  <2>. QED BY <1>1, <1>2, <1>4, <2>1, <2>2
<1>. QED BY <1>3, <1>4

LEMMA OpenInv ==
  ASSUME Inv, NEW name, NEW flags \in Modes, Open(name, flags) PROVE Inv'
<1>1. /\ redirect = <<>> /\ redirect' = <<>> /\ Waiting = {} /\ Waiting' = {}
      /\ alt_max_fd' \in {-1} \cup Fd /\ alt_max_fd' >= alt_max_fd
  BY OpenStep DEF Waiting
<1>2. /\ alt_max_fd \in {-1} \cup Fd /\ \A fd \in Fd : fd \in Int
  BY DEF Inv, TypeOK, Fd
<1>3. CASE alt_fd_list' = alt_fd_list /\ held' = held
  <2>1. PoolWhole'
    <3>1. \A fd \in Fd : fd <= alt_max_fd => fd <= alt_max_fd'
      BY <1>1, <1>2
    <3>. QED BY <1>3, <3>1 DEF Inv, PoolWhole
  <2>2. TypeOK' /\ Channels' /\ Locks'
    BY <1>1, <1>3 DEF Inv, TypeOK, Channels, Channel, Locks
  <2>3. Marked'
    BY <1>1, <1>2, <1>3 DEF Inv, Marked, Fd
  <2>. QED BY <2>1, <2>2, <2>3 DEF Inv
<1>4. CASE /\ FreeFds # {} /\ held' = held \cup {FirstFree}
           /\ alt_fd_list' = Taken(Find(name), flags)
           /\ Find(name) # None /\ alt_max_fd' = Mark(FirstFree)
  <2>1. FirstFree \in Fd \ Std /\ FirstFree \notin held
    BY <1>4, FirstFreeIsNew
  <2>2. /\ alt_fd_list' \in [Fd -> Entry]
        /\ \A fd \in Fd \ {FirstFree} : alt_fd_list'[fd] = alt_fd_list[fd]
        /\ alt_fd_list'[FirstFree].dev = Find(name)
        /\ "EXCL" \notin alt_fd_list'[FirstFree].flags
        /\ "DEV" \in alt_fd_list'[FirstFree].flags => Find(name) \in Devices
    BY <1>4, TakenEntry
  <2>3. FirstFree <= alt_max_fd' /\ \A fd \in Fd : fd <= alt_max_fd => fd <= alt_max_fd'
    BY <1>1, <1>2, <1>4, <2>1 DEF Mark
  <2>4. TypeOK'
    BY <1>1, <1>4, <2>1, <2>2 DEF Inv, TypeOK
  <2>5. PoolWhole'
    BY <1>4, <2>1, <2>2, <2>3 DEF Inv, PoolWhole
  <2>6. Channels'
    <3>1. \A x \in Std : x \in Fd \ {FirstFree}
      BY <2>1, FdAssumption DEF Std, Fd
    <3>. QED BY <1>1, <2>2, <3>1 DEF Inv, Channels, Channel
  <2>7. Locks'
    BY <1>1, <2>2 DEF Inv, Locks
  <2>8. Marked'
    <3>1. FirstFree > 2 /\ FirstFree \in Int /\ alt_max_fd' \in Int
      BY <1>1, <1>2, <1>4, FirstFreeIsNew DEF Fd
    <3>. QED BY <2>3, <3>1 DEF Marked
  <2>. QED BY <2>4, <2>5, <2>6, <2>7, <2>8 DEF Inv
<1>. QED BY <1>3, <1>4, OpenStep

LEMMA CloseInv == ASSUME Inv, NEW fd \in held \cup Std, Close(fd) PROVE Inv'
<1>1. /\ redirect = <<>> /\ redirect' = <<>> /\ Waiting = {} /\ Waiting' = {}
      /\ alt_max_fd' = alt_max_fd /\ held' = held \ {fd}
      /\ alt_fd_list' = Release(alt_fd_list, fd)
  BY DEF Close, Main, Waiting
<1>2. /\ alt_fd_list \in [Fd -> Entry] /\ Free \in Entry
      /\ held \subseteq Fd \ Std /\ Std \subseteq Fd /\ \A x \in Fd : x > 2 <=> x \notin Std
  BY FdAssumption DEF Inv, TypeOK, Free, Entry, Fd, Std
<1>3. \A x \in Fd : alt_fd_list'[x] = IF x = fd /\ x \notin Std THEN Free ELSE alt_fd_list[x]
  BY <1>1, <1>2 DEF Release
<1>4. TypeOK'
  BY <1>1, <1>2 DEF Inv, TypeOK, Release
<1>5. PoolWhole'
  <2>1. ASSUME NEW x \in Fd \ Std
        PROVE  /\ x \in held' <=> alt_fd_list'[x].dev # None
               /\ x \notin held' => alt_fd_list'[x] = Free
               /\ x \in held' => x <= alt_max_fd'
    <3>1. CASE x = fd
      <4>1. alt_fd_list'[x] = Free /\ x \notin held'
        BY <1>1, <1>3, <3>1
      <4>. QED BY <4>1 DEF Free
    <3>2. CASE x # fd
      <4>1. alt_fd_list'[x] = alt_fd_list[x] /\ (x \in held' <=> x \in held)
        BY <1>1, <1>3, <3>2
      <4>. QED BY <1>1, <4>1 DEF Inv, PoolWhole
    <3>. QED BY <3>1, <3>2
  <2>. QED BY <2>1 DEF PoolWhole, Free
<1>6. Channels'
  BY <1>1, <1>2, <1>3 DEF Inv, Channels, Channel
<1>7. Locks'
  BY <1>1, <1>3 DEF Inv, Locks, Free
<1>8. Marked'
  BY <1>1, <1>3 DEF Inv, Marked, Free
<1>. QED BY <1>4, <1>5, <1>6, <1>7, <1>8 DEF Inv

\* Writing the flags of an open descriptor; a lock only on a device.
LEMMA SetFlagsInv ==
  ASSUME Inv, NEW fd \in held \cup Std, NEW flags \in SUBSET {"EXCL", "DEV", "NONBLOCK"},
         SetFlags(fd, flags),
         "DEV" \in flags <=> Is(fd, "DEV"),
         "EXCL" \in flags => Is(fd, "EXCL") \/ Is(fd, "DEV")
  PROVE  /\ Inv'
         /\ \A x \in Fd : alt_fd_list'[x].dev = alt_fd_list[x].dev
<1>1. /\ redirect = <<>> /\ redirect' = <<>> /\ Waiting = {} /\ Waiting' = {}
      /\ alt_max_fd' = alt_max_fd /\ held' = held
      /\ alt_fd_list' = [alt_fd_list EXCEPT ![fd].flags = flags]
  BY DEF SetFlags, Main, Waiting
<1>2. /\ alt_fd_list \in [Fd -> Entry] /\ fd \in Fd
      /\ held \subseteq Fd \ Std /\ Std \subseteq Fd
  BY FdAssumption DEF Inv, TypeOK, Fd, Std
<1>3. /\ alt_fd_list' \in [Fd -> Entry]
      /\ \A x \in Fd : alt_fd_list'[x].dev = alt_fd_list[x].dev
      /\ alt_fd_list'[fd].flags = flags
      /\ \A x \in Fd \ {fd} : alt_fd_list'[x] = alt_fd_list[x]
  BY <1>1, <1>2 DEF Entry
<1>4. TypeOK'
  BY <1>1, <1>3 DEF Inv, TypeOK
<1>5. PoolWhole'
  BY <1>1, <1>2, <1>3 DEF Inv, PoolWhole, Free
<1>6. Channels'
  BY <1>1, <1>2, <1>3 DEF Inv, Channels, Channel
<1>7. Locks'
  BY <1>1, <1>2, <1>3 DEF Inv, Locks, Is
<1>8. Marked'
  BY <1>1, <1>2, <1>3 DEF Inv, Marked, Is
<1>. QED BY <1>3, <1>4, <1>5, <1>6, <1>7, <1>8 DEF Inv

\* ioctl and fcntl write flags of which that holds.
LEMMA FlagsInv ==
  ASSUME Inv, NEW fd \in held \cup Std,
         FdLock(fd) \/ FdUnlock(fd) \/ \E flags \in Modes : Fcntl(fd, flags)
  PROVE  /\ Inv'
         /\ \A x \in Fd : alt_fd_list'[x].dev = alt_fd_list[x].dev
<1>. DEFINE old == alt_fd_list[fd].flags
<1>1. old \in SUBSET {"EXCL", "DEV", "NONBLOCK"}
  <2>1. fd \in Fd
    BY FdAssumption DEF Inv, TypeOK, Fd, Std
  <2>. QED BY <2>1 DEF Inv, TypeOK, Entry
<1>2. CASE FdLock(fd)
  BY <1>1, <1>2, SetFlagsInv DEF FdLock, Is
<1>3. CASE FdUnlock(fd)
  BY <1>1, <1>3, SetFlagsInv DEF FdUnlock, Is
<1>4. ASSUME NEW flags \in Modes, Fcntl(fd, flags)
      PROVE  /\ Inv'
             /\ \A x \in Fd : alt_fd_list'[x].dev = alt_fd_list[x].dev
  BY <1>1, <1>4, SetFlagsInv DEF Fcntl, Is, Modes
<1>. QED BY <1>2, <1>3, <1>4

LEMMA InitInv == Init => Inv
<1>. SUFFICES ASSUME Init PROVE Inv
  OBVIOUS
<1>1. /\ \A fd \in Fd : alt_fd_list[fd] = [Free EXCEPT !.dev = IF fd \in Std THEN Null ELSE None]
      /\ redirect = <<1, 0, 2>> /\ held = {} /\ alt_max_fd = -1
  BY DEF Init
<1>2. Waiting = Std
  BY <1>1 DEF Waiting, Std
<1>3. Std \subseteq Fd
  BY FdAssumption DEF Std, Fd
<1>4. TypeOK
  BY FdAssumption DEF Init, TypeOK, Entry, Free
<1>5. PoolWhole
  BY <1>1 DEF PoolWhole, Free
<1>6. Channels
  BY <1>1, <1>2, <1>3 DEF Channels, Free
<1>7. Locks
  BY <1>1 DEF Locks, Free
<1>8. Marked
  BY <1>1 DEF Marked, Free
<1>. QED BY <1>4, <1>5, <1>6, <1>7, <1>8 DEF Inv

LEMMA NextInv == Inv /\ [Next]_vars => Inv'
<1>. SUFFICES ASSUME Inv, [Next]_vars PROVE Inv'
  OBVIOUS
<1>1. CASE Redirect
  BY <1>1, RedirectInv
<1>2. ASSUME NEW name \in Names, NEW flags \in Modes, Open(name, flags) PROVE Inv'
  BY <1>2, OpenInv
<1>3. ASSUME NEW fd \in held \cup Std, Close(fd) PROVE Inv'
  BY <1>3, CloseInv
<1>4. ASSUME NEW fd \in held \cup Std,
             FdLock(fd) \/ FdUnlock(fd) \/ \E flags \in Modes : Fcntl(fd, flags)
      PROVE  Inv'
  BY <1>4, FlagsInv
<1>5. CASE UNCHANGED vars
  BY <1>5 DEF vars, Inv, TypeOK, PoolWhole, Channels, Channel, Waiting, Locks, Marked
<1>. QED BY <1>1, <1>2, <1>3, <1>4, <1>5 DEF Next

LEMMA Invariance == Spec => []Inv
<1>. QED BY InitInv, NextInv, PTL DEF Spec
-----------------------------------------------------------------------------
\* The pool, the mark and the flags stay what they are declared as.
THEOREM TypeCorrect == Spec => []TypeOK
<1>1. Inv => TypeOK
  BY DEF Inv
<1>. QED BY <1>1, Invariance, PTL

\* No descriptor leaks and none is handed out twice (alt_get_fd, alt_release_fd
\* on every path of open, close and alt_open_fd), and alt_max_fd covers them all.
THEOREM Whole == Spec => []PoolWhole
<1>1. Inv => PoolWhole
  BY DEF Inv
<1>. QED BY <1>1, Invariance, PTL

\* From alt_main on, stdin, stdout and stderr lead where the board's settings
\* say (alt_io_redirect), whatever is opened and closed.
THEOREM ChannelsStay == Spec => []StdStays
<1>1. Inv => StdStays
  BY DEF Inv, Channels, Waiting, StdStays
<1>. QED BY <1>1, Invariance, PTL

\* An open that joined the holder of a lock would have seen it: the mark covers
\* the holder (alt_file_locked searches up to alt_max_fd).
LEMMA NoJoin ==
  ASSUME Inv, Next, NEW fd \in Fd, NEW g \in Fd,
         Is(fd, "EXCL"), "EXCL" \in alt_fd_list'[fd].flags, g # fd,
         alt_fd_list'[g].dev = alt_fd_list[fd].dev
  PROVE  alt_fd_list[g].dev = alt_fd_list[fd].dev
<1>1. redirect = <<>> /\ alt_fd_list[fd].dev \in Devices /\ alt_fd_list[fd].dev # None
  BY FdAssumption DEF Inv, Locks, Is
<1>2. CASE Redirect
  BY <1>1, <1>2 DEF Redirect
<1>3. ASSUME NEW name \in Names, NEW flags \in Modes, Open(name, flags), FreeFds # {},
             alt_fd_list' = Taken(Find(name), flags), alt_max_fd' = Mark(FirstFree),
             Find(name) \in Devices => ~FileLocked(alt_fd_list', FirstFree, Mark(FirstFree)),
             g = FirstFree
      PROVE  FALSE
  <2>1. /\ alt_fd_list'[fd] = alt_fd_list[fd] /\ alt_fd_list'[g].dev = Find(name)
    BY <1>3, TakenEntry
  <2>2. fd <= Mark(FirstFree)
    <3>1. CASE fd \in Std
      BY <1>3, <3>1, FirstFreeIsNew DEF Mark, Std, Fd, Inv, TypeOK
    <3>2. CASE fd \notin Std
      <4>1. fd <= alt_max_fd
        BY <1>1, <3>2 DEF Inv, PoolWhole
      <4>. QED BY <1>3, <4>1, FirstFreeIsNew DEF Mark, Fd, Inv, TypeOK
    <3>. QED BY <3>1, <3>2
  <2>3. FileLocked(alt_fd_list', FirstFree, Mark(FirstFree))
    BY <1>3, <2>1, <2>2 DEF FileLocked
  <2>. QED BY <1>1, <1>3, <2>1, <2>3
<1>4. ASSUME NEW name \in Names, NEW flags \in Modes, Open(name, flags)
      PROVE  alt_fd_list[g].dev = alt_fd_list[fd].dev
  <2>1. CASE alt_fd_list' = alt_fd_list
    BY <2>1
  <2>2. CASE /\ FreeFds # {} /\ alt_fd_list' = Taken(Find(name), flags)
             /\ alt_max_fd' = Mark(FirstFree)
             /\ Find(name) \in Devices => ~FileLocked(alt_fd_list', FirstFree, Mark(FirstFree))
    <3>1. g # FirstFree
      BY <1>3, <1>4, <2>2
    <3>2. alt_fd_list'[g] = alt_fd_list[g]
      BY <2>2, <3>1, TakenEntry
    <3>. QED BY <3>2
  <2>. QED BY <1>4, <2>1, <2>2, OpenStep
<1>5. ASSUME NEW x \in held \cup Std, Close(x)
      PROVE  alt_fd_list[g].dev = alt_fd_list[fd].dev
  <2>1. alt_fd_list'[g] = Free \/ alt_fd_list'[g] = alt_fd_list[g]
    BY <1>5 DEF Close, Release, Inv, TypeOK
  <2>. QED BY <1>1, <2>1 DEF Free
<1>6. ASSUME NEW x \in held \cup Std,
             FdLock(x) \/ FdUnlock(x) \/ \E flags \in Modes : Fcntl(x, flags)
      PROVE  alt_fd_list[g].dev = alt_fd_list[fd].dev
  BY <1>6, FlagsInv
<1>. QED BY <1>2, <1>4, <1>5, <1>6 DEF Next

\* The mark covers every descriptor that refers to a device somebody opened.
LEMMA Covered ==
  ASSUME Inv, NEW x \in Fd, NEW g \in Fd,
         Is(x, "DEV"), alt_fd_list[g].dev = alt_fd_list[x].dev
  PROVE  g <= alt_max_fd
<1>1. alt_fd_list[g].dev # None /\ alt_max_fd > 2
  BY FdAssumption DEF Inv, Locks, Marked, Is
<1>2. CASE g \in Std
  BY <1>1, <1>2 DEF Std, Inv, TypeOK, Fd
<1>3. CASE g \notin Std
  BY <1>1, <1>3 DEF Inv, PoolWhole
<1>. QED BY <1>2, <1>3

\* A lock is new only where ioctl was asked for it: a descriptor handed out has none,
\* and fcntl writes another flag.
LEMMA NewLock ==
  ASSUME Inv, Next, NEW fd \in Fd, ~Is(fd, "EXCL"), "EXCL" \in alt_fd_list'[fd].flags
  PROVE  FdLock(fd)
<1>1. alt_fd_list \in [Fd -> Entry] /\ held \cup Std \subseteq Fd
  BY FdAssumption DEF Inv, TypeOK, Fd, Std
<1>2. CASE Redirect
  <2>1. alt_fd_list'[fd] = alt_fd_list[fd] \/ "EXCL" \notin alt_fd_list'[fd].flags
    BY <1>2, RedirectStep
  <2>. QED BY <2>1 DEF Is
<1>3. ASSUME NEW name \in Names, NEW flags \in Modes, Open(name, flags) PROVE FALSE
  <2>1. CASE alt_fd_list' = alt_fd_list
    BY <2>1 DEF Is
  <2>2. CASE FreeFds # {} /\ alt_fd_list' = Taken(Find(name), flags)
    <3>1. alt_fd_list'[fd] = alt_fd_list[fd] \/ "EXCL" \notin alt_fd_list'[fd].flags
      BY <2>2, TakenEntry
    <3>. QED BY <3>1 DEF Is
  <2>. QED BY <1>3, <2>1, <2>2, OpenStep
<1>4. ASSUME NEW x \in held \cup Std, Close(x) PROVE FALSE
  <2>1. alt_fd_list'[fd] = alt_fd_list[fd] \/ alt_fd_list'[fd].flags = {}
    BY <1>1, <1>4 DEF Close, Release, Free
  <2>. QED BY <2>1 DEF Is
<1>5. ASSUME NEW x \in held \cup Std, NEW flags, SetFlags(x, flags),
             "EXCL" \in flags => Is(x, "EXCL")
      PROVE  FALSE
  <2>1. alt_fd_list'[fd].flags = IF fd = x THEN flags ELSE alt_fd_list[fd].flags
    BY <1>1, <1>5 DEF SetFlags, Entry
  <2>. QED BY <1>5, <2>1 DEF Is
<1>6. ASSUME NEW x \in held \cup Std, FdUnlock(x) PROVE FALSE
  BY <1>5, <1>6 DEF FdUnlock
<1>7. ASSUME NEW x \in held \cup Std, NEW flags \in Modes, Fcntl(x, flags) PROVE FALSE
  BY <1>5, <1>7 DEF Fcntl, Modes, Is
<1>8. ASSUME NEW x \in held \cup Std, FdLock(x) PROVE x = fd
  <2>1. x # fd => alt_fd_list'[fd] = alt_fd_list[fd]
    BY <1>1, <1>8 DEF FdLock, SetFlags
  <2>. QED BY <2>1 DEF Is
<1>. QED BY <1>2, <1>3, <1>4, <1>6, <1>7, <1>8 DEF Next

\* The search of alt_fd_lock leaves out one descriptor and no more.
LEMMA GrantedBut ==
  ASSUME Inv, NEW fd \in Fd, NEW g \in Fd, FdLock(fd), g # fd,
         alt_fd_list'[g].dev = alt_fd_list[fd].dev
  PROVE  g = alt_max_fd
<1>1. alt_fd_list'[g] = alt_fd_list[g]
  BY DEF FdLock, SetFlags, Inv, TypeOK
<1>2. g <= alt_max_fd
  BY <1>1, Covered DEF FdLock
<1>3. ~(g < alt_max_fd)
  BY <1>1 DEF FdLock
<1>. QED BY <1>2, <1>3 DEF Inv, TypeOK, Fd

\* Nobody joins the holder of a lock (alt_open.c 79), with any number of devices and
\* descriptors.
THEOREM Exclusive == Spec => LockHolds
<1>. DEFINE Alone ==
       \A fd, g \in Fd :
         /\ Is(fd, "EXCL") /\ "EXCL" \in alt_fd_list'[fd].flags /\ g # fd
         /\ alt_fd_list'[g].dev = alt_fd_list[fd].dev
         => alt_fd_list[g].dev = alt_fd_list[fd].dev
<1>1. Inv /\ [Next]_vars => [Alone]_vars
  BY NoJoin
<1>. QED BY <1>1, Invariance, PTL DEF Spec, LockHolds

\* "If there are no other open file descriptors which reference the same device, then
\* alt_fd_lock() will grant the lock" (alt_fd_lock.c 43-44).  The search of line 61
\* ends before alt_max_fd, so that the code promises less: a new holder of the lock
\* may share the device with descriptor alt_max_fd, and with no other.
LockShared ==
  [][\A fd, g \in Fd :
       /\ ~Is(fd, "EXCL") /\ "EXCL" \in alt_fd_list'[fd].flags /\ g # fd
       /\ alt_fd_list'[g].dev = alt_fd_list[fd].dev
       => g = alt_max_fd]_vars

\* What is left of the promise of alt_fd_lock.c 43-44: one other user at most.
THEOREM SharedWithOne == Spec => LockShared
<1>. DEFINE OnlyTheLast ==
       \A fd, g \in Fd :
         /\ ~Is(fd, "EXCL") /\ "EXCL" \in alt_fd_list'[fd].flags /\ g # fd
         /\ alt_fd_list'[g].dev = alt_fd_list[fd].dev
         => g = alt_max_fd
<1>1. Inv /\ [Next]_vars => [OnlyTheLast]_vars
  BY NewLock, GrantedBut DEF vars, Is
<1>. QED BY <1>1, Invariance, PTL DEF Spec, LockShared

\* And that user is really let in: with descriptor alt_max_fd on the same device and
\* no other below it, the ioctl grants a lock that the comment refuses.
THEOREM LastIsOverlooked ==
  ASSUME Inv, Main, NEW fd \in held \cup Std, alt_max_fd # fd, Is(fd, "DEV"),
         alt_fd_list[alt_max_fd].dev = alt_fd_list[fd].dev,
         \A g \in Fd : g < alt_max_fd /\ g # fd => alt_fd_list[g].dev # alt_fd_list[fd].dev,
         alt_fd_list' = [alt_fd_list EXCEPT
                           ![fd].flags = alt_fd_list[fd].flags \cup {"EXCL"}],
         UNCHANGED <<alt_max_fd, held, redirect>>
  PROVE  /\ Next
         /\ "EXCL" \in alt_fd_list'[fd].flags
         /\ alt_fd_list'[alt_max_fd].dev = alt_fd_list'[fd].dev
<1>1. Main /\ FdLock(fd)
  BY DEF FdLock, SetFlags, Main
<1>2. alt_fd_list \in [Fd -> Entry] /\ fd \in Fd /\ alt_max_fd \in Fd
  BY FdAssumption DEF Inv, TypeOK, Fd, Std
<1>3. /\ "EXCL" \in alt_fd_list'[fd].flags
      /\ alt_fd_list'[alt_max_fd].dev = alt_fd_list'[fd].dev
  BY <1>2 DEF Entry
<1>. QED BY <1>1, <1>3 DEF Next
=============================================================================
