------------------------ MODULE AirPortMusicProofs ------------------------
(***************************************************************************)
(* Proofs about module AirPortMusic, for every number of descriptors,      *)
(* requests, datagrams and restarts.                                       *)
(***************************************************************************)
EXTENDS AirPortMusic, WellFoundedInduction, SequenceTheorems, TLAPS

-----------------------------------------------------------------------------
(* Descriptors.                                                            *)

\* A set of numbers that is not empty has a least one.
LEMMA Least ==
  ASSUME NEW S, S \subseteq Nat, S # {}
  PROVE  \E n \in S : \A m \in S : n <= m
<1> DEFINE R == {p \in Nat \X Nat : p[1] < p[2]}
<1>1. R = OpToRel(<, Nat)
  BY Zenon DEF OpToRel
<1>2. IsWellFoundedOn(R, Nat)
  BY <1>1, NatLessThanWellFounded, Zenon
<1>3. PICK n \in S : \A m \in S : ~ (<<m, n>> \in R)
  <2> HIDE DEF R
  <2> QED BY <1>2, WFMin, Zenon
<1>4. \A m \in S : ~(m < n)
  BY <1>3
<1> QED BY <1>4

\* The descriptors the model numbers are natural numbers, 0 and 3 among them.
LEMMA FdsFacts ==
  /\ Fds \subseteq Nat /\ 0 \in Fds /\ UdpFd \in Fds /\ UdpFd = 3
  /\ None \notin Fds /\ None = -1
BY ConstantsAssumption DEF ConstantsAssumption, Fds, UdpFd, None

\* socket() returns a free descriptor when there is one.
LEMMA LowestFree ==
  ASSUME NEW f \in [Fds -> Uses]
  PROVE  /\ Free(f) = {} => Lowest(f) = None
         /\ Free(f) # {} => Lowest(f) \in Fds /\ f[Lowest(f)] = "free"
         /\ Lowest(f) \in Fds \cup {None}
<1>1. CASE Free(f) = {}
  BY <1>1 DEF Lowest
<1>2. CASE Free(f) # {}
  <2>1. \E n \in Free(f) : \A m \in Free(f) : n <= m
    BY <1>2, Least, FdsFacts DEF Free
  <2>2. Lowest(f) \in Free(f)
    BY <1>2, <2>1 DEF Lowest
  <2> QED BY <1>2, <2>2 DEF Free
<1> QED BY <1>1, <1>2

\* Opening takes one free descriptor and leaves the others.
LEMMA OpenedFacts ==
  ASSUME NEW f \in [Fds -> Uses], NEW use \in Uses
  PROVE  /\ Opened(f, use) \in [Fds -> Uses]
         /\ Free(f) # {} => Opened(f, use)[Lowest(f)] = use
         /\ \A n \in Fds : f[n] # "free" => Opened(f, use)[n] = f[n]
<1>1. CASE Free(f) = {}
  BY <1>1 DEF Opened
<1>2. CASE Free(f) # {}
  <2>1. Lowest(f) \in Fds /\ f[Lowest(f)] = "free"
    BY <1>2, LowestFree
  <2>2. Opened(f, use) = [f EXCEPT ![Lowest(f)] = use]
    BY <1>2 DEF Opened
  <2> HIDE DEF Opened
  <2> QED BY <2>1, <2>2
<1> QED BY <1>1, <1>2

\* Closing frees the descriptors it is given and leaves the others.
LEMMA ClosedFacts ==
  ASSUME NEW f \in [Fds -> Uses], NEW ns
  PROVE  /\ Closed(f, ns) \in [Fds -> Uses]
         /\ \A n \in Fds : n \notin ns => Closed(f, ns)[n] = f[n]
BY DEF Closed, Uses

-----------------------------------------------------------------------------
(* The steps that open or close something.                                 *)

\* What the parts of the invariant read besides the types.
LEMMA Names ==
  /\ Stopped = {"exited", "crashed"}
  /\ EventLocs = {"songEvent", "event1", "event2"}
  /\ SongLocs = {"song", "songEvent"}
BY DEF Stopped, EventLocs, SongLocs

\* A process starts with its standard input and the datagram socket.
LEMMA BootFdsFacts ==
  BootFds \in [Fds -> Uses] /\ BootFds[UdpFd] = "udp"
BY FdsFacts DEF BootFds, Uses

\* The player begins in the invariant.
LEMMA InitEstablishes == Init => IInv
<1> SUFFICES ASSUME Init PROVE IInv
  OBVIOUS
<1>1. TypeOK
  <2>1. mail \in Seq(Commands)
    BY DEF Init
  <2>2. exitMode \in BOOLEAN /\ playAutomatic \in BOOLEAN /\ onlyAlbum \in BOOLEAN
        /\ eof \in BOOLEAN
    BY Zenon DEF Init
  <2>3. requested \in 0 .. MaxRequests
    BY ConstantsAssumption DEF Init, ConstantsAssumption
  <2> QED BY <2>1, <2>2, <2>3, BootFdsFacts, FdsFacts
       DEF Init, TypeOK, Locs, EventLocs, NetworkModes, PlayModes
<1>2. SessionHeld /\ DatabaseHeld /\ SongHeld
  BY Names DEF Init, SessionHeld, DatabaseHeld, SongHeld
<1>3. UdpHeld
  BY BootFdsFacts, FdsFacts DEF Init, UdpHeld
<1> QED BY <1>1, <1>2, <1>3 DEF IInv

\* The head of the outer loop.
LEMMA OuterKeeps == IInv /\ Outer => IInv'
<1> SUFFICES ASSUME IInv, Outer PROVE IInv'
  OBVIOUS
<1>0. TypeOK /\ UdpHeld /\ "db" \in Uses /\ fds \in [Fds -> Uses]
  BY DEF IInv, TypeOK, Uses
<1>1. CASE exitMode
  <2>1. /\ loc' = "exited" /\ fds' = Closed(fds, {UdpFd})
        /\ UNCHANGED <<at, globals, song, onlyAlbum, table, clients, rtspFd, sfd,
                       dbFd, eof>>
    BY <1>1 DEF Outer, globals
  <2>2. fds' \in [Fds -> Uses]
    BY <1>0, <2>1, ClosedFacts
  <2>3. TypeOK'
    BY <1>0, <2>1, <2>2 DEF TypeOK, Locs, Stopped, globals, table, clients
  <2> QED BY <2>1, <2>3, Names
       DEF IInv, SessionHeld, DatabaseHeld, UdpHeld, SongHeld
<1>2. CASE ~exitMode
  <2>1. /\ loc = "outer" /\ loc' = "loop" /\ playMode' = "play"
        /\ networkMode' = "disconnect"
        /\ dbFd' = Lowest(fds) /\ fds' = Opened(fds, "db")
        /\ UNCHANGED <<at, exitMode, playAutomatic, song, onlyAlbum, table,
                       clients, rtspFd, sfd, eof>>
    BY <1>2 DEF Outer
  <2>2. /\ fds' \in [Fds -> Uses] /\ fds'[UdpFd] = "udp"
        /\ dbFd' \in Fds \cup {None} /\ dbFd' # UdpFd
    BY <1>0, <2>1, OpenedFacts, LowestFree, FdsFacts DEF UdpHeld
  <2>3. TypeOK'
    BY <1>0, <2>1, <2>2
    DEF TypeOK, Locs, PlayModes, NetworkModes, table, clients
  <2>4. UdpHeld'
    BY <1>0, <2>1, <2>2 DEF UdpHeld
  <2> QED BY <2>1, <2>3, <2>4, Names DEF IInv, SessionHeld, DatabaseHeld, SongHeld
<1> QED BY <1>1, <1>2

\* The end of the outer loop closes everything but the datagram socket.
LEMMA ShutdownKeeps == IInv /\ Shutdown => IInv'
<1> SUFFICES ASSUME IInv, Shutdown PROVE IInv'
  OBVIOUS
<1>0. TypeOK /\ UdpHeld /\ fds \in [Fds -> Uses]
  BY DEF IInv, TypeOK
<1>1. /\ loc = "loop" /\ loc' = "outer" /\ eof' = FALSE
      /\ fds' = Closed(Closed(fds, {dbFd}), {rtspFd, sfd})
      /\ UNCHANGED <<at, globals, song, onlyAlbum, table, clients, rtspFd, sfd, dbFd>>
  BY DEF Shutdown, RaopClose
<1>2. Closed(fds, {dbFd}) \in [Fds -> Uses] /\ Closed(fds, {dbFd})[UdpFd] = "udp"
  BY <1>0, <1>1, ClosedFacts, FdsFacts DEF UdpHeld
<1>3. fds' \in [Fds -> Uses] /\ fds'[UdpFd] = "udp"
  BY <1>0, <1>1, <1>2, ClosedFacts, FdsFacts DEF UdpHeld
<1>4. TypeOK'
  BY <1>0, <1>1, <1>3 DEF TypeOK, Locs, globals, table, clients
<1>5. UdpHeld'
  BY <1>0, <1>1, <1>3 DEF UdpHeld
<1> QED BY <1>1, <1>4, <1>5, Names DEF IInv, SessionHeld, DatabaseHeld, SongHeld

\* raop.Close may close the database connection, but then nothing is connected.
LEMMA DisconnectKeeps == IInv /\ Disconnect => IInv'
<1> SUFFICES ASSUME IInv, Disconnect PROVE IInv'
  OBVIOUS
<1>0. /\ TypeOK /\ UdpHeld /\ SessionHeld /\ DatabaseHeld
      /\ fds \in [Fds -> Uses]
  BY DEF IInv, TypeOK
<1>1. /\ loc = "loop" /\ loc' = "connect"
      /\ UNCHANGED <<at, playMode, exitMode, playAutomatic, song, onlyAlbum, table,
                     clients, rtspFd, sfd, dbFd>>
  BY DEF Disconnect
<1>2. CASE networkMode = "disconnect"
  <2>1. fds' = Closed(fds, {rtspFd, sfd}) /\ networkMode' = "wait" /\ eof' = FALSE
    BY <1>2 DEF Disconnect, RaopClose
  <2>2. fds' \in [Fds -> Uses] /\ fds'[UdpFd] = "udp"
    BY <1>0, <1>1, <2>1, ClosedFacts, FdsFacts DEF UdpHeld
  <2>3. TypeOK'
    BY <1>0, <1>1, <2>1, <2>2 DEF TypeOK, Locs, NetworkModes, table, clients
  <2>4. UdpHeld'
    BY <1>0, <1>1, <2>2 DEF UdpHeld
  <2> QED BY <1>1, <2>1, <2>3, <2>4, Names
       DEF IInv, SessionHeld, DatabaseHeld, SongHeld
<1>3. CASE networkMode # "disconnect"
  <2>1. UNCHANGED <<fds, networkMode, eof>>
    BY <1>3 DEF Disconnect
  <2>2. TypeOK'
    BY <1>0, <1>1, <2>1 DEF TypeOK, Locs, table, clients
  <2>3. UdpHeld' /\ SongHeld'
    BY <1>0, <1>1, <2>1, Names DEF UdpHeld, SongHeld
  <2>4. SessionHeld'
    BY <1>0, <1>1, <2>1, Names DEF SessionHeld, SessionOpen
  <2>5. DatabaseHeld'
    BY <1>0, <1>1, <1>3, <2>1, Names DEF DatabaseHeld, DbIsOpen
  <2> QED BY <2>2, <2>3, <2>4, <2>5 DEF IInv
<1> QED BY <1>2, <1>3

\* A session that was set up is open and closes nothing.
LEMMA ConnectSucceedsKeeps == IInv /\ ConnectSucceeds => IInv'
<1> SUFFICES ASSUME IInv, ConnectSucceeds PROVE IInv'
  OBVIOUS
<1> DEFINE f == Opened(fds, "rtsp")
<1>0. /\ TypeOK /\ UdpHeld /\ DatabaseHeld
      /\ fds \in [Fds -> Uses] /\ "rtsp" \in Uses /\ "stream" \in Uses
  BY DEF IInv, TypeOK, Uses
<1>1. /\ loc = "connect" /\ loc' = "wait"
      /\ networkMode = "connect" /\ networkMode' = "normal" /\ playMode' = "play"
      /\ eof' = FALSE
      /\ UNCHANGED <<at, exitMode, playAutomatic, song, onlyAlbum, table, clients, dbFd>>
  BY DEF ConnectSucceeds
<1>2. /\ Free(fds) # {} /\ Free(f) # {}
      /\ rtspFd' = Lowest(fds) /\ sfd' = Lowest(f)
      /\ fds' = Opened(f, "stream")
  BY DEF ConnectSucceeds
<1>3. /\ f \in [Fds -> Uses] /\ f[Lowest(fds)] = "rtsp"
      /\ \A n \in Fds : fds[n] # "free" => f[n] = fds[n]
      /\ Lowest(fds) \in Fds /\ fds[Lowest(fds)] = "free"
  BY <1>0, <1>2, OpenedFacts, LowestFree
<1> HIDE DEF f
<1>4. /\ fds' \in [Fds -> Uses] /\ fds'[Lowest(f)] = "stream"
      /\ \A n \in Fds : f[n] # "free" => fds'[n] = f[n]
      /\ Lowest(f) \in Fds /\ f[Lowest(f)] = "free"
  BY <1>0, <1>2, <1>3, OpenedFacts, LowestFree
<1>5. SessionOpen'
  BY <1>2, <1>3, <1>4 DEF SessionOpen
<1>6. DbIsOpen'
  BY <1>0, <1>1, <1>3, <1>4 DEF DatabaseHeld, DbIsOpen
<1>7. UdpHeld'
  BY <1>0, <1>1, <1>2, <1>3, <1>4, FdsFacts DEF UdpHeld
<1>8. TypeOK'
  BY <1>0, <1>1, <1>2, <1>3, <1>4
  DEF TypeOK, Locs, NetworkModes, PlayModes, table, clients
<1> QED BY <1>1, <1>5, <1>6, <1>7, <1>8, Names
     DEF IInv, SessionHeld, DatabaseHeld, SongHeld

\* A connection that fails may close a stale descriptor, but nothing is connected.
LEMMA ConnectFailsKeeps == IInv /\ ConnectFails => IInv'
<1> SUFFICES ASSUME IInv, ConnectFails PROVE IInv'
  OBVIOUS
<1>0. /\ TypeOK /\ UdpHeld /\ fds \in [Fds -> Uses] /\ "rtsp" \in Uses
  BY DEF IInv, TypeOK, Uses
<1>1. /\ loc = "connect" /\ loc' = "wait"
      /\ networkMode' = "wait" /\ playMode' = "play" /\ eof' = FALSE
      /\ rtspFd' = Lowest(fds) /\ sfd' \in {sfd, None}
      /\ fds' = Closed(Opened(fds, "rtsp"), {rtspFd', sfd'})
      /\ UNCHANGED <<at, exitMode, playAutomatic, song, onlyAlbum, table, clients, dbFd>>
  BY DEF ConnectFails
<1>2. rtspFd' \in Fds \cup {None} /\ rtspFd' # UdpFd
  BY <1>0, <1>1, LowestFree, FdsFacts DEF UdpHeld
<1>3. sfd' \in Fds \cup {None} /\ sfd' # UdpFd
  BY <1>0, <1>1, FdsFacts DEF UdpHeld, TypeOK
<1>4. Opened(fds, "rtsp") \in [Fds -> Uses] /\ Opened(fds, "rtsp")[UdpFd] = "udp"
  BY <1>0, <1>1, OpenedFacts, FdsFacts DEF UdpHeld
<1>5. fds' \in [Fds -> Uses] /\ fds'[UdpFd] = "udp"
  BY <1>1, <1>2, <1>3, <1>4, ClosedFacts, FdsFacts
<1>6. UdpHeld'
  BY <1>0, <1>1, <1>2, <1>3, <1>5 DEF UdpHeld
<1>7. TypeOK'
  BY <1>0, <1>1, <1>2, <1>3, <1>5
  DEF TypeOK, Locs, NetworkModes, PlayModes, table, clients
<1> QED BY <1>1, <1>6, <1>7, Names DEF IInv, SessionHeld, DatabaseHeld, SongHeld

-----------------------------------------------------------------------------
(* The steps that leave the descriptors alone.                             *)

\* Open connections stay open, and the datagram socket its own.
LEMMA DescriptorsKept ==
  ASSUME UNCHANGED descriptors
  PROVE  /\ SessionOpen' <=> SessionOpen
         /\ DbIsOpen' <=> DbIsOpen
         /\ UdpHeld /\ (loc = "exited" => loc' = "exited") => UdpHeld'
BY DEF descriptors, SessionOpen, DbIsOpen, UdpHeld

\* The commands set modes that exist.
LEMMA ModesTyped ==
  ASSUME TypeOK, NEW m \in Commands
  PROVE  /\ PlayModeAfter(m) \in PlayModes
         /\ NetworkModeAfter(m) \in NetworkModes
         /\ AutomaticAfter(m) \in BOOLEAN
         /\ m = "nextalbum" => PlayModeAfter(m) = "nextalbum"
<1>1. PlayModeAfter(m) \in PlayModes
  BY DEF TypeOK, Commands, PlayModeAfter, PlayModes
<1>2. NetworkModeAfter(m) \in NetworkModes
  BY DEF TypeOK, Commands, NetworkModeAfter, NetworkModes
<1>3. AutomaticAfter(m) \in BOOLEAN
  <2>1. playAutomatic \in BOOLEAN
    BY DEF TypeOK
  <2> QED BY <2>1, Zenon DEF AutomaticAfter, Commands
<1>4. m = "nextalbum" => PlayModeAfter(m) = "nextalbum"
  BY DEF PlayModeAfter
<1> QED BY <1>1, <1>2, <1>3, <1>4

\* The main loop between the descriptors' steps.
LEMMA LoopKeeps ==
  IInv /\ (SkipConnect \/ Wait \/ Normal \/ NextSong \/ LeaveNormal) => IInv'
<1> SUFFICES ASSUME IInv PROVE (SkipConnect \/ Wait \/ Normal \/ NextSong \/ LeaveNormal) => IInv'
  OBVIOUS
<1>0. TypeOK /\ SessionHeld /\ DatabaseHeld /\ UdpHeld /\ SongHeld
  BY DEF IInv
<1>1. ASSUME SkipConnect PROVE IInv'
  <2>1. TypeOK'
    BY <1>0, <1>1 DEF SkipConnect, TypeOK, Locs, globals, table, clients, descriptors
  <2>2. SessionHeld' /\ DatabaseHeld' /\ UdpHeld' /\ SongHeld'
    BY <1>0, <1>1, DescriptorsKept, Names
    DEF SkipConnect, SessionHeld, DatabaseHeld, SongHeld, globals
  <2> QED BY <2>1, <2>2 DEF IInv
<1>2. ASSUME Wait PROVE IInv'
  <2>1. TypeOK'
    BY <1>0, <1>2
    DEF Wait, TypeOK, Locs, Stopped, NetworkModes, PlayModes, table, clients, descriptors
  <2>2. SessionHeld' /\ DatabaseHeld' /\ UdpHeld' /\ SongHeld'
    BY <1>0, <1>2, DescriptorsKept, Names
    DEF Wait, SessionHeld, DatabaseHeld, SongHeld, TypeOK, NetworkModes
  <2> QED BY <2>1, <2>2 DEF IInv
<1>3. ASSUME Normal PROVE IInv'
  <2>1. TypeOK'
    BY <1>0, <1>3
    DEF Normal, TypeOK, Locs, EventLocs, globals, table, clients, descriptors
  <2>2. SessionHeld' /\ DatabaseHeld' /\ UdpHeld' /\ SongHeld'
    BY <1>0, <1>3, DescriptorsKept, Names
    DEF Normal, SessionHeld, DatabaseHeld, SongHeld, globals
  <2> QED BY <2>1, <2>2 DEF IInv
<1>4. ASSUME NextSong PROVE IInv'
  <2>0. /\ loc = "next" /\ SessionOpen /\ DbIsOpen
        /\ UNCHANGED <<at, exitMode, playAutomatic, onlyAlbum, clients, descriptors, eof>>
    BY <1>0, <1>4, Names DEF NextSong, SessionHeld, DatabaseHeld
  <2>1. /\ SessionOpen' /\ DbIsOpen' /\ UdpHeld'
    BY <1>0, <2>0, DescriptorsKept
  <2>2. CASE waiting = {} /\ ~playAutomatic
    <3>1. /\ song' = NoSong /\ current' = NoSong /\ loc' = "next"
          /\ playMode' = "stop" /\ networkMode' = "disconnect"
          /\ UNCHANGED waiting
      BY <1>4, <2>0, <2>2 DEF NextSong
    <3>2. TypeOK'
      BY <1>0, <2>0, <3>1
      DEF TypeOK, NetworkModes, PlayModes, clients, descriptors
    <3> QED BY <2>0, <2>1, <3>1, <3>2, Names
         DEF IInv, SessionHeld, DatabaseHeld, SongHeld
  <2>3. CASE ~(waiting = {} /\ ~playAutomatic)
    <3>1. /\ \E s \in IF waiting = {} THEN {Automatic} ELSE waiting :
               song' = s /\ current' = s /\ waiting' = waiting \ {s}
          /\ loc' = "song"
          /\ UNCHANGED <<playMode, networkMode>>
      BY <1>4, <2>0, <2>3 DEF NextSong
    <3>2. /\ song' = current' /\ song' \in Songs \cup {Automatic}
          /\ waiting' \subseteq Songs \cup {Automatic}
      BY <1>0, <3>1 DEF TypeOK
    <3>3. song' # NoSong
      BY <3>2, ConstantsAssumption
      DEF ConstantsAssumption, Songs, Automatic, NoSong
    <3>4. TypeOK'
      BY <1>0, <2>0, <3>1, <3>2 DEF TypeOK, Locs, SongLocs, clients, descriptors
    <3> QED BY <2>0, <2>1, <3>1, <3>2, <3>3, <3>4, Names
         DEF IInv, SessionHeld, DatabaseHeld, SongHeld
  <2> QED BY <2>2, <2>3
<1>5. ASSUME LeaveNormal PROVE IInv'
  <2>1. TypeOK'
    BY <1>0, <1>5
    DEF LeaveNormal, TypeOK, Locs, EventLocs, globals, table, clients, descriptors
  <2>2. SessionHeld' /\ DatabaseHeld' /\ UdpHeld' /\ SongHeld'
    BY <1>0, <1>5, DescriptorsKept, Names
    DEF LeaveNormal, SessionHeld, DatabaseHeld, SongHeld, globals
  <2> QED BY <2>1, <2>2 DEF IInv
<1> QED BY <1>1, <1>2, <1>3, <1>4, <1>5

\* PlaySong.
LEMMA PlaySongKeeps ==
  IInv /\ (PlaySample \/ EndOfFile \/ PeerCloses \/ EndSong) => IInv'
<1> SUFFICES ASSUME IInv, PlaySample \/ EndOfFile \/ PeerCloses \/ EndSong
             PROVE  IInv'
  OBVIOUS
<1>0. TypeOK /\ SessionHeld /\ DatabaseHeld /\ UdpHeld /\ SongHeld
  BY DEF IInv
<1>1. /\ loc = "song" /\ loc' \in {"songEvent", "next"}
      /\ playMode' \in PlayModes /\ eof' \in BOOLEAN
      /\ loc' = "songEvent" => playMode = "play"
      /\ UNCHANGED <<at, networkMode, exitMode, playAutomatic, song, onlyAlbum,
                     table, clients, descriptors>>
  BY <1>0 DEF PlaySample, EndOfFile, PeerCloses, EndSong, InSong, PlayModes,
     TypeOK, globals
<1>2. TypeOK'
  BY <1>0, <1>1 DEF TypeOK, Locs, EventLocs, table, clients, descriptors
<1>3. SessionHeld' /\ DatabaseHeld' /\ UdpHeld' /\ SongHeld'
  BY <1>0, <1>1, DescriptorsKept, Names
  DEF SessionHeld, DatabaseHeld, SongHeld, table
<1> QED BY <1>2, <1>3 DEF IInv

\* Where eventHandler returns to.
LEMMA ReturnFacts ==
  ASSUME NEW caller \in EventLocs, NEW mode, Return(caller, mode)
  PROVE  \/ caller = "songEvent" /\ loc' = "song" /\ networkMode' = mode
         \/ caller = "event1" /\ loc' = "event2" /\ networkMode' = "disconnect"
         \/ caller = "event2" /\ loc' = "loop" /\ networkMode' = mode
BY DEF Return, EventLocs

\* eventHandler without a datagram or with a command other than nextalbum.
LEMMA EventKeeps == IInv /\ (NoEvent \/ Event) => IInv'
<1> SUFFICES ASSUME IInv, NoEvent \/ Event PROVE IInv'
  OBVIOUS
<1>0. TypeOK /\ SessionHeld /\ DatabaseHeld /\ UdpHeld /\ SongHeld
  BY DEF IInv
<1>1. PICK mode \in NetworkModes :
        /\ loc \in EventLocs /\ Return(loc, mode)
        /\ mode = networkMode \/ mode = "connect"
        /\ playMode' \in PlayModes /\ exitMode' \in BOOLEAN
        /\ playAutomatic' \in BOOLEAN /\ mail' \in Seq(Commands)
        /\ UNCHANGED <<at, song, onlyAlbum, table, requested, sent, restarts,
                       descriptors, eof>>
  <2>1. CASE NoEvent
    BY <1>0, <2>1 DEF NoEvent, TypeOK, clients
  <2>2. CASE Event
    <3> DEFINE m == Head(mail)
    <3>1. m \in Commands /\ Tail(mail) \in Seq(Commands)
      BY <1>0, <2>2, HeadTailProperties DEF Event, TypeOK
    <3>2. /\ PlayModeAfter(m) \in PlayModes /\ NetworkModeAfter(m) \in NetworkModes
          /\ AutomaticAfter(m) \in BOOLEAN
      BY <1>0, <3>1, ModesTyped
    <3>3. NetworkModeAfter(m) = networkMode \/ NetworkModeAfter(m) = "connect"
      BY DEF NetworkModeAfter
    <3>4. exitMode' \in BOOLEAN
      BY <1>0, <2>2 DEF Event, TypeOK
    <3> QED BY <2>2, <3>1, <3>2, <3>3, <3>4 DEF Event
  <2> QED BY <2>1, <2>2
<1>2. \/ loc = "songEvent" /\ loc' = "song" /\ networkMode' = mode
      \/ loc = "event1" /\ loc' = "event2" /\ networkMode' = "disconnect"
      \/ loc = "event2" /\ loc' = "loop" /\ networkMode' = mode
  BY <1>1, ReturnFacts
<1>3. networkMode' \in NetworkModes
  BY <1>1, <1>2 DEF NetworkModes
<1>4. TypeOK'
  BY <1>0, <1>1, <1>2, <1>3
  DEF TypeOK, Locs, EventLocs, SongLocs, table, descriptors
<1>5. SessionHeld' /\ DatabaseHeld' /\ UdpHeld' /\ SongHeld'
  BY <1>0, <1>1, <1>2, DescriptorsKept, Names
  DEF SessionHeld, DatabaseHeld, SongHeld, table
<1> QED BY <1>4, <1>5 DEF IInv

\* nextalbum and the loop of skipToNextAlbum.
LEMMA SkipKeeps == IInv /\ (NextAlbum \/ SkipCancels \/ SkipReturns) => IInv'
<1> SUFFICES ASSUME IInv
             PROVE  NextAlbum \/ SkipCancels \/ SkipReturns => IInv'
  OBVIOUS
<1>0. TypeOK /\ SessionHeld /\ DatabaseHeld /\ UdpHeld /\ SongHeld
  BY DEF IInv
<1>1. ASSUME NextAlbum PROVE IInv'
  <2>0. onlyAlbum' \in BOOLEAN
    BY <1>0, <1>1, Zenon DEF NextAlbum, TypeOK
  <2>1. /\ loc \in EventLocs /\ DbIsOpen /\ at' = loc /\ loc' = "skip"
        /\ current' = NoSong
        /\ mail' = Tail(mail) /\ mail # <<>>
        /\ playMode' = PlayModeAfter("nextalbum")
        /\ UNCHANGED <<networkMode, exitMode, playAutomatic, song, waiting,
                       requested, sent, restarts, descriptors, eof>>
    BY <1>0, <1>1, Names DEF NextAlbum, DatabaseHeld
  <2>2. mail' \in Seq(Commands)
    BY <1>0, <2>1, HeadTailProperties DEF TypeOK
  <2>3. playMode' = "nextalbum"
    BY <2>1 DEF PlayModeAfter
  <2>4. TypeOK'
    BY <1>0, <2>0, <2>1, <2>2, <2>3 DEF TypeOK, Locs, PlayModes, descriptors
  <2>5. SessionHeld' /\ DatabaseHeld' /\ UdpHeld' /\ SongHeld'
    BY <1>0, <2>1, <2>3, DescriptorsKept, Names
    DEF SessionHeld, DatabaseHeld, SongHeld
  <2> QED BY <2>4, <2>5 DEF IInv
<1>2. ASSUME SkipCancels PROVE IInv'
  <2>1. TypeOK'
    BY <1>0, <1>2 DEF SkipCancels, TypeOK, globals, clients, descriptors
  <2>2. SessionHeld' /\ DatabaseHeld' /\ UdpHeld' /\ SongHeld'
    BY <1>0, <1>2, DescriptorsKept, Names
    DEF SkipCancels, SessionHeld, DatabaseHeld, SongHeld, globals
  <2> QED BY <2>1, <2>2 DEF IInv
<1>3. ASSUME SkipReturns PROVE IInv'
  <2>0. /\ loc = "skip" /\ Return(at, networkMode) /\ at \in EventLocs
        /\ waiting' \subseteq Songs \cup {Automatic}
        /\ onlyAlbum' = FALSE
        /\ UNCHANGED <<at, playMode, exitMode, playAutomatic, song, current,
                       clients, descriptors, eof>>
    BY <1>0, <1>3 DEF SkipReturns, TypeOK
  <2>1. \/ at = "songEvent" /\ loc' = "song" /\ networkMode' = networkMode
        \/ at = "event1" /\ loc' = "event2" /\ networkMode' = "disconnect"
        \/ at = "event2" /\ loc' = "loop" /\ networkMode' = networkMode
    BY <2>0, ReturnFacts
  <2>2. onlyAlbum' \in BOOLEAN
    BY <2>0, Zenon
  <2>3. TypeOK'
    BY <1>0, <2>0, <2>1, <2>2
    DEF TypeOK, Locs, EventLocs, SongLocs, NetworkModes, clients, descriptors
  <2>4. SessionHeld' /\ DatabaseHeld' /\ UdpHeld' /\ SongHeld'
    BY <1>0, <2>0, <2>1, DescriptorsKept, Names
    DEF SessionHeld, DatabaseHeld, SongHeld
  <2> QED BY <2>3, <2>4 DEF IInv
<1> QED BY <1>1, <1>2, <1>3

\* The clients and the life of the process.
LEMMA WorldKeeps == IInv /\ (Request \/ Send \/ Kill \/ Restart) => IInv'
<1> SUFFICES ASSUME IInv PROVE Request \/ Send \/ Kill \/ Restart => IInv'
  OBVIOUS
<1>0. TypeOK /\ SessionHeld /\ DatabaseHeld /\ UdpHeld /\ SongHeld
  BY DEF IInv
<1>1. ASSUME Request PROVE IInv'
  <2>1. requested' \in 0 .. MaxRequests /\ requested' \in Songs
    BY <1>0, <1>1, ConstantsAssumption
    DEF Request, TypeOK, Songs, ConstantsAssumption
  <2>2. waiting' \subseteq Songs \cup {Automatic}
    BY <1>0, <1>1, <2>1 DEF Request, TypeOK
  <2>3. TypeOK'
    BY <1>0, <1>1, <2>1, <2>2 DEF Request, TypeOK, globals, descriptors
  <2>4. SessionHeld' /\ DatabaseHeld' /\ UdpHeld' /\ SongHeld'
    BY <1>0, <1>1, DescriptorsKept, Names
    DEF Request, SessionHeld, DatabaseHeld, SongHeld, globals
  <2> QED BY <2>3, <2>4 DEF IInv
<1>2. ASSUME Send PROVE IInv'
  <2>1. mail' \in Seq(Commands)
    BY <1>0, <1>2, AppendProperties DEF Send, TypeOK
  <2>2. TypeOK'
    BY <1>0, <1>2, <2>1 DEF Send, TypeOK, globals, table, descriptors
  <2>3. SessionHeld' /\ DatabaseHeld' /\ UdpHeld' /\ SongHeld'
    BY <1>0, <1>2, DescriptorsKept, Names
    DEF Send, SessionHeld, DatabaseHeld, SongHeld, globals, table
  <2> QED BY <2>2, <2>3 DEF IInv
<1>3. ASSUME Kill PROVE IInv'
  <2>1. TypeOK'
    BY <1>0, <1>3
    DEF Kill, TypeOK, Locs, Stopped, globals, table, clients, descriptors
  <2>2. SessionHeld' /\ DatabaseHeld' /\ UdpHeld' /\ SongHeld'
    BY <1>0, <1>3, DescriptorsKept, Names
    DEF Kill, SessionHeld, DatabaseHeld, SongHeld, globals, table
  <2> QED BY <2>1, <2>2 DEF IInv
<1>4. ASSUME Restart PROVE IInv'
  <2>0. mail' \in Seq(Commands)
    BY <1>4 DEF Restart
  <2>1. exitMode' \in BOOLEAN /\ playAutomatic' \in BOOLEAN /\ onlyAlbum' \in BOOLEAN
        /\ eof' \in BOOLEAN
    BY <1>4, Zenon DEF Restart
  <2>2. TypeOK'
    BY <1>0, <1>4, <2>0, <2>1, BootFdsFacts, FdsFacts
    DEF Restart, TypeOK, Locs, EventLocs, NetworkModes, PlayModes, table
  <2>3. SessionHeld' /\ DatabaseHeld' /\ SongHeld'
    BY <1>4, Names DEF Restart, SessionHeld, DatabaseHeld, SongHeld
  <2>4. UdpHeld'
    BY <1>4, BootFdsFacts, FdsFacts DEF Restart, UdpHeld
  <2> QED BY <2>2, <2>3, <2>4 DEF IInv
<1> QED BY <1>1, <1>2, <1>3, <1>4

-----------------------------------------------------------------------------
(* The theorems.                                                           *)

\* Every step of the main loop, of a song and of the clients.
LEMMA StepKeeps == IInv /\ [Next]_vars => IInv'
<1> SUFFICES ASSUME IInv, [Next]_vars PROVE IInv'
  OBVIOUS
<1>1. CASE Next
  BY <1>1, OuterKeeps, ShutdownKeeps, DisconnectKeeps, ConnectSucceedsKeeps,
     ConnectFailsKeeps, LoopKeeps, PlaySongKeeps, EventKeeps, SkipKeeps,
     WorldKeeps
  DEF Next, Player
<1>2. CASE UNCHANGED vars
  <2>1. TypeOK'
    BY <1>2 DEF vars, IInv, TypeOK, globals, table, clients, descriptors
  <2>2. SessionHeld' /\ DatabaseHeld' /\ UdpHeld' /\ SongHeld'
    BY <1>2, DescriptorsKept, Names
    DEF vars, IInv, SessionHeld, DatabaseHeld, SongHeld, globals, table
  <2> QED BY <2>1, <2>2 DEF IInv
<1> QED BY <1>1, <1>2

\* The invariant of the main loop, of eventHandler and of raop's descriptors
\* holds in every state.
THEOREM Inductive == Spec => []IInv
BY InitEstablishes, StepKeeps, PTL DEF Spec

\* The modes, descriptors and songs keep their types.
THEOREM TypeCorrect == Spec => []TypeOK
<1>1. IInv => TypeOK
  BY DEF IInv
<1> QED BY <1>1, Inductive, PTL

\* PlaySong and getNextSongRecord never run without the connections they
\* use, whatever commands arrive and however connections fail.
THEOREM ConnectedWhilePlaying == Spec => []PlayingConnected
<1>1. IInv => PlayingConnected
  BY Names DEF IInv, SessionHeld, SessionOpen, DatabaseHeld, UdpHeld,
     PlayingConnected
<1> QED BY <1>1, Inductive, PTL

\* PlaySong never continues a song that skipToNextAlbum has cancelled.
THEOREM HeardSongIsCurrent == Spec => []PlayedSongIsCurrent
<1>1. IInv => PlayedSongIsCurrent
  BY DEF IInv, SongHeld, PlayedSongIsCurrent, InSong
<1> QED BY <1>1, Inductive, PTL

\* raop.Close and raop.Connect leave the AirPort's connection or nothing in
\* rtsp.fd.
LEMMA RtspStep == IInv /\ RtspHeld /\ [Next]_vars => RtspHeld'
<1> SUFFICES ASSUME IInv, RtspHeld, [Next]_vars PROVE RtspHeld'
  OBVIOUS
<1>0. TypeOK /\ fds \in [Fds -> Uses] /\ rtspFd \in Fds \cup {None}
  BY DEF IInv, TypeOK
<1>1. CASE Outer \/ Shutdown
  BY <1>1, Names DEF Outer, Shutdown, RtspHeld
<1>2. CASE Disconnect
  <2>1. CASE networkMode = "disconnect"
    BY <1>0, <1>2, <2>1
    DEF Disconnect, RaopClose, Closed, RtspHeld, RtspQuiet
  <2>2. CASE networkMode # "disconnect"
    BY <1>2, <2>2, Names DEF Disconnect, RtspHeld, RtspQuiet
  <2> QED BY <2>1, <2>2
<1>3. CASE ConnectSucceeds
  <2> DEFINE f == Opened(fds, "rtsp")
  <2>1. /\ f \in [Fds -> Uses] /\ rtspFd' \in Fds /\ f[rtspFd'] = "rtsp"
    BY <1>0, <1>3, OpenedFacts, LowestFree DEF ConnectSucceeds, Uses
  <2>2. fds' = Opened(f, "stream") /\ "stream" \in Uses
    BY <1>3 DEF ConnectSucceeds, Uses
  <2> HIDE DEF f
  <2>3. fds'[rtspFd'] = "rtsp"
    BY <2>1, <2>2, OpenedFacts
  <2> QED BY <2>1, <2>3 DEF RtspHeld, RtspQuiet
<1>4. CASE ConnectFails
  <2>1. rtspFd' \in Fds \cup {None}
    BY <1>0, <1>4, LowestFree DEF ConnectFails
  <2>2. fds' = Closed(Opened(fds, "rtsp"), {rtspFd', sfd'})
    BY <1>4 DEF ConnectFails
  <2> QED BY <2>1, <2>2 DEF Closed, RtspHeld, RtspQuiet
<1>5. CASE Restart
  BY <1>5, Names DEF Restart, RtspHeld
<1>6. ASSUME UNCHANGED descriptors, loc' \in {loc} \cup Stopped,
             networkMode' = networkMode
      PROVE  RtspHeld'
  BY <1>6, Names DEF descriptors, RtspHeld, RtspQuiet
<1>7. CASE Request \/ Send \/ Kill \/ UNCHANGED vars
  BY <1>6, <1>7, Names DEF Request, Send, Kill, vars, globals
<1>8. ASSUME UNCHANGED descriptors, loc \notin Stopped \cup {"outer", "loop"}
      PROVE  RtspHeld'
  BY <1>8, Names DEF descriptors, RtspHeld, RtspQuiet
<1>9. CASE \/ SkipConnect \/ Wait \/ Normal \/ NextSong \/ LeaveNormal
          \/ PlaySample \/ EndOfFile \/ PeerCloses \/ EndSong
          \/ NoEvent \/ Event \/ NextAlbum \/ SkipCancels \/ SkipReturns
  BY <1>8, <1>9, Names
  DEF SkipConnect, Wait, Normal, NextSong, LeaveNormal, PlaySample, EndOfFile,
      PeerCloses, EndSong, InSong, NoEvent, Event, NextAlbum, SkipCancels,
      SkipReturns
<1> QED
  BY <1>1, <1>2, <1>3, <1>4, <1>5, <1>7, <1>9 DEF Next, Player

\* When eventHandler handles a command, what UpdateVolume would write to is
\* the AirPort's connection or nothing, whatever was closed, left stale and
\* opened again before.
THEOREM VolumeHeardByAirPort == Spec => []VolumeToAirPortOnly
<1>1. Init => RtspHeld
  BY DEF Init, RtspHeld
<1>2. RtspHeld => VolumeToAirPortOnly
  BY Names DEF RtspHeld, VolumeToAirPortOnly
<1> QED BY <1>1, <1>2, RtspStep, Inductive, PTL DEF Spec
=============================================================================
