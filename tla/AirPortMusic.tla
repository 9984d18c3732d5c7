---------------------------- MODULE AirPortMusic ----------------------------
(***************************************************************************)
(* The player's main loop, its command handler and the control of a song   *)
(* (AirPortMusic.cpp), with the descriptors its connections use.           *)
(*                                                                         *)
(* One thread runs everything.  It talks to the play queue (the routines   *)
(* of MusicDB.cpp, each taken as one step here; module MusicDB has their   *)
(* statements), to the AirPort (RAOPClient::Open, Connect and Close) and   *)
(* to the clients that send it one-word datagrams.  Commands are read only *)
(* in eventHandler, one at a time, at three places: in the loop of a song, *)
(* after the loop of songs, and at the end of the main loop.               *)
(*                                                                         *)
(* A lost datagram is one the clients never sent, a reordered pair is one  *)
(* they sent in the other order: the clients of this model send anything.  *)
(***************************************************************************)
EXTENDS Integers, Sequences, FiniteSets

CONSTANTS
  MaxRequests,  \* bound: songs the web application ever requests
  MaxSends,     \* bound: datagrams the clients ever send
  MaxMail,      \* bound: datagrams the socket buffer holds
  MaxRestarts,  \* bound: times the server is started again
  MaxFd         \* the largest descriptor; 1 and 2 stay with the terminal

ASSUME ConstantsAssumption ==
  /\ MaxRequests \in Nat /\ MaxSends \in Nat /\ MaxMail \in Nat
  /\ MaxRestarts \in Nat /\ MaxFd \in Nat /\ MaxFd >= 4

VARIABLES
  loc,           \* where the thread is
  at,            \* the eventHandler call that runs, or ran, skipToNextAlbum
  networkMode, playMode, exitMode, playAutomatic, \* globals
  song,          \* main's pQR.id: the song PlaySong decodes
  onlyAlbum,     \* skipToNextAlbum: each automatic song is of the album it leaves
  waiting,       \* rows of playq "In Queue"
  current,       \* row of playq "Currently Playing"
  requested,     \* requests so far
  mail,          \* datagrams in the socket buffer
  sent,          \* datagrams so far
  fds,           \* what each descriptor is open for
  rtspFd, sfd, dbFd, \* RTSPClient::fd, RAOPClient::sfd, the MySQL connection
  eof,           \* the AirPort has closed the stream and read returned 0
  restarts

globals == <<networkMode, playMode, exitMode, playAutomatic>>
table == <<waiting, current>>
descriptors == <<fds, rtspFd, sfd, dbFd>>
clients == <<requested, mail, sent, restarts>>
vars == <<loc, at, globals, song, onlyAlbum, table, clients, descriptors, eof>>

NoSong == 0                    \* "if id = 0 then no rows were returned"
Songs == 1 .. MaxRequests
Automatic == MaxRequests + 1   \* any song the automatic query adds

Fds == {0} \cup 3 .. MaxFd
Uses == {"free", "stdin", "udp", "db", "rtsp", "stream"}
UdpFd == 3                     \* the first socket the program opens
None == -1

EventLocs == {"songEvent", "event1", "event2"}
SongLocs == {"song", "songEvent"}
Stopped == {"exited", "crashed"}
Locs == {"outer", "loop", "connect", "wait", "normal", "next", "skip"}
        \cup EventLocs \cup SongLocs \cup Stopped

Free(f) == {n \in Fds : f[n] = "free"}
\* socket() takes the lowest free descriptor, -1 when there is none.
Lowest(f) == IF Free(f) = {} THEN None
             ELSE CHOOSE n \in Free(f) : \A m \in Free(f) : n <= m
Opened(f, use) ==
  IF Free(f) = {} THEN f ELSE [f EXCEPT ![Lowest(f)] = use]
\* close() frees a descriptor whatever it is open for.
Closed(f, ns) == [n \in Fds |-> IF n \in ns THEN "free" ELSE f[n]]

\* Variant: the control connection is not closed.
RaopCloseStreamOnly(f) == Closed(f, {sfd})

\* RAOPClient::Close: neither rtsp.fd nor sfd is reset.
RaopClose(f) == Closed(f, {rtspFd, sfd})

DbIsOpen == dbFd \in Fds /\ fds[dbFd] = "db"

\* The descriptors of a process that has opened its datagram socket.
BootFds == [n \in Fds |-> IF n = 0 THEN "stdin"
                          ELSE IF n = UdpFd THEN "udp" ELSE "free"]

Init ==
  /\ loc = "outer" /\ at = "event2"
  /\ networkMode = "disconnect" /\ playMode = "play"
  /\ exitMode = FALSE /\ playAutomatic = FALSE
  /\ song = NoSong /\ onlyAlbum = FALSE
  /\ mail = <<>>
  /\ fds = BootFds /\ rtspFd = 0 /\ sfd = 0 /\ dbFd = None
  /\ eof = FALSE
  /\ waiting = {} /\ current = NoSong /\ requested = 0
  /\ sent = 0 /\ restarts = 0

-----------------------------------------------------------------------------
(* The main loop.                                                          *)

\* The head of the outer loop.
Outer ==
  /\ loc = "outer"
  /\ IF exitMode
     THEN /\ loc' = "exited"
          /\ fds' = Closed(fds, {UdpFd})
          /\ UNCHANGED <<networkMode, playMode, dbFd>>
     ELSE /\ loc' = "loop"
          /\ playMode' = "play" /\ networkMode' = "disconnect"
          /\ dbFd' = Lowest(fds)
          /\ fds' = Opened(fds, "db")
  /\ UNCHANGED <<at, exitMode, playAutomatic, song, onlyAlbum, table, clients,
                 rtspFd, sfd, eof>>

\* The end of the outer loop: CloseDBConnection and raop.Close.
Shutdown ==
  /\ loc = "loop" /\ playMode = "quit"
  /\ fds' = RaopClose(Closed(fds, {dbFd}))
  /\ loc' = "outer"
  /\ eof' = FALSE
  /\ UNCHANGED <<at, globals, song, onlyAlbum, table, clients,
                 rtspFd, sfd, dbFd>>

Disconnect ==
  /\ loc = "loop" /\ playMode # "quit"
  /\ loc' = "connect"
  /\ IF networkMode = "disconnect"
     THEN fds' = RaopClose(fds) /\ networkMode' = "wait" /\ eof' = FALSE
     ELSE UNCHANGED <<fds, networkMode, eof>>
  /\ UNCHANGED <<at, playMode, exitMode, playAutomatic, song, onlyAlbum, table,
                 clients, rtspFd, sfd, dbFd>>

(* RAOPClient::Connect: the RTSP handshake, then the stream.               *)
ConnectSucceeds ==
  /\ loc = "connect" /\ networkMode = "connect"
  /\ LET f == Opened(fds, "rtsp")
     IN /\ Free(fds) # {} /\ Free(f) # {}
        /\ rtspFd' = Lowest(fds) /\ sfd' = Lowest(f)
        /\ fds' = Opened(f, "stream")
  /\ networkMode' = "normal" /\ playMode' = "play"
  /\ eof' = FALSE
  /\ loc' = "wait"
  /\ UNCHANGED <<at, exitMode, playAutomatic, song, onlyAlbum, table, clients, dbFd>>

\* Variant: the result of raop.Connect is not looked at.
ConnectUnchecked ==
  /\ loc = "connect" /\ networkMode = "connect"
  /\ rtspFd' = Lowest(fds)
  /\ sfd' \in IF Free(fds) = {} THEN {sfd} ELSE {sfd, None}
  /\ fds' = Closed(Opened(fds, "rtsp"), {rtspFd', sfd'})
  /\ networkMode' = "normal" /\ playMode' = "play"
  /\ eof' = FALSE
  /\ loc' = "wait"
  /\ UNCHANGED <<at, exitMode, playAutomatic, song, onlyAlbum, table, clients, dbFd>>

(* It fails before the stream is opened, which leaves sfd as it was, or    *)
(* the stream fails, which sets it to -1; then raop.Close.                 *)
ConnectFails ==
  /\ loc = "connect" /\ networkMode = "connect"
  /\ rtspFd' = Lowest(fds)
  /\ sfd' \in IF Free(fds) = {} THEN {sfd} ELSE {sfd, None}
  /\ fds' = Closed(Opened(fds, "rtsp"), {rtspFd', sfd'})
  /\ networkMode' = "wait" /\ playMode' = "play"
  /\ eof' = FALSE
  /\ loc' = "wait"
  /\ UNCHANGED <<at, exitMode, playAutomatic, song, onlyAlbum, table, clients, dbFd>>

SkipConnect ==
  /\ loc = "connect" /\ networkMode # "connect"
  /\ loc' = "wait"
  /\ UNCHANGED <<at, globals, song, onlyAlbum, table, clients, descriptors, eof>>

\* Variant: requests are not looked for, only automatic mode.
WaitIgnoresQueue ==
  /\ loc = "wait"
  /\ loc' = IF networkMode = "wait" /\ ~DbIsOpen THEN "crashed" ELSE "normal"
  /\ IF networkMode # "wait" \/ ~DbIsOpen
     THEN UNCHANGED <<networkMode, playMode>>
     ELSE IF playAutomatic
     THEN networkMode' = "connect" /\ playMode' = "play"
     ELSE playMode' = "pause" /\ UNCHANGED networkMode
  /\ UNCHANGED <<at, exitMode, playAutomatic, song, onlyAlbum, table, clients,
                 descriptors, eof>>

\* isSongAvailableInPlayQ: a failed query is a NULL result, dereferenced.
Wait ==
  /\ loc = "wait"
  /\ IF networkMode # "wait"
     THEN loc' = "normal" /\ UNCHANGED <<networkMode, playMode>>
     ELSE IF ~DbIsOpen
     THEN loc' = "crashed" /\ UNCHANGED <<networkMode, playMode>>
     ELSE /\ loc' = "normal"
          /\ IF waiting # {} \/ playAutomatic
             THEN networkMode' = "connect" /\ playMode' = "play"
             ELSE playMode' = "pause" /\ UNCHANGED networkMode
  /\ UNCHANGED <<at, exitMode, playAutomatic, song, onlyAlbum, table, clients,
                 descriptors, eof>>

\* Variant: commands are looked at only after songs.
NormalSkipsEvents ==
  /\ loc = "normal"
  /\ loc' = IF networkMode = "normal" THEN "next" ELSE "loop"
  /\ UNCHANGED <<at, globals, song, onlyAlbum, table, clients, descriptors, eof>>

Normal ==
  /\ loc = "normal"
  /\ loc' = IF networkMode = "normal" THEN "next" ELSE "event2"
  /\ UNCHANGED <<at, globals, song, onlyAlbum, table, clients, descriptors, eof>>

(* The loop of songs: getNextSongRecord retires the current row and takes  *)
(* one that waits (the web page may have arranged them in any order), or   *)
(* an automatic one; PlaySong opens the file.                              *)
NextSong ==
  /\ loc = "next" /\ playMode = "play"
  /\ IF ~DbIsOpen
     THEN /\ loc' = "crashed"
          /\ UNCHANGED <<song, table, playMode, networkMode>>
     ELSE IF waiting = {} /\ ~playAutomatic
     THEN /\ song' = NoSong /\ current' = NoSong
          /\ playMode' = "stop" /\ networkMode' = "disconnect"
          /\ UNCHANGED <<loc, waiting>>
     ELSE /\ \E s \in IF waiting = {} THEN {Automatic} ELSE waiting :
               song' = s /\ current' = s /\ waiting' = waiting \ {s}
          /\ loc' = "song"
          /\ UNCHANGED <<playMode, networkMode>>
  /\ UNCHANGED <<at, exitMode, playAutomatic, onlyAlbum, clients, descriptors, eof>>

LeaveNormal ==
  /\ loc = "next" /\ playMode # "play"
  /\ loc' = "event1"
  /\ UNCHANGED <<at, globals, song, onlyAlbum, table, clients, descriptors, eof>>

-----------------------------------------------------------------------------
(* PlaySong.                                                               *)

InSong == loc = "song" /\ playMode = "play"

\* A sample is sent and the stream is serviced.
PlaySample ==
  /\ InSong /\ ~eof
  /\ loc' = "songEvent"
  /\ UNCHANGED <<at, globals, song, onlyAlbum, table, clients, descriptors, eof>>

EndOfFile ==
  /\ InSong
  /\ playMode' = "nextsong"
  /\ loc' = "songEvent"
  /\ UNCHANGED <<at, networkMode, exitMode, playAutomatic, song, onlyAlbum, table,
                 clients, descriptors, eof>>

\* rd_fd_event_callback reads 0: "disconnected on the other end".
PeerCloses ==
  /\ InSong
  /\ eof' = TRUE
  /\ playMode' = "quit"
  /\ loc' = "songEvent"
  /\ UNCHANGED <<at, networkMode, exitMode, playAutomatic, song, onlyAlbum, table,
                 clients, descriptors>>

\* "Set playmode back to play... since we are out of the play loop".
EndSong ==
  /\ loc = "song" /\ playMode # "play"
  /\ playMode' = "play"
  /\ loc' = "next"
  /\ UNCHANGED <<at, networkMode, exitMode, playAutomatic, song, onlyAlbum, table,
                 clients, descriptors, eof>>

-----------------------------------------------------------------------------
(* eventHandler: one datagram at most, matched against the command words.  *)

Commands == {"quit", "pause", "playautomatic", "playmanual", "stop", "play",
             "exit", "volume", "nextalbum", "nextsong"}

\* Variant: exit sets the wrong mode variable.
PlayModeTypo(m) ==
  CASE m = "quit" -> "quit"
    [] m = "exit" -> "exit"
    [] m \in {"playautomatic", "play"} -> "play"
    [] m \in {"pause", "stop", "nextalbum", "nextsong"} -> m
    [] OTHER -> playMode

\* Variant: nextalbum leaves the mode alone.
PlayModeKept(m) ==
  CASE m \in {"quit", "exit"} -> "quit"
    [] m \in {"playautomatic", "play"} -> "play"
    [] m \in {"pause", "stop", "nextsong"} -> m
    [] OTHER -> playMode

PlayModeAfter(m) ==
  CASE m \in {"quit", "exit"} -> "quit"
    [] m \in {"playautomatic", "play"} -> "play"
    [] m \in {"pause", "stop", "nextalbum", "nextsong"} -> m
    [] OTHER -> playMode

NetworkModeAfter(m) ==
  IF m \in {"playautomatic", "play"} THEN "connect" ELSE networkMode
AutomaticAfter(m) ==
  CASE m = "playautomatic" -> TRUE
    [] m \in {"playmanual", "exit"} -> FALSE
    [] OTHER -> playAutomatic

(* Where each of the three calls returns to; the one after the loop of     *)
(* songs is followed by networkMode = NETWORK_ACTION_DISCONNECT.           *)
Return(caller, mode) ==
  /\ loc' = CASE caller = "songEvent" -> "song"
              [] caller = "event1" -> "event2"
              [] caller = "event2" -> "loop"
  /\ networkMode' = IF caller = "event1" THEN "disconnect" ELSE mode

NoEvent ==
  /\ loc \in EventLocs /\ mail = <<>>
  /\ Return(loc, networkMode)
  /\ UNCHANGED <<at, playMode, exitMode, playAutomatic, song, onlyAlbum, table,
                 clients, descriptors, eof>>

Event ==
  /\ loc \in EventLocs /\ mail # <<>> /\ Head(mail) # "nextalbum"
  /\ LET m == Head(mail)
     IN /\ playMode' = PlayModeAfter(m)
        /\ exitMode' = (exitMode \/ m = "exit")
        /\ playAutomatic' = AutomaticAfter(m)
        /\ Return(loc, NetworkModeAfter(m))
  /\ mail' = Tail(mail)
  /\ UNCHANGED <<at, song, onlyAlbum, table, requested, sent, restarts,
                 descriptors, eof>>

\* nextalbum: skipToNextAlbum first cancels the row that plays.
NextAlbum ==
  /\ loc \in EventLocs /\ mail # <<>> /\ Head(mail) = "nextalbum"
  /\ mail' = Tail(mail)
  /\ playMode' = PlayModeAfter("nextalbum")
  /\ IF DbIsOpen
     THEN loc' = "skip" /\ onlyAlbum' \in BOOLEAN /\ current' = NoSong
     ELSE loc' = "crashed" /\ UNCHANGED <<onlyAlbum, current>>
  /\ at' = loc
  /\ UNCHANGED <<networkMode, exitMode, playAutomatic, song, waiting, requested,
                 sent, restarts, descriptors, eof>>

(* A turn of the loop of skipToNextAlbum.  The head of the queue has the   *)
(* album that is left and is cancelled, or another, which ends the loop.   *)
(* When no row plays the album is never assigned and may equal any.  An    *)
(* empty queue gets the next automatic song of another album; the turns    *)
(* that find none change nothing here (MusicDB has the offset they move).  *)
SkipCancels ==
  /\ loc = "skip"
  /\ \E s \in waiting : waiting' = waiting \ {s}
  /\ UNCHANGED <<loc, at, globals, song, onlyAlbum, current, clients,
                 descriptors, eof>>

SkipReturns ==
  /\ loc = "skip"
  /\ \/ waiting # {} /\ UNCHANGED waiting
     \/ waiting = {} /\ playAutomatic /\ ~onlyAlbum /\ waiting' = {Automatic}
  /\ Return(at, networkMode)
  /\ onlyAlbum' = FALSE
  /\ UNCHANGED <<at, playMode, exitMode, playAutomatic, song, current,
                 clients, descriptors, eof>>

-----------------------------------------------------------------------------
(* The web application, the shell scripts, and the life of the process.    *)

Request ==
  /\ requested < MaxRequests
  /\ requested' = requested + 1
  /\ waiting' = waiting \cup {requested'}
  /\ UNCHANGED <<loc, at, globals, song, onlyAlbum, current, mail, sent, restarts,
                 descriptors, eof>>

\* One of the scripts (exit.sh and the others) runs clientUDP with its word.
Send ==
  /\ loc \notin Stopped
  /\ sent < MaxSends /\ Len(mail) < MaxMail
  /\ sent' = sent + 1
  /\ \E m \in Commands : mail' = Append(mail, m)
  /\ UNCHANGED <<loc, at, globals, song, onlyAlbum, table, requested, restarts,
                 descriptors, eof>>

Kill ==
  /\ loc \notin Stopped /\ restarts < MaxRestarts
  /\ loc' = "crashed"
  /\ UNCHANGED <<at, globals, song, onlyAlbum, table, clients, descriptors, eof>>

(* start of musicServer.sh.  Its test for a running player looks for        *)
(* AirPortTalk, not AirPortMusic, so it may start a second one beside the  *)
(* first.  This module has one player.  The second gets no datagram, as    *)
(* its bind fails, and shares only the tables and the AirPort.             *)
Restart ==
  /\ loc \in Stopped /\ restarts < MaxRestarts
  /\ restarts' = restarts + 1
  /\ loc' = "outer" /\ at' = "event2"
  /\ networkMode' = "disconnect" /\ playMode' = "play"
  /\ exitMode' = FALSE /\ playAutomatic' = FALSE
  /\ song' = NoSong /\ onlyAlbum' = FALSE
  /\ mail' = <<>>
  /\ fds' = BootFds /\ rtspFd' = 0 /\ sfd' = 0 /\ dbFd' = None
  /\ eof' = FALSE
  /\ UNCHANGED <<table, requested, sent>>

Player ==
  \/ Outer \/ Shutdown \/ Disconnect \/ ConnectSucceeds \/ ConnectFails
  \/ SkipConnect \/ Wait \/ Normal
  \/ NextSong \/ LeaveNormal
  \/ PlaySample \/ EndOfFile \/ PeerCloses \/ EndSong
  \/ NoEvent \/ Event \/ NextAlbum \/ SkipCancels \/ SkipReturns

Next == Player \/ Request \/ Send \/ Kill \/ Restart

Spec == Init /\ [][Next]_vars

(* The thread runs, an AirPort that is tried again and again answers at    *)
(* last, and every file ends.                                              *)
FairSpec ==
  /\ Spec
  /\ WF_vars(Player)
  /\ SF_vars(ConnectSucceeds)
  /\ SF_vars(EndOfFile)

-----------------------------------------------------------------------------
(* Properties.                                                             *)

NetworkModes == {"connect", "disconnect", "normal", "wait"}
PlayModes == {"play", "pause", "stop", "quit", "nextsong", "nextalbum"}

TypeOK ==
  /\ loc \in Locs /\ at \in EventLocs
  /\ networkMode \in NetworkModes /\ playMode \in PlayModes
  /\ exitMode \in BOOLEAN /\ playAutomatic \in BOOLEAN
  /\ onlyAlbum \in BOOLEAN /\ eof \in BOOLEAN
  /\ waiting \subseteq Songs \cup {Automatic}
  /\ current \in Songs \cup {Automatic, NoSong}
  /\ song \in Songs \cup {Automatic, NoSong}
  /\ mail \in Seq(Commands)
  /\ requested \in 0 .. MaxRequests /\ sent \in Nat /\ restarts \in Nat
  /\ fds \in [Fds -> Uses]
  /\ rtspFd \in Fds \cup {None} /\ sfd \in Fds \cup {None}
  /\ dbFd \in Fds \cup {None}

(* While PlaySong runs, its samples, its queries and its commands have     *)
(* open connections, although commands that set networkMode are handled in *)
(* the middle of a song, connections fail half way and raop.Close closes   *)
(* whatever descriptors the previous ones left in rtsp.fd and sfd.         *)
PlayingConnected ==
  loc \in {"next"} \cup SongLocs =>
    /\ rtspFd \in Fds /\ fds[rtspFd] = "rtsp"
    /\ sfd \in Fds /\ fds[sfd] = "stream"
    /\ DbIsOpen /\ fds[UdpFd] = "udp"

(* RAOPClient::UpdateVolume writes to whatever rtsp.fd is.  Whenever a     *)
(* command is handled that is the AirPort's connection or nothing: never   *)
(* the database connection, the datagram socket or the stream, although    *)
(* raop.Close and the failed connections leave stale descriptors in it     *)
(* whose numbers are given out again.                                      *)
RtspQuiet == rtspFd = None \/ (rtspFd \in Fds /\ fds[rtspFd] \in {"rtsp", "free"})
VolumeToAirPortOnly == loc \in EventLocs => RtspQuiet

(* The song that is heard is the row "Currently Playing": skipToNextAlbum, *)
(* called in the middle of PlaySong, retires that row, and the song of a   *)
(* retired row is not continued.                                           *)
PlayedSongIsCurrent == InSong => current = song /\ song # NoSong

(* A requested song is started or dropped by a skip, whatever commands     *)
(* come, unless the server stops: pause and stop do not hold the queue     *)
(* back for good, and a connection that fails is tried again.              *)
QueueDrains ==
  \A s \in Songs : s \in waiting ~> (s \notin waiting \/ loc \in Stopped)

(* The commands that arrive are all read, in every mode of the main loop   *)
(* and of a song, unless the server stops or skipToNextAlbum is never left *)
(* again.  Only a search without an end does that: nothing is requested,   *)
(* and the player is in manual mode, or each automatic song is of the      *)
(* album that is left.                                                     *)
Searching == loc = "skip" /\ waiting = {} /\ (playAutomatic => onlyAlbum)
CommandsHandled ==
  mail # <<>> ~> (mail = <<>> \/ loc \in Stopped \/ []Searching)

(* musicServer.sh sends "exit" and reports "stopped": the server stops.    *)
ExitStops == exitMode ~> loc \in Stopped

(* "close RTSP stream to AirPort", "close RAOP stream to AirPort":         *)
(* raop.Close closes nothing else.                                         *)
ClosesAirPortOnly ==
  [][loc = "loop" /\ loc' = "connect" =>
       \A n \in Fds : fds[n] = "db" => fds'[n] = "db"]_vars

-----------------------------------------------------------------------------
(* The inductive invariant.                                                *)

SessionOpen ==
  /\ rtspFd \in Fds /\ fds[rtspFd] = "rtsp"
  /\ sfd \in Fds /\ fds[sfd] = "stream"

\* From the connection to the event handler after the songs it stays open.
SessionHeld ==
  \/ loc \in {"next", "event1"} \cup SongLocs
  \/ loc = "skip" /\ at \in {"songEvent", "event1"}
  \/ loc \notin Stopped \cup {"outer"} /\ networkMode = "normal"
  => SessionOpen

\* A closed database connection is met in "wait", before any other use.
DatabaseHeld ==
  /\ loc \in {"normal", "next", "skip"} \cup EventLocs \cup SongLocs => DbIsOpen
  /\ loc \in {"connect", "wait"} => networkMode # "disconnect"
  /\ loc \in {"loop", "connect", "wait"} /\ networkMode \in {"connect", "normal"}
       => DbIsOpen

\* The datagram socket is no other descriptor, whatever is closed twice.
UdpHeld ==
  loc # "exited" =>
    /\ fds[UdpFd] = "udp"
    /\ UdpFd \notin {rtspFd, sfd, dbFd}

\* A song whose row was retired is left without another sample.
SongHeld ==
  /\ loc = "songEvent" \/ (loc = "song" /\ playMode # "nextalbum")
       => current = song /\ song # NoSong
  /\ loc = "skip" => playMode = "nextalbum"

\* Until the first raop.Close, rtsp.fd may have the number of another descriptor.
RtspHeld ==
  loc \notin Stopped \cup {"outer"} /\ (loc = "loop" => networkMode # "disconnect")
    => RtspQuiet

(* What the main loop relies on between raop.Connect and raop.Close.       *)
IInv == TypeOK /\ SessionHeld /\ DatabaseHeld /\ UdpHeld /\ SongHeld
=============================================================================
