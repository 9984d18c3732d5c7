# AirportMusic in TLA+

AirportMusic is a jukebox: a web application puts songs into a MySQL table, and
a player process (`src/src/*.cpp`) takes them out, decodes each with `mpg123`
and streams it to an Apple AirPort Express over RTSP/RAOP. Shell scripts and the
web page control the player with one-word UDP datagrams.

This directory holds TLA+ modules of the player, TLC configurations that check
them on small instances, and TLAPS proofs for every value of their constants.

## The system

### Components

| component | code | state | operations | modules |
|---|---|---|---|---|
| play queue | `MusicDB.cpp`, `MusicTableDataDescription.sql` | tables `playq`, `songlibrary.PlayCount`, `AutoSongQuery.rowOffset`; global `playAutomatic` | `getNextSongRecord`, `skipToNextAlbum`, `isSongAvailableInPlayQ` and the statements they run | `MusicDB`, `PlayQueue` |
| main loop and commands | `AirPortMusic.cpp`: `main`, `eventHandler`, control of `PlaySong` | `playMode`, `networkMode`, `exitMode`, the descriptors of the database, RTSP, stream and datagram sockets | turns of the two loops, ten command words | `AirPortMusic` |
| sending a song | `AirPortMusic.cpp`: `PlaySong`, `FDhandler`, `fd_event_callback`, `rd_fd_event_callback`; `RAOPClient::SendSample` | `raop.data`, `wblk_wsize`, `wblk_remsize`, `FDflags`, the locals `buf` and `size` | read a chunk, build a packet, select, read, write | `RAOPSender` |
| RAOP session, RTSP client, TCP socket | `RAOPClient.cpp`, `RTSPClient.cpp`, `TCPSocket.cpp` | `sfd`, `fd`, `sd`, `cseq`, session, port, extra headers | connect, the RTSP requests, volume, close | `RTSPClient`; the descriptors in `AirPortMusic` |
| MP3 decoder process | `MP3Stream.cpp` | child process, three pipes, `programID` | fork, exec, read, kill, wait | `Decoder` |
| audio stream | `AudioStream.cpp`, `AudioStream.h` | the buffer and its bit position | `WritePCM`, `bits_write` | `Packets`; what it returns to `PlaySong` in `RAOPSender` |
| encryption, encodings | `RAOPClient.cpp` from `Encrypt` on | key, vector, key schedules | AES, CBC, Base64, RSA | `Aes`, `Packets`; RSA not modelled |
| configuration | `configurationFile.cpp` | read once | parse an XML file | not modelled |
| scripts, web application | `*.sh`, `Music.war` | none in the player | send datagrams, insert and arrange rows, start the server | environment actions; players beside each other in `Decoder` |
| logging (DLiriumLib) | not in the repository | none the player reads | print | not modelled |

### How they interact

The player has one thread. `main` calls the routines of `MusicDB`, opens and
closes the RAOP session, and calls `PlaySong` for each song; `PlaySong` calls the
decoder, `SendSample`, `FDhandler` and `eventHandler` in turn. They share global
variables: `playMode` alone is written by `main`, `PlaySong`, `eventHandler` and
the read callback; `networkMode` by `main` and `eventHandler`; the packet counters by
`SendSample` and both callbacks. Outside the thread there are the web
application, which writes to the same tables between any two SQL statements, the
clients that send datagrams at any moment, the AirPort, which accepts, answers, stalls or
closes connections, `mpg123`, a process with copies of all the player's descriptors, and the
init script, which starts and stops the process, and may start a second one beside it: its test for a
running player looks for `AirPortTalk`, and the program is `AirPortMusic`.

### What is hard about it

* *Interleaving and crashes in the queue.* Every SQL statement is a round trip of
  its own, without transactions (MyISAM). What one routine does takes eight
  statements and more; the web page writes between them, the process may die between them,
  and a statement that fails is only logged.
* *Modes written from several places.* A command is read in the middle of a song,
  after the songs or at the end of the main loop, and what it writes may be
  overwritten by the code it returns to.
* *Stale numbers.* `rtsp.fd` and `sfd` keep their value after `close`, and
  `rtsp.fd` is closed twice; the counters of the packet buffer are never reset
  between songs or sessions; `FDhandler` tests bits from before the read callback
  wrote; `programID` names a process that may be gone.
* *Answers out of step.* `read_line` gives up after a timeout and the late line stays in the
  socket; no `CSeq` is compared; a handshake may fail in its middle, with headers added that
  the next must not send.
* *Two processes and a pipe.* The end of a song is the end of file on a pipe whose write end
  every process forked so far may hold; `waitpid` blocks the only thread.
* *Two players.* Players that run beside each other use the same tables without knowing of each other, and
  compete for the datagram port and the AirPort.
* *Bits.* Chunks are packed at an offset of seven bits into a buffer that is used again; packets
  are chained blocks, cut and sent again.
* *Liveness.* The only thread is in a loop of `skipToNextAlbum`, of a song, of a handshake or of
  `main`: each must end, or come back to the datagrams.

What makes each component correct:

* play queue: songs start in their turn, one at a time, and each ends in one way; times and
  counts fit; automatic songs take turns and do not pile up; a call returns;
* main loop: a song is sent only on open connections and only while its row is
  current; requests are started or dropped; commands are read;
* sending: flags, counters and buffer agree; chunks go out once, in order; a song
  ends;
* RTSP: a request succeeds by its own answer; a session is the AirPort's of this connection;
  calls return;
* decoder: nothing is left behind by a song; no process id is kept from one song to the next; `Close` returns;
* packets: the AirPort can read them, one by one, with what the session announced.

`PROJECT.json` lists each hazard at its line with the properties that cover it.

## The modules

### MusicDB and PlayQueue

`MusicDB` has one step per SQL statement. `pc` names the statement the player runs next and
`op` the routine it belongs to, so that one set of actions serves both
`getNextSongRecord` and `skipToNextAlbum`:

    getCurrent -> markOld -> endOld -> countOld -> queryQ -> fetchQ -> beginTime -> markPlaying      (next)
    getCurrent -> markOld -> endOld -> queryQ -> fetchQ -> cancelNext -> endNext -> queryQ ...        (skip)
    queryQ -> queryAuto [-> zeroOffset -> queryAuto] -> bumpOffset -> insertAuto -> fetchQ            (automatic)

`playq` is a sequence of rows whose index is the id. Times are Booleans (written
or still the default). A song's name, artist and location are left out; its album
is the constant function `Album`. `AutoList` is the result of the active automatic
query. `queryAutomaticSong` makes two SELECTs in one step, because the tables they read
(`AutoSongQuery`, `songlibrary`) are taken to be written by the player alone; either may fail. `WebAddSong` and `WebArrange` stand
for the web application, `Kill` for the operating system and `Restart` for `start` of `musicServer.sh`. A NULL result or row
that the code dereferences leads to `segv`. An
uninitialised album that `skipToNextAlbum` compares is a choice of both outcomes.

`PlayQueue` is the abstract specification: songs wait, one at a time plays, each is
completed or canceled; a song starts, or is dropped with its album, only in its turn. `MusicDB` without
failing statements implements it under the mapping of its instance `Queue` (rows by status; the
statements that write times, counts and offsets are stutters): `ImplementsPlayQueue`. The
mapping says nothing of how many statements a change takes: that a kill between any two of them
never shows is the content of the refinement.

### AirPortMusic

`loc` is the place of the thread in `main`, `PlaySong` or `eventHandler`; each
action is a stretch of `main` between two tests of a mode. A routine of
`MusicDB` is one step here, its statements succeed while the connection is open, and
`waiting` and `current` are what is left of `playq`. `fds` says what each descriptor is
open for: `socket` takes the lowest free number, `close` frees a number whatever it
is open for. This is what lets a stale number close another connection. A query on a closed
database connection returns NULL and the process dies, as the code dereferences it.
`eventHandler` reads one datagram and matches it. `nextalbum` runs the loop of
`skipToNextAlbum`, whose turns are steps, so that it may keep the thread. `onlyAlbum` says whether every song of the automatic
list is of the album that is left: then the loop finds none to add, and goes on without reading a datagram. `volume` writes to
`rtsp.fd`, whatever it is; on a connection the AirPort has closed the write fails and nothing else happens, for
`OpenDBConnection` has called `mysql_init`, which ignores SIGPIPE, before the first connection. The words `next` and `update` (the same as `nextsong` and as
nothing) need no action of their own. `PeerCloses` is the read callback's end of file. `Send` is
one of the scripts that send a word (`exit.sh` and the others), or the web page.

### RAOPSender

The loop of one song: read a chunk if nothing waits, build a packet, `select`, test for
reading, test for writing, `eventHandler`. A chunk is its song and its number in the
decoder's order, number 0 being the end of the file. `Junk` is what unassigned
memory holds. The sizes of a chunk, of the end and of a header are constants; a write may
take all bytes, any number in `Partial`, or fail. The read callback writes the
packet itself, before the write test. The tests may find a bit set that `select` did
not set, since the read set is never cleared and a failed `select` leaves both. The
commands `stop`, `pause`, `nextsong`, `nextalbum` all end the song, and are one
mode. `heard` is the number of the last chunk of this song written in full.

### RTSPClient

`RAOPClient::Connect`, `Close` and `UpdateVolume` over `ExecRequest` and `read_line`. `pc` is
where the thread is, `cmd` its request; `link` is what `rtsp.fd` is connected to, `inbox` the lines that
wait in the socket. A line is its kind (what the client distinguishes: the status 200, another one, the
three headers it looks for, other headers, a blank line, a line with no second word) and the
`CSeq` of the request it answers, which the client never reads and the properties do. A timeout may find
a line missing that arrives later, or fall in the middle of a line, whose rest is then read as a line (`Cut`).
The AirPort answers in order, late or never, with any status, and may hang up. A connection it refuses leaves a socket on which
the write of a request fails unnoticed (SIGPIPE is ignored) and no status line is read: `ANNOUNCE` fails and `Connect` returns -1.

Left out: a header whose second word is 200; continuation lines, which count as other headers;
`kd`, which only grows and is never read; the test of the session in `Record`, which cannot fail after `Setup`.

### Decoder

Each process is a record: its role, the place in `MP3Stream`, the pipe ends it holds, where its standard
output goes, `programID`. `fork` copies the record; `execvp` keeps descriptors and drops variables. When it
fails nothing ends the child, which goes on as a second player; so all actions are
parameterised by the process. `Restart` is `start`, which may put a player beside others, up to `MaxPlayers`. `Ends` is the end of a
process: zombie, adoption by init. `read` blocks while the pipe is empty and any process holds the write end. `mpg123` writes samples while there is room and
ends by itself, by SIGTERM (default action), or by a write error once nobody reads (it inherits the ignored SIGPIPE).

Left out: a failing `pipe()`; a read that ends within the four bytes of a sample. A restarted player
whose `bind` fails because an orphan holds the port only logs it, and would be deaf; the model has the orphan
(`OrphansEnd`) and not the port.

### Aes and Packets

`Aes` is the block cipher as the code computes it: the tables of `AesGenTables`, the key schedules, the
rounds with their tables (made for the first key and kept in the variable `tables`), and `Cipher`, a definition without tables: a packet's blocks must be what `Cipher` makes of the chunk. `Packets` is the data of a
song: `WritePCM` field by field with `bits_write` on bytes, the buffer of which is never cleared; `Encrypt` with its
chaining over whole blocks and the rest in the clear; `SendSample`'s header; Base64 of the vector for the session
description and the decoder of Base64 in the same file. Characters are indices of the alphabet, 64 being `=`.
The code's `|` and `^` of bytes are `Ored` and `Xored`, sums of bits in a table; neither takes an operator
of a library that the prover does not know, so that `AesProofs` and `PacketsProofs` can reason about them. `Written` is the fold of
`bits_write` over a list of fields. `ConstantsAssumption` asks of the constants that chunks have at least one frame and that the two bytes of a packet's header can
state their length (16380 frames; there are 4096 in the code, of which `SendSample` keeps the length in a `__u16`), that
`SmallChunk`, a number of samples that goes into four bytes, is less than 2^30 (it is 32 in the code), and that keys,
vectors and frames are made of bytes. Keys of 192 and 256 bits occur in the code's
own test only, and are checked all the same. Failing allocations are `RAOPSender`'s. The last packet
of a song is a bare header (see the finding `NoSmallChunk`). A song may start after one that was cut, a session after any song
or a failed connection, and a waiting packet is made anew of its chunk (`SameSample`). What the first packets of a song are made of
when an earlier packet still waits at its start (unassigned locals) is `RAOPSender`'s.

The `Variant` definitions in the modules are not reachable from `Next`: each is a
definition of the model with one plausible mistake in it, and is there to show that a
property notices that mistake.

### How the modules fit together

The modules overlap where components meet, and each takes of its neighbour what it needs: `MusicDB`'s
routines are single steps of `AirPortMusic`; a song of `AirPortMusic` is a run of `RAOPSender`; its `Connect` is a
handshake of `RTSPClient`; the chunk that `RAOPSender` counts is built in `Packets` of samples that come over
`Decoder`'s pipe.

## What is checked

| run | properties | bounds | result |
|---|---|---|---|
| `MusicDBCrash` | `TypeOK`, `UniqueCurrent`, `TimesFollowStatus`, `NeverNullRow`, `Fifo`, `StatusMonotone`, `TurnSavedBeforeQueued`, `ImplementsPlayQueue` | 2 songs of 2 albums, 4 rows, arrangement 0 or default, 1 kill, automatic list of 2 | holds, 2.1 million states |
| `MusicDBErrors` | `StaleBounded`, `CountsMatch`, `AtMostOneAutomaticQueued`, `CallReturns` | 2 songs, 3 rows, 2 failed statements, 1 kill | holds, 0.9 million states |
| `AirPortMusic` | `TypeOK`, `PlayingConnected`, `PlayedSongIsCurrent`, `VolumeToAirPortOnly`, `QueueDrains`, `CommandsHandled` | 2 requests, 2 datagrams, 1 restart, descriptors up to 9 | holds, 116 thousand states |
| `RAOPSender` | `TypeOK`, `FlagsTellPending`, `PacketAccounted`, `SamplesInOrder`, `SongEnds` | 3 songs of 2 chunks, 2 commands, 1 failed realloc, writes cut after 1 or 17 bytes | holds, 38 thousand states |
| `RTSPClient` | `TypeOK`, `SessionIsOwn`, `ChallengeOnce`, `AnswersMatch`, `RequestsReturn` | 2 connections, 1 volume command, 7 lists of headers | holds, 159 thousand states |
| `Decoder` | `NothingLeft`, `PidIsOwn`, `PlayReturns`, `OrphansEnd` | 3 processes, 1 player (started again when killed), 2 sets of pipes, 1 sample of room, songs of 0 to 2 samples | holds, 177 thousand states |
| `Packets` | `ChunkLayout`, `PacketDecodes`, `CodecsAgree` | 2 keys, 12 songs, chunks of 8 frames | holds, 3.7 thousand states |
| `MusicDBFallback` | `FallbackToManual` | 1 failed statement | violated |
| `AirPortExitStops` | `ExitStops` | 2 requests, 2 datagrams | violated |
| `AirPortClosesAirPortOnly` | `ClosesAirPortOnly` | as `AirPortExitStops` | violated |
| `RAOPNoSmallChunk` | `NoSmallChunk` | no failures, no short writes | violated |
| `DecoderStopsDecoder` | `StopsDecoderOnly` | 3 processes, 2 players, songs of 0 or 1 sample | violated |

### Why the bounds are enough

* Two albums are what `skipToNextAlbum` distinguishes; a list of two automatic songs
  reaches its end and the rewind. Four rows let a row play, one wait, one be added by the web
  page and one by the player at the same time, in every order. A kill leaves a half-done
  routine to the next life; a second one would leave it again in a state the first has
  reached. Two failures make one failure meet another's leftovers. One row of the
  bound is kept for the player's insert, so that the bound never stops a routine in the middle.
* Two datagrams give every pair of commands, in every order, at every place they are read; the
  restart gives what one life leaves to the next. Descriptors 0 and 3 to 9 are the datagram socket, standard input, the database, a session,
  a leaked one, and a `socket` that fails.
* Three songs let a packet wait over two song changes. A cut after 1 byte stays within the
  header of 16, one after 17 is past it. `SampleSize` 16387 and `TailSize` 3 are what `WritePCM`
  writes for 4096 samples and for none: 23 bits, and 4 bytes a sample.
* Two connections let what one leaves behind (headers, session, port) meet the next; the lists of headers have
  each thing `Setup` and `Connect` look for missing once. A connection has at most four requests, each of
  which may be answered after its client gave up.
* Three processes are a player, a child that plays and its decoder, or an orphan with a restarted player and its
  song, or two players. One sample of room makes the decoder block. The passing run starts a player only when none runs
  (`MaxPlayers = 1`): with two the search for cycles takes more than twice as long. They meet in `DecoderStopsDecoder`, and the
  theorems about `NothingLeft` and `PidIsOwn` are for any number.
* A chunk of 8 frames has two blocks and three bytes over; the real one of 4096 has 1024 and the same three, so the
  offsets within bytes and the rest in the clear are the real ones. Songs end at, before and
  after a chunk's end, or are cut after any chunk. Each song meets the buffer that the ones before it left.

`CHECK_DEADLOCK FALSE` is given where the system may stop: `AirPortMusic` when it exits or dies and no
restart is left, `RAOPSender` after the last song and when it dies, `RTSPClient` when it dies or the bounds are
spent.

### What the properties say

* `ImplementsPlayQueue`: see above; with `UniqueCurrent`, `StatusMonotone` and `Fifo` as its visible parts.
* `UniqueCurrent`, `StaleBounded`: without failures one row plays, over kills; each failure
  may leave one more row "Currently Playing", which later calls never multiply.
* `CountsMatch`: a play count differs from the completed rows by at most one for each kill
  and failure, and skipped songs are not counted.
* `Fifo`: no later row overtakes an earlier one of its type, unless the web page arranged one.
* `TurnSavedBeforeQueued`: a kill makes an automatic song lose its turn, never play twice.
* `CallReturns`: a call comes to its end, except that `skipToNextAlbum` is never left when nothing is queued and it can find
  no other album: in manual mode, or when all the songs of the automatic list are of the album that is left. The property
  names that case exactly, so it holds for an automatic list of one album too; the instance has two.
* `PlayingConnected`, `PlayedSongIsCurrent`: in spite of the double closes, the leaked
  sessions and commands in the middle of songs, no sample is sent on a closed or foreign descriptor,
  nor for a row that was cancelled.
* `VolumeToAirPortOnly`: when a volume command is handled, the number in `rtsp.fd` is the AirPort's or nobody's.
* `QueueDrains`, `CommandsHandled`: a request is started or dropped and commands are read, unless
  the server stopped; the same endless search of `skipToNextAlbum` (`Searching`) is the one place that reads no
  commands, until a request comes. `exit` is not read there either.
* `FlagsTellPending`, `PacketAccounted`, `SamplesInOrder`, `SongEnds`: the stream is watched while and only while
  bytes wait; what was written and what waits make up the packet; chunks go in order; a song ends.
* `AnswersMatch`, `SessionIsOwn`, `ChallengeOnce`: nothing compares the `CSeq`, yet no late or cut answer makes a
  request of the handshake succeed, because any failure of one closes the connection. The answer to a volume
  command has no such protection, and needs none.
* `RequestsReturn`: timeouts bring every call back.
* `NothingLeft`, `PidIsOwn`, `PlayReturns`, `OrphansEnd`: no descriptor or process is left between songs; `programID` is
  0 between songs, and in a song the one child, or -1 after a failed fork, with no child, when `kill` takes it for every process
  (`StopsDecoderOnly` says it should be the decoder alone, and is violated); a song comes to its end, save where a child that failed to
  execute `mpg123` plays in its place (`ChildPlays`); an orphaned decoder ends.
* `ChunkLayout`, `PacketDecodes`, `CodecsAgree`: a chunk is, bit for bit, an Apple Lossless frame without leftovers of
  the one before; a packet can be decrypted by itself with the announced vector; the codecs invert each
  other and what they encrypt is what FIPS 197 makes of it. `MCPackets` also assumes, and TLC therefore evaluates, the
  three examples of the standard (`Fips197`), which tie `Cipher` and the key schedule to it.

### Where the code and its words disagree

The violated runs state what a comment, a log line or a script says, and TLC finds the code doing
otherwise; `PROJECT.json` quotes each.

1. `FallbackToManual`: a failed automatic query "sets autoplay to manual", but the song with id 0 it
   returns is queued and the missing row dereferenced.
2. `ExitStops`: `musicServer.sh stop` reports "stopped", but `exit` in the middle of a song only skips it.
3. `ClosesAirPortOnly`: `raop.Close` closes the stale number in `rtsp.fd`, after a `quit` the database connection.
4. `NoSmallChunk`: three bytes are sent at each file's end, although "very small" chunks make the AirPort disconnect.
5. `StopsDecoderOnly`: `StopDecoder` stops "Decoder programID"; after a failed fork this is -1 and every process is signalled.

### Fairness

* `MusicDB!FairSpec` has weak fairness of the player's statements: the thread is never held up for
  ever by the database.
* `AirPortMusic!FairSpec` has weak fairness of the thread; strong fairness of `ConnectSucceeds`, since
  `main` tries again every 20 seconds and an AirPort that never answers plays nothing; and strong fairness
  of `EndOfFile`, since files are finite. The clients, the web page, kills and restarts have none.
* `RAOPSender!FairSpec` has weak fairness of the thread; strong fairness of `select` finding the
  stream writable and of the write then taking the whole packet: an AirPort that plays takes what it is sent. Short
  and failed writes may come before it any number of times.
* `RTSPClient!FairSpec` has weak fairness of the client alone; the AirPort owes nothing.
* `Decoder!FairSpec` has weak fairness of each process and of the delivery of its signal.
* `Packets` has no liveness properties and no fairness.

## What is proved

| theorem | module | states |
|---|---|---|
| `Inductive`, `TypeCorrect`, `OneRowPlays`, `OneAutomaticWaits`, `TimesAgree`, `FirstInFirstOut`, `NoNullRow` | `MusicDBProofs` | `[]` of `IInv`, `TypeOK`, `UniqueCurrent`, `AtMostOneAutomaticQueued`, `TimesFollowStatus`, `Fifo`, `NeverNullRow` |
| `RowsLiveInOrder`, `TurnsAreSaved` | `MusicDBProofs` | the action properties `StatusMonotone`, `TurnSavedBeforeQueued` |
| `Refines` | `MusicDBRefinement` | `ImplementsPlayQueue`: the refinement of `PlayQueue` |
| `CountInductive`, `StaleRowsBounded`, `CountsAgree` | `MusicDBProofs` | `[]` of `CountInv`, `StaleBounded`, `CountsMatch` |
| `Inductive`, `TypeCorrect`, `ConnectedWhilePlaying`, `HeardSongIsCurrent`, `VolumeHeardByAirPort` | `AirPortMusicProofs` | `[]` of `IInv`, `TypeOK`, `PlayingConnected`, `PlayedSongIsCurrent`, `VolumeToAirPortOnly` |
| `Inductive`, `TypeCorrect`, `FlagsAgree`, `CountersAgree`, `ChunksInOrder` | `RAOPSenderProofs` | `[]` of `IInv`, `TypeOK`, `FlagsTellPending`, `PacketAccounted`, and the action property `SamplesInOrder` |
| `Inductive`, `TypeCorrect`, `OwnAnswers`, `OwnSession`, `OneChallenge` | `RTSPClientProofs` | `[]` of `IInv`, `TypeOK`, `SessionIsOwn`, `ChallengeOnce`, and the action property `AnswersMatch` |
| `Inductive`, `TypeCorrect`, `SongsLeaveNothing`, `ProgramIDOfThisSong` | `DecoderProofs` | `[]` of `IInv`, `TypeOK`, `NothingLeft`, `PidIsOwn` |
| `CiphersAgree`, `DecryptionInverts` | `AesProofs` | `AesEncrypt` is `Cipher`, and `AesDecrypt` undoes it, for every key of 16, 24 or 32 bytes and every block |
| `ChunksLaidOut`, `PacketsDecode`, `CodecsAlwaysAgree` | `PacketsProofs` | `[]` of `ChunkLayout`, `PacketDecodes`, `CodecsAgree` |

Each holds for every value of the constants that satisfies the assumptions of its module: any
library and automatic list, any number of descriptors, processes, pipes and connections, any lists of headers, any sizes of
chunk, any songs, any short writes, any bounds.

*MusicDB.* The properties do not bear induction alone. `UniqueCurrent` needs `Vacant`: from the
statement that retires the old row to the one that marks the new, nothing plays. `Fifo` needs
`FetchedInOrder`: what was fetched is still ahead of its type although rows were added and
arranged since. `AtMostOneAutomaticQueued` needs `NoAutomaticQueued`, `TimesFollowStatus` needs
`Retired`, and `NeverNullRow` needs `TurnTaken`, which says where the automatic query stands. The
proof first reduces each action to what it does to the table (`TableEffects`: one column of one row, a
new row, or nothing) and then keeps each part over those effects.

*What MusicDB counts.* `StaleBounded` and `CountsMatch` hold over failed statements, where `UniqueCurrent` and its
strengthening do not, so they have an invariant of their own, `CountInv`. `StaleBounded` needs `StaleHeld`: once a routine is past
the statements that retire the old row, each row still playing is paid for by a failure, so that marking the next one stays
within the bound. `CountsMatch` needs `CountsHeld`, which says of which song the one completed and not yet counted row is
(`Pending`), and `CountsEnded`, that only a song that ended by itself is counted. The proof first says what each action does to
the sets of rows (`PlayingStep`, `CompletedStep`: one row in, one row out, or nothing), and then counts.

*The refinement.* `Seen` is what the users of the queue see. Each action either leaves it (`NotSeen`) or changes
one row's status (`StatusSeen`) or adds a row, and is then one action of `PlayQueue`; that a started or dropped row is
in its turn rests on `FetchedInOrder`, and that nothing plays on `Vacant`, both from `IInv`. Theorem and run
have `MaxErrors = 0`: after a failed UPDATE two rows may play, which the queue does not allow.

*AirPortMusic.* `PlayingConnected` needs `SessionHeld` (from `Connect` to the event handler after the
songs the session is open), `DatabaseHeld` (a closed database connection is met by the query of the wait
branch first, which dies) and `UdpHeld` (no stale number is that of the datagram socket). That `socket` returns
the lowest free number, by a `CHOOSE`, rests on a lemma by well-founded induction (`Least`).

*RAOPSender.* `SamplesInOrder` needs `Order`: the chunk that waits, and the one about to be sent,
is the next to be heard, and leftovers of an earlier song come before the first chunk. All writes go
through one lemma, `WriteKeeps`.

*RTSPClient.* `AnswersMatch` needs `OnlyOwnOk`: while a request of the handshake is sent no unread line is a status 200, while
its answer is awaited there is at most one and it is of this request, and while its headers are read there is none.
`SessionIsOwn` adds `Counted` and `Named`, the distance of `cseq` and of the members' origin from the start of the
connection; `ChallengeOnce` needs `HeadersHeld`; all need `LinkHeld`.

*Decoder.* `Kin` says that a player's children are exactly the process in `programID` (none for 0 and -1), `Held` which ends it
holds at every place of the code, and that `programID` is 0 outside a song. Both lose and regain nothing when a process ends (`Ends`) because its children go to init.

*Aes.* `Cipher` is FIPS 197 with a multiplication (`Product`: shifts and sums) and a table of the S-box; the program computes both from
`pow` and `log`. That these agree is a fact about the field, and the proof is one: `XTIME` is linear in the bits (`XtimeBits`,
`XorBits`), so the map from a power of 3 to the power n further on is a sum of multiples by powers of two, and doubling n composes
it with itself (`FurtherJump`, `PowerJumps`). That gives `pow[255] = 1` without computing 255 powers one by one; that no shorter
period exists is checked at the divisors of 255 only (`DivisorsOf255`), so the powers are all different (`PowersDiffer`), `log`, a
`CHOOSE`, is their inverse, and every byte but zero is a power. A product is tripled with its factor (`ProductOfThree`), hence
the product of powers is the power of the sum of their logarithms, the inverse of `x` is `pow[255 - log[x]]`, and `FSb` is the S-box
(`SubstitutionAgrees`). A round is then compared column by column (`ShiftedColumns`, `MixedColumns`, `RoundAgrees`), the rounds by
induction (`BlocksAgree`), and the key schedule has a word for each round key (`KeysScheduled`). Multiplication is unfolded bit by bit
over Booleans, for arithmetic on 256 values at a time is more than the provers do.

The decryption of the code is the one whose rounds look like those of the encryption: its inner round keys went through the inverse of
`MixColumns` first (`drk`, from the tables `KT`). So its correctness is that this inverse is linear (`InverseLinear`: it
distributes over the addition of a round key) and that it is the inverse (`InverseOfColumn`: sixteen entries of the product of two matrices, each
a sum of multiples of a byte by constants that is the byte or nothing, compared bit by bit). `RSb`, a `CHOOSE`, is the inverse
of `FSb` because the S-box is injective: an affine image determines its bits (`AffineInjective`), and powers of 3 differ. `RT` and `KT` then hold the columns of
the inverse (`InverseEntries`, `InverseColumnAgrees`), a round of `AesDecrypt` takes one round of `AesEncrypt` back (`InverseRound`,
`LastRound`), and `BlocksInverted` runs the rounds backwards, against the states that `StatesAgree` names.

*Packets.* `ChunkLayout` compares the bytes in `buffer` after `WritePCM` with what a decoder of Apple Lossless frames reads.
It is inductive with the types of `song` and `buffer` (`LayoutInv`); the work is in the bits, for every chunk size,
every song and whatever the buffer held. `bits_write` is followed from one byte to the next (`HeaderWritten`, `ByteWritten`): after the
23 bits of the header each byte written fills bit 7 of one byte and seven bits of the next, and overwrites, never merges with, what
was there. `WrittenStepwise` unfolds the recursion of `Written` field by field (the induction is on a
predicate of one function, by its least counterexample: `Least`, `Upwards`), `FieldsWritten` says what the whole chunk leaves. On the other side
`OctetsRead` reads the same bytes out of the bits of `Layout`. That a byte is the sum of its bits (`ByteBits`), and that
`|` of bytes without a common bit is their sum (`OrAdds`), carry both.

`PacketDecodes` is inductive with `SessionInv`: the tables are those of the cipher once a session was opened, the key schedule is
the key's, and the description holds the text of the vector; `ChunkReady` says that the chunk a packet is made anew of fits into
it. `VectorRead` takes that text back to the vector, through the
bits of its 22 characters; `ChainedBlocks` is the induction over the blocks that `Encrypt` chains, each an application of
`CiphersAgree`; `PayloadDecodes` and `PacketSent` cut the packet into header, blocks and rest again. The length
in the header is right because a chunk of `n` frames has at most `3 + 4n` bytes, which `LaidOut` adds to `ChunkLayout`.

`CodecsAgree` is inductive with `CodecsInv`, that all three tables are made, once, before a session is open. Its part about the
ciphers is `CiphersAgree` and `DecryptionInverts` for the keys of `LongKey`; its part about Base64 is `TextDecoded`, for a sequence of
bytes of any length: `TextEncoded` says what each group of four characters is made of, `GroupDecoded` that `TokenDecode` finds
the three bytes and the padding again (in the last group, of which one or two bytes may be missing, they are zero on both
sides), and `GroupsKnown` that the decoder's text grows by them.

Only model-checked: the liveness properties (`CallReturns`, `QueueDrains`, `CommandsHandled`, `SongEnds`, `RequestsReturn`,
`PlayReturns`, `OrphansEnd`): fairness and ENABLED are beyond the prover. Every invariant and every action property of the passing
runs is a theorem. The examples of FIPS 197 are values, which the prover does not compute: TLC evaluates them.

## Assumptions and what is not modelled

* In `AirPortMusic` SQL statements succeed while the connection is open, and the connection to MySQL itself
  succeeds when a descriptor is free; failing statements are `MusicDB`'s.
* In `AirPortMusic` log and configuration files, pipes and the decoder hold no descriptor from one step to the next: `PlaySong` closes
  what it opens, except in a step that no number in `rtsp.fd` or `sfd` can hit, as the session is open then.
* The library and the active automatic query stay as they are: nothing under `src/` but the player's own offset and counts
  writes them.
* File names have an extension. Without one `GetNextSample` returns an unassigned value (see hazards).
* SIGPIPE is ignored. The MySQL client library sets this in `mysql_init`, which `OpenDBConnection` calls (`MusicDB.cpp:92`)
  before the first connection to the AirPort; no code of the repository sets or resets it.
* `MusicDB` and `AirPortMusic` have one player. A second one, which `start` or `reload` of `musicServer.sh` may put beside it, gets no datagram (its
  `bind` fails, which is only reported) but runs the same statements on the same tables; what the two do to the queue is not modelled, and listed as a
  hazard. `Decoder` has players beside each other.
* A write fails, or takes some or all bytes. That `SendSample` starts a packet from its first byte
  after a short write is in the model, but what the stream then carries is not: a blocking socket writes
  short only when a signal interrupts it.
* In `RAOPSender` chunks may follow an end of file that a `play` command overrides; the real decoder gives none.
* The configuration is read once, before anything else happens, and no later step writes it: there is nothing to interleave.
* `RsaEncrypt` hands the key to OpenSSL; host names and addresses are the operating system's. `Flush`, `SmallSilent`,
  `SevenSecondSilent`, `updatePlayQRequestTime`, `setCurrentPlayQSongComplete`, mono input, the STREAM source and the sound card
  variant of `PlaySong` have no caller or are not compiled.
* The Monte Carlo test of the AES code is four million blocks long; the examples of the standard and `Cipher` take its place.
* Wording, logging, the volume's value and the text of SQL statements and RTSP messages are left out.

## Plan

Done: all modules above, with their proofs. Left, in this order:

1. Two players on one play queue: two instances of `MusicDB` on the same tables, with the AirPort's session between them.
2. A composition of `AirPortMusic` with `MusicDB`'s statements on a small instance: commands between statements, and a
   database connection that closes in the middle of a routine.
3. `Decoder` with the datagram port, for a restarted player that an orphan keeps from its commands.
