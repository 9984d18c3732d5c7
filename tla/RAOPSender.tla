----------------------------- MODULE RAOPSender -----------------------------
(***************************************************************************)
(* The sending side of a song: the loop of PlaySong, the packet that       *)
(* RAOPClient::SendSample builds, and FDhandler with its two callbacks,    *)
(* which share the packet buffer raop.data, its counters wblk_wsize and    *)
(* wblk_remsize, and FDflags.                                              *)
(*                                                                         *)
(* Nothing resets the counters between songs or connections, so a song may *)
(* begin while a packet of an earlier one waits in the buffer.  PlaySong   *)
(* then uses buf and size although nothing has assigned them: they hold    *)
(* what an earlier call left in the frame, or anything.  The read set of   *)
(* FDhandler is not cleared either, and when select fails both sets keep   *)
(* what they had: both tests may come out either way.                      *)
(***************************************************************************)
EXTENDS Integers

CONSTANTS
  SampleSize,  \* bytes WritePCM writes for a chunk of samples
  TailSize,    \* bytes it writes at the end of the file: the bit header only
  HeaderSize,  \* bytes of the header of a packet
  Minimum,     \* MINIMUM_SAMPLE_SIZE
  Partial,     \* bytes after which a write may be cut short
  MaxSongs,    \* bound: calls of PlaySong
  MaxSamples,  \* bound: chunks of samples of a song
  MaxCommands, \* bound: commands that change the mode
  MaxErrors    \* bound: failures of realloc

ASSUME ConstantsAssumption ==
  /\ SampleSize \in Nat \ {0} /\ TailSize \in Nat \ {0}
  /\ HeaderSize \in Nat \ {0} /\ Minimum \in Nat
  /\ Partial \subseteq Nat \ {0}
  /\ MaxSongs \in Nat /\ MaxSamples \in Nat
  /\ MaxCommands \in Nat /\ MaxErrors \in Nat

VARIABLES
  loc,           \* where the thread is
  playMode,      \* the global; every mode but play and quit is "nextsong"
  song,          \* calls of PlaySong so far
  index,         \* chunks of samples this call has read from the decoder
  buf, size,     \* PlaySong's locals
  data,          \* the chunk in the packet buffer, and its length
  wsize, remsize, \* wblk_wsize and wblk_remsize
  FDflags,
  writable,      \* the outcome of select for writing, tested after a read
  heard,         \* chunks of samples of this song written to the stream
  commands, errs

packet == <<data, wsize, remsize, FDflags>>
locals == <<song, index, buf, size>>
vars == <<loc, playMode, song, index, buf, size, data, wsize, remsize,
          FDflags, writable, heard, commands, errs>>

\* A chunk of samples has index 1, 2, ...; the end of a file is index 0.
Chunk(s, i) == [song |-> s, index |-> i]
Junk == Chunk(0, 0)

Init ==
  /\ loc = "main" /\ playMode = "play"
  /\ song = 0 /\ index = 0 /\ buf = Junk /\ size = 0
  /\ data = [chunk |-> Junk, size |-> 0]
  /\ wsize = 0 /\ remsize = 0 /\ FDflags = {}
  /\ writable = FALSE /\ heard = 0 /\ commands = 0 /\ errs = 0

-----------------------------------------------------------------------------
(* PlaySong.                                                               *)

PlaySong ==
  /\ loc = "main" /\ song < MaxSongs
  /\ song' = song + 1 /\ index' = 0 /\ heard' = 0
  /\ buf' \in {buf, Junk} /\ size' \in {size, 0, SampleSize}
  /\ playMode' = "play"
  /\ loc' = "head"
  /\ UNCHANGED <<packet, writable, commands, errs>>

\* Variant: the next sample is read although a packet waits.
SampleOverPending ==
  /\ loc = "head" /\ playMode = "play"
  /\ index < MaxSamples
  /\ index' = index + 1
  /\ buf' = Chunk(song, index') /\ size' = SampleSize
  /\ loc' = "send"
  /\ UNCHANGED <<playMode, song, packet, writable, heard, commands, errs>>

\* GetNextSample, when nothing is left in the packet buffer.
GetNextSample ==
  /\ loc = "head" /\ playMode = "play" /\ remsize = 0
  /\ index < MaxSamples
  /\ index' = index + 1
  /\ buf' = Chunk(song, index') /\ size' = SampleSize
  /\ loc' = "send"
  /\ UNCHANGED <<playMode, song, packet, writable, heard, commands, errs>>

(* At the end of the file WritePCM returns -1 and the bytes of its header. *)
EndOfFile ==
  /\ loc = "head" /\ playMode = "play" /\ remsize = 0
  /\ buf' = Chunk(song, 0) /\ size' = TailSize
  /\ playMode' = "nextsong"
  /\ loc' = "send"
  /\ UNCHANGED <<song, index, packet, writable, heard, commands, errs>>

(* A file of an unknown type has no decoder: -1, and nothing is assigned.  *)
(* (File names have an extension: without one the result is unassigned.)   *)
UnknownType ==
  /\ loc = "head" /\ playMode = "play" /\ remsize = 0 /\ index = 0
  /\ playMode' = "nextsong"
  /\ loc' = IF size > 0 THEN "send" ELSE "event"
  /\ UNCHANGED <<locals, packet, writable, heard, commands, errs>>

\* A packet waits: buf and size are used as they are.
Resend ==
  /\ loc = "head" /\ playMode = "play" /\ remsize > 0
  /\ IF size > 0 THEN loc' = "send" /\ UNCHANGED playMode
                 ELSE loc' = "event" /\ playMode' = "nextsong"
  /\ UNCHANGED <<locals, packet, writable, heard, commands, errs>>

\* eventHandler, as far as the loop of PlaySong can tell.
EventHandler ==
  /\ loc = "event"
  /\ loc' = "head"
  /\ \/ UNCHANGED <<playMode, commands>>
     \/ /\ commands < MaxCommands
        /\ commands' = commands + 1
        /\ playMode' \in {"play", "nextsong", "quit"}
  /\ UNCHANGED <<locals, packet, writable, heard, errs>>

EndSong ==
  /\ loc = "head" /\ playMode # "play"
  /\ playMode' = "play"
  /\ loc' = "main"
  /\ UNCHANGED <<locals, packet, writable, heard, commands, errs>>

-----------------------------------------------------------------------------
(* SendSample: the packet in the buffer is replaced, written or not.       *)

\* Variant: the packet is not offered for writing.
SendSampleNoFlag ==
  /\ loc = "send"
  /\ data' = [chunk |-> buf, size |-> size]
  /\ remsize' = size + HeaderSize /\ wsize' = 0
  /\ FDflags' = {"READ"}
  /\ loc' = "select"
  /\ UNCHANGED <<playMode, locals, writable, heard, commands, errs>>

\* Variant: writing goes on where it stopped in the packet before.
SendSampleKeepsOffset ==
  /\ loc = "send"
  /\ data' = [chunk |-> buf, size |-> size]
  /\ remsize' = size + HeaderSize /\ UNCHANGED wsize
  /\ FDflags' = {"READ", "WRITE"}
  /\ loc' = "select"
  /\ UNCHANGED <<playMode, locals, writable, heard, commands, errs>>

\* Variant: the header is subtracted.
SendSampleSubtracts ==
  /\ loc = "send"
  /\ data' = [chunk |-> buf, size |-> size]
  /\ remsize' = size - HeaderSize /\ wsize' = 0
  /\ FDflags' = {"READ", "WRITE"}
  /\ loc' = "select"
  /\ UNCHANGED <<playMode, locals, writable, heard, commands, errs>>

SendSample ==
  /\ loc = "send"
  /\ data' = [chunk |-> buf, size |-> size]
  /\ remsize' = size + HeaderSize /\ wsize' = 0
  /\ FDflags' = {"READ", "WRITE"}
  /\ loc' = "select"
  /\ UNCHANGED <<playMode, locals, writable, heard, commands, errs>>

\* ReallocMemory fails; PlaySong does not look at the result.
SendSampleFails ==
  /\ loc = "send" /\ errs < MaxErrors
  /\ errs' = errs + 1
  /\ loc' = "select"
  /\ UNCHANGED <<playMode, locals, packet, writable, heard, commands>>

\* An unassigned buf need not point to memory.
SendSampleCrashes ==
  /\ loc = "send" /\ buf = Junk
  /\ loc' = "ended"
  /\ UNCHANGED <<playMode, locals, packet, writable, heard, commands, errs>>

-----------------------------------------------------------------------------
(* FDhandler.                                                              *)

Select ==
  /\ loc = "select"
  /\ writable' \in BOOLEAN
  /\ \/ "READ" \in FDflags /\ loc' = "read"
     \/ loc' = "writeTest"
  /\ UNCHANGED <<playMode, locals, packet, heard, commands, errs>>

\* Variant: FDflags still asks for writing after the last byte.
WriteKeepsFlag(i) ==
  /\ wsize' = wsize + i
  /\ remsize' = remsize - i
  /\ UNCHANGED FDflags
  /\ heard' = IF remsize' = 0 /\ data.chunk.song = song /\ data.chunk.index > 0
              THEN data.chunk.index ELSE heard

Write(i) ==
  /\ wsize' = wsize + i
  /\ remsize' = remsize - i
  /\ FDflags' = IF remsize' = 0 THEN {"READ"} ELSE FDflags
  /\ heard' = IF remsize' = 0 /\ data.chunk.song = song /\ data.chunk.index > 0
              THEN data.chunk.index ELSE heard

WriteFails == UNCHANGED <<wsize, remsize, FDflags, heard>>

(* fd_event_callback: a write of all or of some of the bytes, an error, or *)
(* 0; with nothing to write it only reports so.                            *)
WritesAll == remsize > 0 /\ Write(remsize)
fd_event_callback ==
  \/ WritesAll
  \/ \E i \in Partial : i < remsize /\ Write(i)
  \/ WriteFails

(* rd_fd_event_callback: a status report of the AirPort, after which the   *)
(* packet is written whatever select said; or an error; or the end.        *)
ReadStatus ==
  /\ loc = "read"
  /\ loc' = "writeTest"
  /\ IF remsize > 0 THEN fd_event_callback ELSE WriteFails
  /\ UNCHANGED <<playMode, locals, data, writable, commands, errs>>

ReadFails ==
  /\ loc = "read"
  /\ loc' = "writeTest"
  /\ UNCHANGED <<playMode, locals, packet, writable, heard, commands, errs>>

ReadEnds ==
  /\ loc = "read"
  /\ loc' = "writeTest"
  /\ playMode' = "quit"
  /\ UNCHANGED <<locals, packet, writable, heard, commands, errs>>

WriteTest ==
  /\ loc = "writeTest"
  /\ loc' = "event"
  /\ writable' = FALSE
  /\ IF writable /\ "WRITE" \in FDflags THEN fd_event_callback ELSE WriteFails
  /\ UNCHANGED <<playMode, locals, data, commands, errs>>

Next ==
  \/ PlaySong \/ GetNextSample \/ EndOfFile \/ UnknownType \/ Resend
  \/ EventHandler \/ EndSong
  \/ SendSample \/ SendSampleFails \/ SendSampleCrashes
  \/ Select \/ ReadStatus \/ ReadFails \/ ReadEnds \/ WriteTest

Spec == Init /\ [][Next]_vars

(* The thread runs; select finds the stream writable again and again and   *)
(* the write then takes the packet: the AirPort plays what it has.         *)
FairSpec ==
  /\ Spec
  /\ WF_vars(Next)
  /\ SF_vars(Select /\ writable')
  /\ SF_vars(WriteTest /\ WritesAll)

-----------------------------------------------------------------------------
(* Properties.                                                             *)

Locs == {"main", "head", "send", "select", "read", "writeTest", "event", "ended"}
ChunkSet == [song : Nat, index : Nat]

TypeOK ==
  /\ loc \in Locs /\ playMode \in {"play", "nextsong", "quit"}
  /\ song \in Nat /\ index \in Nat /\ heard \in Nat
  /\ buf \in ChunkSet /\ size \in Nat
  /\ data \in [chunk : ChunkSet, size : Nat]
  /\ wsize \in Nat /\ remsize \in Nat
  /\ FDflags \subseteq {"READ", "WRITE"}
  /\ writable \in BOOLEAN
  /\ commands \in Nat /\ errs \in Nat

(* The stream is watched for writing exactly while bytes wait: over short  *)
(* and failed writes, songs cut by a command and packets written from the  *)
(* read callback just before the write test, so that "write is called with *)
(* remsize=0" is never reported.                                           *)
FlagsTellPending == "WRITE" \in FDflags <=> remsize > 0

(* What was written and what waits make up the packet in the buffer: no    *)
(* write begins or ends outside of it.                                     *)
PacketAccounted == remsize > 0 => wsize + remsize = data.size + HeaderSize

(* The chunks of a song go out one by one in the decoder's order, and its  *)
(* end after all of them: a chunk is replaced in the buffer by the next    *)
(* one only once its last byte was taken, however often it is built anew.  *)
SamplesInOrder ==
  [][errs = 0 /\ remsize > 0 /\ remsize' = 0 /\ data.chunk.song = song =>
       IF data.chunk.index > 0 THEN data.chunk.index = heard + 1
                               ELSE heard = index]_vars

(* PlaySong returns, although a packet that cannot be written is built and *)
(* offered again without reading on.                                       *)
SongEnds == loc = "head" ~> loc \in {"main", "ended"}

(* "if I send very small chunk of data, AEX is going to disconnect": every *)
(* packet carries a chunk of the minimum size.                             *)
NoSmallChunk == remsize > 0 => data.size >= Minimum

-----------------------------------------------------------------------------
(* The inductive invariant.                                                *)

\* The chunk is the one the decoder gave last, and the next to be heard.
IsNext(chunk) ==
  IF chunk.index > 0 THEN chunk.index = index /\ index = heard + 1
                     ELSE heard = index
Fresh == index = 0 /\ heard = 0

(* All that was read has been heard, save the chunk that waits or that is  *)
(* about to be sent; what is left of an earlier song is sent before any.   *)
Order ==
  errs = 0 =>
    /\ buf.song <= song /\ data.chunk.song <= song
    /\ buf.song = song => buf.index <= index
    /\ remsize > 0 =>
         /\ IF data.chunk.song = song THEN IsNext(data.chunk) ELSE Fresh
         /\ IF buf.song = song THEN IsNext(buf) ELSE Fresh
    /\ remsize = 0 /\ loc # "send" => heard = index
    /\ loc = "send" => IF buf.song = song THEN IsNext(buf) ELSE Fresh

(* What the statements of PlaySong, SendSample and the callbacks keep.     *)
IInv == TypeOK /\ FlagsTellPending /\ PacketAccounted /\ Order
=============================================================================
