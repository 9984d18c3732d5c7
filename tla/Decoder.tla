------------------------------- MODULE Decoder -------------------------------
(***************************************************************************)
(* The decoder of the song that plays: MP3Stream, as PlaySong uses it      *)
(* through AudioStream.  Open makes three pipes and forks; the child puts  *)
(* the write end of the first in the place of its standard output and      *)
(* executes mpg123; the player reads samples from the other end, and Close *)
(* signals the decoder and waits for it.                                   *)
(*                                                                         *)
(* A process is a record of what the operating system and MP3Stream keep   *)
(* of it.  fork copies it.  When execvp fails nothing ends the child: it   *)
(* returns from ExecuteDecoder like its parent and goes on as a player, so *)
(* every process runs the code of the player.                              *)
(***************************************************************************)
EXTENDS Integers, FiniteSets

CONSTANTS
  Pids,        \* process ids; 0 is init as a parent, and no decoder
  Pipes,       \* names for the three pipes that one Open makes
  Capacity,    \* samples a pipe holds
  MaxSamples,  \* samples of the longest song
  MaxPlayers   \* bound: start is called while fewer players than this run

ASSUME PidsAssumption == Pids \subseteq Nat \ {0}
ASSUME PipesAssumption == Pipes \subseteq Nat \ {0}
ASSUME CapacityAssumption == Capacity \in Nat \ {0}
ASSUME MaxSamplesAssumption == MaxSamples \in Nat
ASSUME MaxPlayersAssumption == MaxPlayers \in Nat

VARIABLES
  proc,       \* each process id's process, or Free
  data,       \* samples in each song's pipe
  signalled   \* processes that SIGTERM is about to end

vars == <<proc, data, signalled>>

-----------------------------------------------------------------------------
(* Descriptors: the two ends of infds, outfds and errfds of one Open.      *)

SongEnds(k) == {k} \X {"in", "out", "err"} \X {0, 1}
ReadEnd(k) == <<k, "in", 0>>
WriteEnd(k) == <<k, "in", 1>>

\* role: what runs in the process; pc: where its MP3Stream is; stdout: the
\* pipe its standard output goes to, 0 for the terminal; fdin: the pipe of
\* its song (dfd and fdin name the same end); mp3: its data_type has a
\* decoder; left: samples a decoder has not written yet.
Process ==
  [role : {"free", "player", "decoder", "zombie"},
   pc : {"idle", "child", "opening", "read", "loop", "close", "wait"},
   parent : Pids \cup {0},
   fds : SUBSET (Pipes \X {"in", "out", "err"} \X {0, 1}),
   stdout : Pipes \cup {0},
   fdin : Pipes \cup {0},
   mp3 : BOOLEAN,
   programID : Pids \cup {0, -1},
   left : 0 .. MaxSamples]

Free == [role |-> "free", pc |-> "idle", parent |-> 0, fds |-> {}, stdout |-> 0,
         fdin |-> 0, mp3 |-> FALSE, programID |-> 0, left |-> 0]

Player == [Free EXCEPT !.role = "player"]

Alive == {p \in Pids : proc[p].role \in {"player", "decoder"}}
PlayerAt(p, c) == proc[p].role = "player" /\ proc[p].pc = c
Children(p) == {q \in Pids : proc[q].parent = p}

HasReader(k) == \E p \in Pids : ReadEnd(k) \in proc[p].fds
HasWriter(k) == \E p \in Pids : WriteEnd(k) \in proc[p].fds \/ proc[p].stdout = k
InUse(k) == \E p \in Pids : proc[p].stdout = k \/ proc[p].fds \cap SongEnds(k) # {}

\* The player at a new place in the code.
At(p, c) == [proc[p] EXCEPT !.pc = c]

(* A process ends: its descriptors close; it stays a zombie until its      *)
(* parent waits for it; init adopts its children and waits for them.       *)
Ends(p) ==
  /\ proc' = [q \in Pids |->
       IF q = p
       THEN IF proc[p].parent = 0 THEN Free
            ELSE [Free EXCEPT !.role = "zombie", !.parent = proc[p].parent]
       ELSE IF proc[q].parent # p THEN proc[q]
       ELSE IF proc[q].role = "zombie" THEN Free
       ELSE [proc[q] EXCEPT !.parent = 0]]
  /\ signalled' = signalled \ {p}
  /\ UNCHANGED data

Init ==
  \E p \in Pids :
    /\ proc = [q \in Pids |-> IF q = p THEN Player ELSE Free]
    /\ data = [k \in Pipes |-> 0]
    /\ signalled = {}

-----------------------------------------------------------------------------
(* AudioStream::Open and MP3Stream::Open.                                  *)

\* A file of an unknown type: nothing is opened, and the first
\* GetNextSample ends the song.
OpenUnknown(p) ==
  /\ PlayerAt(p, "idle")
  /\ proc' = [proc EXCEPT ![p] = [At(p, "close") EXCEPT !.mp3 = FALSE]]
  /\ UNCHANGED <<data, signalled>>

\* The process once its pipes are made; id is what fork returned to it.
Forked(p, k, id) ==
  [At(p, "opening") EXCEPT !.mp3 = TRUE, !.fds = @ \cup SongEnds(k), !.fdin = k,
                           !.programID = id]

Fork(p) ==
  /\ PlayerAt(p, "idle")
  /\ \E k \in Pipes, q \in Pids :
       /\ ~InUse(k) /\ proc[q].role = "free"
       /\ proc' = [proc EXCEPT ![p] = Forked(p, k, q),
                               ![q] = [Forked(p, k, 0) EXCEPT !.pc = "child",
                                                              !.parent = p]]
       /\ data' = [data EXCEPT ![k] = 0]
  /\ UNCHANGED signalled

\* programID is then -1, the result of fork.
ForkFails(p) ==
  /\ PlayerAt(p, "idle")
  /\ \E k \in Pipes :
       /\ ~InUse(k)
       /\ proc' = [proc EXCEPT ![p] = Forked(p, k, -1)]
       /\ data' = [data EXCEPT ![k] = 0]
  /\ UNCHANGED signalled

\* Variant: the child forgets to close the end the player reads from.
ChildKeepsReadEnd(q) ==
  LET k == proc[q].fdin IN
  [proc[q] EXCEPT !.stdout = k,
                  !.fds = @ \ (SongEnds(k) \ {WriteEnd(k), <<k, "err", 0>>, ReadEnd(k)})]

\* The child before execvp: dup2 of infds[1] over standard output, and its
\* calls of close; infds[1] and errfds[0] stay open.
ChildEnds(q) ==
  LET k == proc[q].fdin IN
  [proc[q] EXCEPT !.stdout = k, !.fds = @ \ (SongEnds(k) \ {WriteEnd(k), <<k, "err", 0>>})]

\* Descriptors outlive execvp, the variables of the player do not.
Exec(q) ==
  /\ PlayerAt(q, "child")
  /\ \E n \in 0 .. MaxSamples :
       proc' = [proc EXCEPT ![q] =
                  [Free EXCEPT !.role = "decoder", !.parent = proc[q].parent, !.left = n,
                               !.fds = ChildEnds(q).fds, !.stdout = ChildEnds(q).stdout]]
  /\ UNCHANGED <<data, signalled>>

ExecFails(q) ==
  /\ PlayerAt(q, "child")
  /\ proc' = [proc EXCEPT ![q] = [ChildEnds(q) EXCEPT !.pc = "opening"]]
  /\ UNCHANGED <<data, signalled>>

\* Variant: the player forgets to close the end the decoder writes to.
CloseEndsButWrite(p) ==
  /\ PlayerAt(p, "opening")
  /\ LET k == proc[p].fdin IN
     proc' = [proc EXCEPT ![p] =
                [At(p, "read") EXCEPT !.fds = @ \ (SongEnds(k) \ {ReadEnd(k), WriteEnd(k)})]]
  /\ UNCHANGED <<data, signalled>>

\* The rest of ExecuteDecoder: all ends but the one to read from are closed.
CloseEnds(p) ==
  /\ PlayerAt(p, "opening")
  /\ LET k == proc[p].fdin IN
     proc' = [proc EXCEPT ![p] =
                [At(p, "read") EXCEPT !.fds = @ \ (SongEnds(k) \ {ReadEnd(k)})]]
  /\ UNCHANGED <<data, signalled>>

-----------------------------------------------------------------------------
(* The loop of PlaySong.                                                   *)

\* read blocks while the pipe is empty and somebody may still write to it.
Read(p) ==
  /\ PlayerAt(p, "read")
  /\ LET k == proc[p].fdin IN
     /\ ReadEnd(k) \in proc[p].fds
     /\ data[k] > 0
     /\ data' = [data EXCEPT ![k] = @ - 1]
  /\ proc' = [proc EXCEPT ![p] = At(p, "loop")]
  /\ UNCHANGED signalled

\* End of file, or, in a child that has closed its read end, an error.
ReadEnds(p) ==
  /\ PlayerAt(p, "read")
  /\ LET k == proc[p].fdin IN
     ReadEnd(k) \in proc[p].fds => data[k] = 0 /\ ~HasWriter(k)
  /\ proc' = [proc EXCEPT ![p] = At(p, "close")]
  /\ UNCHANGED <<data, signalled>>

\* The sample is sent and commands are read: go on, or leave the song.
Loop(p) ==
  /\ PlayerAt(p, "loop")
  /\ \E c \in {"read", "close"} : proc' = [proc EXCEPT ![p] = At(p, c)]
  /\ UNCHANGED <<data, signalled>>

-----------------------------------------------------------------------------
(* AudioStream::Close and MP3Stream::Close.                                *)

\* kill of -1 signals every process but the caller.
Target(p) == IF proc[p].programID = -1 THEN Alive \ {p} ELSE {proc[p].programID} \cap Alive

CloseUnknown(p) ==
  /\ PlayerAt(p, "close") /\ ~proc[p].mp3
  /\ proc' = [proc EXCEPT ![p] = At(p, "idle")]
  /\ UNCHANGED <<data, signalled>>

Close(p) ==
  /\ PlayerAt(p, "close") /\ proc[p].mp3
  /\ proc' = [proc EXCEPT ![p] =
                [At(p, IF proc[p].programID = 0 THEN "idle" ELSE "wait")
                   EXCEPT !.fds = @ \ {ReadEnd(proc[p].fdin)}]]
  /\ signalled' = IF proc[p].programID = 0 THEN signalled ELSE signalled \cup Target(p)
  /\ UNCHANGED data

\* Variant: Close signals the decoder and does not wait for it.
WaitSkipped(p) ==
  /\ PlayerAt(p, "wait")
  /\ proc' = [proc EXCEPT ![p] = [At(p, "idle") EXCEPT !.programID = 0]]
  /\ UNCHANGED <<data, signalled>>

\* Variant: the decoder is waited for and its process id is kept.
WaitKeepsProgramID(p) ==
  /\ PlayerAt(p, "wait")
  /\ \E q \in Children(p) :
       /\ proc[q].role = "zombie"
       /\ proc' = [proc EXCEPT ![p] = At(p, "idle"), ![q] = Free]
  /\ UNCHANGED <<data, signalled>>

\* waitpid reaps the decoder, and blocks until it can; for -1 any child
\* would do, and without children it returns at once.
WaitForDecoderToExit(p) ==
  /\ PlayerAt(p, "wait")
  /\ LET waited == IF proc[p].programID = -1 THEN Children(p)
                   ELSE Children(p) \cap {proc[p].programID}
         idle == [At(p, "idle") EXCEPT !.programID = 0]
     IN \/ waited = {} /\ proc' = [proc EXCEPT ![p] = idle]
        \/ \E q \in waited : /\ proc[q].role = "zombie"
                             /\ proc' = [proc EXCEPT ![p] = idle, ![q] = Free]
  /\ UNCHANGED <<data, signalled>>

-----------------------------------------------------------------------------
(* The operating system, mpg123 and musicServer.sh.                        *)

\* mpg123 writes the song's samples and ends; without a reader its write
\* fails and it ends too (SIGPIPE is ignored since mysql_init, over fork and
\* execvp); with a reader and a full pipe it waits.
Decode(d) ==
  /\ proc[d].role = "decoder"
  /\ LET k == proc[d].stdout IN
     \/ proc[d].left = 0 /\ Ends(d)
     \/ proc[d].left > 0 /\ ~HasReader(k) /\ Ends(d)
     \/ /\ proc[d].left > 0 /\ HasReader(k) /\ data[k] < Capacity
        /\ data' = [data EXCEPT ![k] = @ + 1]
        /\ proc' = [proc EXCEPT ![d].left = @ - 1]
        /\ UNCHANGED signalled

\* A child that plays logs to standard output, which is its parent's pipe,
\* and the parent plays what it logs; without a reader the write just fails.
Log(p) ==
  /\ PlayerAt(p, "idle")
  /\ LET k == proc[p].stdout IN
     /\ k # 0 /\ HasReader(k) /\ data[k] < Capacity
     /\ data' = [data EXCEPT ![k] = @ + 1]
  /\ UNCHANGED <<proc, signalled>>

\* SIGTERM has its default action, in a child before execvp as in mpg123.
Terminate(p) == p \in signalled /\ Ends(p)

Kill(p) == proc[p].role = "player" /\ Ends(p)

\* start: its pgrep looks for AirPortTalk while the program that runs is
\* AirPortMusic, so a player may be started beside another.
Restart ==
  /\ Cardinality({p \in Pids : proc[p].role = "player"}) < MaxPlayers
  /\ \E p \in Pids : /\ proc[p].role = "free"
                     /\ proc' = [proc EXCEPT ![p] = Player]
  /\ UNCHANGED <<data, signalled>>

-----------------------------------------------------------------------------
\* What a process does by itself once it is at it.
Step(p) ==
  \/ Exec(p) \/ ExecFails(p) \/ CloseEnds(p)
  \/ Read(p) \/ ReadEnds(p) \/ Loop(p)
  \/ CloseUnknown(p) \/ Close(p) \/ WaitForDecoderToExit(p)
  \/ Decode(p)

Next ==
  \/ Restart
  \/ \E p \in Pids : \/ OpenUnknown(p) \/ Fork(p) \/ ForkFails(p)
                     \/ Step(p)
                     \/ Log(p) \/ Terminate(p) \/ Kill(p)

Spec == Init /\ [][Next]_vars

(* The scheduler runs every process that can run, and delivers signals.    *)
(* Nothing makes a song start, a command come or a child log.              *)
FairSpec ==
  Spec /\ \A p \in Pids : WF_vars(Step(p)) /\ WF_vars(Terminate(p))

-----------------------------------------------------------------------------
(* Properties                                                              *)

\* Types of all variables.
TypeOK ==
  /\ proc \in [Pids -> Process]
  /\ data \in [Pipes -> 0 .. Capacity]
  /\ signalled \subseteq Alive

(* Between two songs a player holds no end of a pipe and no process it has *)
(* forked is left, neither running nor as a zombie (WaitForDecoderToExit   *)
(* names both): over songs that are cut, that end, or whose fork or execvp *)
(* failed.                                                                 *)
NothingLeft ==
  \A p \in Pids : PlayerAt(p, "idle") => proc[p].fds = {} /\ Children(p) = {}

(* What kill and waitpid are given is of this song: the one child that the *)
(* player forked for it, or -1 when that fork failed, and then it has no   *)
(* child.  Between songs it is 0: no id is kept that the system may have   *)
(* given to another process since.                                         *)
PidIsOwn ==
  \A p \in Pids : proc[p].role = "player" =>
    LET id == proc[p].programID
    IN /\ proc[p].pc = "idle" => id = 0
       /\ id # 0 => Children(p) = {id} \ {-1}

(* "StopDecoder Decoder programID": what StopDecoder signals is the        *)
(* decoder, the player's own child, and no other process.                  *)
StopsDecoderOnly ==
  [][\A p \in Pids : Close(p) => signalled' \subseteq signalled \cup Children(p)]_vars

\* Reachable only after a failed execvp: a child of p that plays.
ChildPlays(p) ==
  \E q \in Children(p) : proc[q].role = "player" /\ proc[q].pc # "child"

(* A song that began comes to its end and Close returns: end of file       *)
(* reaches read, and waitpid finds the decoder dead.  Only a child that    *)
(* plays instead of executing mpg123 can keep its parent in read: it holds *)
(* the write end for as long as it lives.                                  *)
PlayReturns ==
  \A p \in Pids :
    proc[p].role = "player" /\ proc[p].pc \notin {"idle", "child"} ~>
      proc[p].role # "player" \/ proc[p].pc = "idle" \/ ChildPlays(p)

(* A decoder whose player was killed does not outlive it: it holds copies  *)
(* of every descriptor of the player, the port for commands among them,    *)
(* that a restarted player needs.                                          *)
OrphansEnd ==
  \A d \in Pids :
    proc[d].role = "decoder" /\ proc[d].parent = 0 ~> proc[d].role # "decoder"

-----------------------------------------------------------------------------
(* The inductive invariant.                                                *)

\* Children are known by programID, and only to who forked them.
Kin ==
  \A p \in Pids :
    /\ Children(p) = IF proc[p].role = "player" THEN {proc[p].programID} \cap Pids ELSE {}
    /\ proc[p].parent # p
    /\ proc[p].role = "free" => proc[p].parent = 0

\* What a player may hold at each place of the code.
HoldsOwnEnds(v) ==
  LET song == v.fdin \in Pipes /\ v.mp3
  IN /\ v.pc = "idle" => v.fds = {} /\ v.programID = 0
     /\ v.pc = "child" => /\ v.fds \subseteq SongEnds(v.fdin) /\ song
                          /\ v.programID = 0
     /\ v.pc = "opening" => v.fds \subseteq SongEnds(v.fdin) /\ song
     /\ v.pc \in {"read", "loop"} => v.fds \subseteq {ReadEnd(v.fdin)} /\ song
     /\ v.pc = "close" => /\ v.fds \subseteq {ReadEnd(v.fdin)}
                          /\ ~v.mp3 => v.fds = {} /\ v.programID = 0
     /\ v.pc = "wait" => v.fds = {}

Held == \A p \in Pids : proc[p].role = "player" => HoldsOwnEnds(proc[p])

(* NothingLeft rests on what a player knows of its children at every place *)
(* of the code, and on the ends it holds there.                            *)
IInv == TypeOK /\ Kin /\ Held
=============================================================================
