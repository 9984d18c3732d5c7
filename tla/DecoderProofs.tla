---------------------------- MODULE DecoderProofs ----------------------------
(***************************************************************************)
(* Proofs about module Decoder, for any set of process ids and pipes, any  *)
(* capacity of a pipe and any length of the songs.                         *)
(***************************************************************************)
EXTENDS Decoder, TLAPS

\* What is expected of the children of a process v.
Forks(v) == IF v.role = "player" THEN {v.programID} \cap Pids ELSE {}

\* What the proofs use of the constant records.
LEMMA Records ==
  /\ Free \in Process /\ Free.role = "free" /\ Free.parent = 0
  /\ Player \in Process /\ Player.role = "player" /\ Player.parent = 0
  /\ HoldsOwnEnds(Player) /\ Player.programID = 0
<1>1. /\ Free.role = "free" /\ Free.pc = "idle" /\ Free.parent = 0
      /\ Free.fds = {} /\ Free.programID = 0
  BY DEF Free
<1>2. Free \in Process
  BY MaxSamplesAssumption DEF Free, Process
<1>3. /\ Player \in Process /\ Player.role = "player" /\ Player.pc = "idle"
      /\ Player.parent = 0 /\ Player.fds = {} /\ Player.programID = 0
  BY <1>1, <1>2 DEF Player, Process
<1>4. HoldsOwnEnds(Player)
  BY <1>3, PidsAssumption DEF HoldsOwnEnds
<1> QED BY <1>1, <1>2, <1>3, <1>4

\* The ends of a pipe, and the two of them that a song uses.
LEMMA EndsTyped ==
  ASSUME NEW k \in Pipes
  PROVE  /\ SongEnds(k) \subseteq Pipes \X {"in", "out", "err"} \X {0, 1}
         /\ ReadEnd(k) \in SongEnds(k) /\ WriteEnd(k) \in SongEnds(k)
BY DEF SongEnds, ReadEnd, WriteEnd

\* A step of one process that keeps its parent, and the child it knows of.
LEMMA OneMoves ==
  ASSUME IInv, NEW p \in Pids, NEW v \in Process,
         proc' = [proc EXCEPT ![p] = v],
         v.parent = proc[p].parent, Forks(v) = Forks(proc[p]),
         v.role # "free",
         v.role = "player" => HoldsOwnEnds(v),
         data' \in [Pipes -> 0 .. Capacity],
         signalled' \subseteq Alive',
         p \in Alive \/ p \notin signalled
  PROVE  IInv'
<1>1. TypeOK'
  BY DEF IInv, TypeOK
<1>2. \A q \in Pids : proc'[q] = IF q = p THEN v ELSE proc[q]
  BY DEF IInv, TypeOK
<1>3. \A q \in Pids : Children(q)' = Children(q)
  BY <1>2 DEF Children
<1>4. \A q \in Pids : Children(q) = Forks(proc[q]) /\ proc[q].parent # q
  BY DEF IInv, Kin, Forks
<1>5. \A q \in Pids : Forks(proc'[q]) = Forks(proc[q]) /\ proc'[q].parent = proc[q].parent
  BY <1>2
<1>6. \A q \in Pids : Children(q)' = Forks(proc'[q]) /\ proc'[q].parent # q
  BY <1>3, <1>4, <1>5
<1>7. \A q \in Pids : proc'[q].role = "free" => proc'[q].parent = 0
  BY <1>2 DEF IInv, Kin
<1>8. Kin'
  BY <1>6, <1>7 DEF Kin, Forks
<1>9. Held'
  BY <1>2 DEF IInv, Held
<1> QED BY <1>1, <1>8, <1>9 DEF IInv

\* The end of a process, whatever ends it.
LEMMA EndsKeeps ==
  ASSUME IInv, NEW p \in Pids, p \in Alive, Ends(p)
  PROVE  IInv'
<1> DEFINE After(q) ==
      IF q = p
      THEN IF proc[p].parent = 0 THEN Free
           ELSE [Free EXCEPT !.role = "zombie", !.parent = proc[p].parent]
      ELSE IF proc[q].parent # p THEN proc[q]
      ELSE IF proc[q].role = "zombie" THEN Free
      ELSE [proc[q] EXCEPT !.parent = 0]
<1>1. /\ proc' = [q \in Pids |-> After(q)]
      /\ signalled' = signalled \ {p} /\ data' = data
  BY DEF Ends
<1> HIDE DEF After
<1>2. \A q \in Pids : proc'[q] = After(q)
  BY <1>1
<1>3. \A q \in Pids : proc[q] \in Process
  BY DEF IInv, TypeOK
<1>4. \A q \in Pids : After(q) \in Process
  BY <1>3, Records, ZenonT(60) DEF After, Process
<1>5. \A q \in Pids : q # p /\ proc[q].role \in {"player", "decoder"} =>
        After(q).role = proc[q].role
  BY <1>3, Records DEF After, Process
<1>6. TypeOK'
  <2>1. Alive \ {p} \subseteq Alive'
    BY <1>2, <1>5 DEF Alive
  <2> QED BY <1>1, <1>2, <1>4, <2>1 DEF IInv, TypeOK
<1>7. \A q \in Pids : After(q).parent =
        IF q # p /\ proc[q].parent = p THEN 0 ELSE proc[q].parent
  BY <1>3, Records DEF After, Process
<1>8. \A r \in Pids : Children(r)' = IF r = p THEN {} ELSE Children(r)
  <2>1. \A q \in Pids : proc'[q].parent =
          IF q # p /\ proc[q].parent = p THEN 0 ELSE proc[q].parent
    BY <1>2, <1>7
  <2>2. proc[p].parent # p
    BY DEF IInv, Kin
  <2> QED BY <2>1, <2>2, PidsAssumption DEF Children
<1>9. \A r \in Pids : Forks(After(r)) = IF r = p THEN {} ELSE Forks(proc[r])
  BY <1>3, Records DEF After, Forks, Process
<1>10. Kin'
  <2>1. \A r \in Pids : Children(r)' = Forks(proc'[r])
    BY <1>2, <1>8, <1>9 DEF IInv, Kin, Forks
  <2>2. \A r \in Pids : proc'[r].parent # r
    BY <1>2, <1>7, PidsAssumption DEF IInv, Kin
  <2>3. \A r \in Pids : proc'[r].role = "free" => proc'[r].parent = 0
    <3>1. \A r \in Pids : After(r).role = "free" => After(r).parent = 0
      BY <1>3, Records DEF IInv, Kin, After, Process
    <3> QED BY <1>2, <3>1
  <2> QED BY <2>1, <2>2, <2>3 DEF Kin, Forks
<1>11. Held'
  <2>1. \A r \in Pids : After(r).role = "player" =>
          /\ proc[r].role = "player"
          /\ After(r).pc = proc[r].pc /\ After(r).fds = proc[r].fds
          /\ After(r).mp3 = proc[r].mp3 /\ After(r).fdin = proc[r].fdin
          /\ After(r).programID = proc[r].programID
    BY <1>3, Records DEF After, Process
  <2> QED BY <1>2, <2>1 DEF IInv, Held, HoldsOwnEnds
<1> QED BY <1>6, <1>10, <1>11 DEF IInv

\* A player moves within the code and forks nobody.
LEMMA PlayerMoves ==
  ASSUME IInv, NEW p \in Pids, proc[p].role = "player",
         NEW v \in Process, proc' = [proc EXCEPT ![p] = v],
         v.role = "player", v.parent = proc[p].parent,
         {v.programID} \cap Pids = {proc[p].programID} \cap Pids,
         HoldsOwnEnds(v),
         data' \in [Pipes -> 0 .. Capacity],
         signalled' = signalled \/ signalled' \subseteq Alive
  PROVE  IInv'
<1>1. Alive' = Alive /\ p \in Alive
  BY DEF IInv, TypeOK, Alive
<1>2. signalled' \subseteq Alive'
  BY <1>1 DEF IInv, TypeOK
<1> QED BY <1>1, <1>2, OneMoves DEF Forks

\* Starting a song: the pipes, the fork, and a format without a decoder.
LEMMA Opens ==
  ASSUME IInv, NEW p \in Pids, OpenUnknown(p) \/ Fork(p) \/ ForkFails(p)
  PROVE  IInv'
<1>1. proc[p] \in Process /\ proc \in [Pids -> Process] /\ 0 \notin Pids
  BY PidsAssumption DEF IInv, TypeOK
<1>2. /\ proc[p].role = "player" /\ proc[p].pc = "idle" /\ proc[p].fds = {}
      /\ proc[p].programID = 0 /\ Children(p) = {}
  <2>1. proc[p].role = "player" /\ proc[p].pc = "idle"
    BY DEF OpenUnknown, Fork, ForkFails, PlayerAt
  <2>2. proc[p].fds = {} /\ proc[p].programID = 0
    BY <2>1 DEF IInv, Held, HoldsOwnEnds
  <2>3. Children(p) = {proc[p].programID} \cap Pids
    BY <2>1 DEF IInv, Kin
  <2> QED BY <1>1, <2>1, <2>2, <2>3
<1>3. CASE OpenUnknown(p)
  <2> DEFINE v == [At(p, "close") EXCEPT !.mp3 = FALSE]
  <2>1. v \in Process /\ HoldsOwnEnds(v) /\ v.programID = proc[p].programID
        /\ v.role = "player" /\ v.parent = proc[p].parent
    BY <1>1, <1>2 DEF At, Process, HoldsOwnEnds
  <2>2. /\ proc' = [proc EXCEPT ![p] = v] /\ data' = data /\ signalled' = signalled
    BY <1>3 DEF OpenUnknown
  <2> HIDE DEF v
  <2> QED BY <1>2, <2>1, <2>2, PlayerMoves DEF IInv, TypeOK
<1>4. ASSUME NEW k \in Pipes, NEW id \in Pids \cup {0, -1}
      PROVE  LET v == Forked(p, k, id) IN
             /\ v \in Process /\ v.role = "player" /\ v.parent = proc[p].parent
             /\ v.pc = "opening" /\ v.fds \subseteq SongEnds(k) /\ v.fdin = k
             /\ v.mp3 /\ v.programID = id
  <2>1. SongEnds(k) \subseteq Pipes \X {"in", "out", "err"} \X {0, 1}
    BY EndsTyped
  <2> QED BY <1>1, <1>2, <2>1 DEF Forked, At, Process
<1>5. CASE ForkFails(p)
  <2>1. PICK k \in Pipes : /\ proc' = [proc EXCEPT ![p] = Forked(p, k, -1)]
                           /\ data' = [data EXCEPT ![k] = 0]
    BY <1>5 DEF ForkFails
  <2> DEFINE v == Forked(p, k, -1)
  <2>2. /\ v \in Process /\ v.role = "player" /\ v.parent = proc[p].parent
        /\ v.programID = -1 /\ HoldsOwnEnds(v)
    BY <1>4 DEF HoldsOwnEnds
  <2>3. -1 \notin Pids
    BY PidsAssumption
  <2>4. data' \in [Pipes -> 0 .. Capacity]
    BY <2>1, CapacityAssumption DEF IInv, TypeOK
  <2>5. signalled' = signalled /\ proc' = [proc EXCEPT ![p] = v]
    BY <1>5, <2>1 DEF ForkFails
  <2> HIDE DEF v
  <2> QED BY <1>1, <1>2, <2>2, <2>3, <2>4, <2>5, PlayerMoves
<1>6. CASE Fork(p)
  <2>1. PICK k \in Pipes, q \in Pids :
          /\ proc[q].role = "free"
          /\ proc' = [proc EXCEPT ![p] = Forked(p, k, q),
                                  ![q] = [Forked(p, k, 0) EXCEPT !.pc = "child",
                                                                 !.parent = p]]
          /\ data' = [data EXCEPT ![k] = 0]
    BY <1>6 DEF Fork
  <2> DEFINE v == Forked(p, k, q)
             w == [Forked(p, k, 0) EXCEPT !.pc = "child", !.parent = p]
  <2>2. /\ v \in Process /\ v.role = "player" /\ v.parent = proc[p].parent
        /\ v.programID = q /\ HoldsOwnEnds(v)
    BY <1>4 DEF HoldsOwnEnds
  <2>3. 0 \notin Pids
    BY PidsAssumption
  <2>4. /\ w \in Process /\ w.role = "player" /\ w.parent = p
        /\ w.programID = 0 /\ HoldsOwnEnds(w)
    <3>1. LET u == Forked(p, k, 0) IN
          /\ u \in Process /\ u.role = "player"
          /\ u.fds \subseteq SongEnds(k) /\ u.fdin = k
          /\ u.mp3 /\ u.programID = 0
      BY <1>4
    <3> QED BY <2>3, <3>1 DEF Process, HoldsOwnEnds
  <2>5. q # p
    BY <1>2, <2>1
  <2>6. \A r \in Pids : proc'[r] = IF r = q THEN w ELSE IF r = p THEN v ELSE proc[r]
    BY <1>1, <2>1, <2>5
  <2>7. proc' \in [Pids -> Process]
    BY <1>1, <2>1, <2>2, <2>4
  <2>8. signalled' = signalled /\ signalled \subseteq Alive
    BY <1>6 DEF Fork, IInv, TypeOK
  <2> HIDE DEF v, w
  <2>9. TypeOK'
    <3>1. Alive \subseteq Alive'
      BY <2>1, <2>2, <2>6, <1>2 DEF Alive
    <3>2. data' \in [Pipes -> 0 .. Capacity]
      BY <2>1, CapacityAssumption DEF IInv, TypeOK
    <3> QED BY <2>7, <2>8, <3>1, <3>2 DEF TypeOK
  <2>10. proc[q].parent = 0 /\ Children(q) = {}
    BY <2>1 DEF IInv, Kin
  <2>11. \A r \in Pids : proc'[r].parent = IF r = q THEN p ELSE proc[r].parent
    BY <2>2, <2>4, <2>6
  <2>12. \A r \in Pids : Children(r)' = IF r = p THEN {q} ELSE Children(r)
    BY <1>2, <2>3, <2>10, <2>11 DEF Children
  <2>13. Kin'
    <3>1. \A r \in Pids : Children(r)' = Forks(proc'[r])
      BY <1>2, <2>2, <2>3, <2>4, <2>5, <2>6, <2>10, <2>12 DEF IInv, Kin, Forks
    <3>2. \A r \in Pids : proc'[r].parent # r
      BY <2>5, <2>11 DEF IInv, Kin
    <3>3. \A r \in Pids : proc'[r].role = "free" => proc'[r].parent = 0
      BY <2>2, <2>4, <2>6 DEF IInv, Kin
    <3> QED BY <3>1, <3>2, <3>3 DEF Kin, Forks
  <2>14. Held'
    BY <2>2, <2>4, <2>6 DEF IInv, Held
  <2> QED BY <2>9, <2>13, <2>14 DEF IInv
<1> QED BY <1>3, <1>5, <1>6

\* What a forked child does before it is the decoder.
LEMMA ChildMoves ==
  ASSUME IInv, NEW q \in Pids, Exec(q) \/ ExecFails(q)
  PROVE  IInv'
<1>1. proc[q] \in Process /\ signalled \subseteq Alive /\ 0 \notin Pids
  BY PidsAssumption DEF IInv, TypeOK
<1>2. /\ proc[q].role = "player" /\ proc[q].fds \subseteq SongEnds(proc[q].fdin)
      /\ proc[q].fdin \in Pipes /\ proc[q].mp3 /\ proc[q].programID = 0
  BY <1>1 DEF IInv, Held, HoldsOwnEnds, Exec, ExecFails, PlayerAt
<1> DEFINE c == ChildEnds(q)
<1>3. /\ c \in Process /\ c.role = "player" /\ c.parent = proc[q].parent
      /\ c.programID = proc[q].programID /\ c.fdin = proc[q].fdin /\ c.mp3
      /\ c.fds \subseteq SongEnds(proc[q].fdin)
  BY <1>1, <1>2 DEF ChildEnds, Process
<1> HIDE DEF c
<1>4. CASE Exec(q)
  <2>1. PICK n \in 0 .. MaxSamples :
          proc' = [proc EXCEPT ![q] =
                     [Free EXCEPT !.role = "decoder", !.parent = proc[q].parent,
                                  !.left = n, !.fds = c.fds, !.stdout = c.stdout]]
    BY <1>4 DEF Exec, c
  <2> DEFINE v == [Free EXCEPT !.role = "decoder", !.parent = proc[q].parent,
                               !.left = n, !.fds = c.fds, !.stdout = c.stdout]
  <2>2. v \in Process /\ v.role = "decoder" /\ v.parent = proc[q].parent
    BY <1>1, <1>3, Records DEF Process
  <2>3. data' = data /\ signalled' = signalled /\ proc' = [proc EXCEPT ![q] = v]
    BY <1>4, <2>1 DEF Exec
  <2> HIDE DEF v
  <2>4. q \in Alive /\ Alive' = Alive
    BY <1>2, <2>2, <2>3 DEF IInv, TypeOK, Alive
  <2>5. Forks(v) = Forks(proc[q])
    BY <1>1, <1>2, <2>2 DEF Forks
  <2> QED BY <1>1, <2>2, <2>3, <2>4, <2>5, OneMoves DEF IInv, TypeOK
<1>5. CASE ExecFails(q)
  <2> DEFINE v == [c EXCEPT !.pc = "opening"]
  <2>1. /\ v \in Process /\ v.role = "player" /\ v.parent = proc[q].parent
        /\ v.programID = proc[q].programID /\ HoldsOwnEnds(v)
    BY <1>2, <1>3 DEF Process, HoldsOwnEnds
  <2>2. data' = data /\ signalled' = signalled /\ proc' = [proc EXCEPT ![q] = v]
    BY <1>5 DEF ExecFails, c
  <2> HIDE DEF v
  <2> QED BY <1>2, <2>1, <2>2, PlayerMoves DEF IInv, TypeOK
<1> QED BY <1>4, <1>5

\* What the player does while a song plays, until it closes the song.
LEMMA SongMoves ==
  ASSUME IInv, NEW p \in Pids,
         CloseEnds(p) \/ Read(p) \/ ReadEnds(p) \/ Loop(p) \/ CloseUnknown(p) \/ Close(p)
  PROVE  IInv'
<1> DEFINE k == proc[p].fdin
<1>1. /\ proc[p] \in Process /\ proc[p].role = "player" /\ HoldsOwnEnds(proc[p])
      /\ data \in [Pipes -> 0 .. Capacity]
  BY DEF IInv, TypeOK, Held, CloseEnds, Read, ReadEnds, Loop, CloseUnknown, Close, PlayerAt
<1>2. CASE CloseEnds(p)
  <2> DEFINE v == [At(p, "read") EXCEPT !.fds = @ \ (SongEnds(k) \ {ReadEnd(k)})]
  <2>1. /\ v \in Process /\ v.role = "player" /\ v.parent = proc[p].parent
        /\ v.programID = proc[p].programID /\ HoldsOwnEnds(v)
    BY <1>1, <1>2 DEF CloseEnds, PlayerAt, At, Process, HoldsOwnEnds
  <2>2. data' = data /\ signalled' = signalled /\ proc' = [proc EXCEPT ![p] = v]
    BY <1>2 DEF CloseEnds
  <2> HIDE DEF v
  <2> QED BY <1>1, <2>1, <2>2, PlayerMoves
<1>3. ASSUME NEW c \in {"read", "loop", "close"}, proc[p].pc \in {"read", "loop"}
      PROVE  LET v == At(p, c) IN
             /\ v \in Process /\ v.role = "player" /\ v.parent = proc[p].parent
             /\ v.programID = proc[p].programID /\ HoldsOwnEnds(v)
  BY <1>1, <1>3 DEF At, Process, HoldsOwnEnds
<1>4. CASE Read(p)
  <2> DEFINE v == At(p, "loop")
  <2>1. /\ v \in Process /\ v.role = "player" /\ v.parent = proc[p].parent
        /\ v.programID = proc[p].programID /\ HoldsOwnEnds(v)
    BY <1>3, <1>4 DEF Read, PlayerAt
  <2>2. /\ data[k] > 0 /\ data' = [data EXCEPT ![k] = data[k] - 1]
        /\ signalled' = signalled /\ proc' = [proc EXCEPT ![p] = v]
    BY <1>4 DEF Read
  <2>3. k \in Pipes
    BY <1>1, <1>4 DEF Read, PlayerAt, HoldsOwnEnds
  <2>4. data' \in [Pipes -> 0 .. Capacity]
    BY <1>1, <2>2, <2>3, CapacityAssumption
  <2> HIDE DEF v
  <2> QED BY <1>1, <2>1, <2>2, <2>4, PlayerMoves
<1>5. CASE ReadEnds(p)
  <2> DEFINE v == At(p, "close")
  <2>1. /\ v \in Process /\ v.role = "player" /\ v.parent = proc[p].parent
        /\ v.programID = proc[p].programID /\ HoldsOwnEnds(v)
    BY <1>3, <1>5 DEF ReadEnds, PlayerAt
  <2>2. data' = data /\ signalled' = signalled /\ proc' = [proc EXCEPT ![p] = v]
    BY <1>5 DEF ReadEnds
  <2> HIDE DEF v
  <2> QED BY <1>1, <2>1, <2>2, PlayerMoves
<1>6. CASE Loop(p)
  <2>1. PICK c \in {"read", "close"} : proc' = [proc EXCEPT ![p] = At(p, c)]
    BY <1>6 DEF Loop
  <2> DEFINE v == At(p, c)
  <2>2. /\ v \in Process /\ v.role = "player" /\ v.parent = proc[p].parent
        /\ v.programID = proc[p].programID /\ HoldsOwnEnds(v)
    BY <1>3, <1>6 DEF Loop, PlayerAt
  <2>3. data' = data /\ signalled' = signalled /\ proc' = [proc EXCEPT ![p] = v]
    BY <1>6, <2>1 DEF Loop
  <2> HIDE DEF v
  <2> QED BY <1>1, <2>2, <2>3, PlayerMoves
<1>7. CASE CloseUnknown(p)
  <2> DEFINE v == At(p, "idle")
  <2>1. /\ v \in Process /\ v.role = "player" /\ v.parent = proc[p].parent
        /\ v.programID = proc[p].programID /\ HoldsOwnEnds(v)
    BY <1>1, <1>7 DEF CloseUnknown, PlayerAt, At, Process, HoldsOwnEnds
  <2>2. data' = data /\ signalled' = signalled /\ proc' = [proc EXCEPT ![p] = v]
    BY <1>7 DEF CloseUnknown
  <2> HIDE DEF v
  <2> QED BY <1>1, <2>1, <2>2, PlayerMoves
<1>8. CASE Close(p)
  <2> DEFINE v == [At(p, IF proc[p].programID = 0 THEN "idle" ELSE "wait")
                     EXCEPT !.fds = @ \ {ReadEnd(k)}]
  <2>1. /\ v \in Process /\ v.role = "player" /\ v.parent = proc[p].parent
        /\ v.programID = proc[p].programID /\ HoldsOwnEnds(v)
    <3>1. 0 \notin Pids
      BY PidsAssumption
    <3> QED BY <1>1, <1>8, <3>1 DEF Close, PlayerAt, At, Process, HoldsOwnEnds
  <2>2. data' = data /\ proc' = [proc EXCEPT ![p] = v]
    BY <1>8 DEF Close
  <2>3. signalled' = signalled \/ signalled' \subseteq Alive
    BY <1>8 DEF Close, Target, IInv, TypeOK, Alive
  <2> HIDE DEF v
  <2> QED BY <1>1, <2>1, <2>2, <2>3, PlayerMoves
<1> QED BY <1>2, <1>4, <1>5, <1>6, <1>7, <1>8

\* Waiting for the decoder, or for any child.
LEMMA WaitMoves ==
  ASSUME IInv, NEW p \in Pids, WaitForDecoderToExit(p)
  PROVE  IInv'
<1> DEFINE idle == [At(p, "idle") EXCEPT !.programID = 0]
           waited == IF proc[p].programID = -1 THEN Children(p)
                     ELSE Children(p) \cap {proc[p].programID}
<1>1. /\ proc[p] \in Process /\ proc[p].role = "player" /\ proc[p].fds = {}
      /\ Children(p) = {proc[p].programID} \cap Pids
      /\ data' = data /\ signalled' = signalled
  BY DEF IInv, TypeOK, Kin, Held, HoldsOwnEnds, WaitForDecoderToExit, PlayerAt
<1>2. 0 \notin Pids /\ -1 \notin Pids
  BY PidsAssumption
<1>3. /\ idle \in Process /\ idle.role = "player" /\ idle.parent = proc[p].parent
      /\ idle.programID = 0 /\ HoldsOwnEnds(idle)
  BY <1>1, <1>2 DEF At, Process, HoldsOwnEnds
<1>4. waited = Children(p)
  BY <1>1, <1>2
<1>5. \/ waited = {} /\ proc' = [proc EXCEPT ![p] = idle]
      \/ \E q \in waited : /\ proc[q].role = "zombie"
                           /\ proc' = [proc EXCEPT ![p] = idle, ![q] = Free]
  BY DEF WaitForDecoderToExit
<1> HIDE DEF idle, waited
<1>6. CASE waited = {} /\ proc' = [proc EXCEPT ![p] = idle]
  <2>1. {idle.programID} \cap Pids = {proc[p].programID} \cap Pids
    BY <1>1, <1>2, <1>3, <1>4, <1>6
  <2> QED BY <1>1, <1>3, <1>6, <2>1, PlayerMoves DEF IInv, TypeOK
<1>7. CASE \E q \in waited : /\ proc[q].role = "zombie"
                             /\ proc' = [proc EXCEPT ![p] = idle, ![q] = Free]
  <2>1. PICK q \in Children(p) : /\ proc[q].role = "zombie"
                                 /\ proc' = [proc EXCEPT ![p] = idle, ![q] = Free]
    BY <1>4, <1>7
  <2>2. q \in Pids /\ q # p /\ Children(p) = {q}
    BY <1>1, <2>1
  <2>3. \A r \in Pids : proc'[r] = IF r = q THEN Free ELSE IF r = p THEN idle ELSE proc[r]
    BY <2>1, <2>2 DEF IInv, TypeOK
  <2>4. TypeOK'
    <3>1. proc' \in [Pids -> Process]
      BY <1>3, <2>1, <2>2, Records DEF IInv, TypeOK
    <3>2. Alive \subseteq Alive'
      BY <1>3, <2>1, <2>3 DEF Alive
    <3> QED BY <1>1, <3>1, <3>2 DEF IInv, TypeOK
  <2>5. \A r \in Pids : proc'[r].parent = IF r = q THEN 0 ELSE proc[r].parent
    BY <1>3, <2>3, Records
  <2>6. \A r \in Pids : Children(r)' = IF r = p THEN {} ELSE Children(r)
    BY <1>2, <2>2, <2>5 DEF Children
  <2>7. Kin'
    <3>1. Children(q) = {}
      BY <2>1, <2>2 DEF IInv, Kin
    <3>2. \A r \in Pids : Children(r)' = Forks(proc'[r])
      BY <1>2, <1>3, <2>2, <2>3, <2>6, <3>1, Records DEF IInv, Kin, Forks
    <3>3. \A r \in Pids : proc'[r].parent # r
      BY <1>2, <2>5 DEF IInv, Kin
    <3>4. \A r \in Pids : proc'[r].role = "free" => proc'[r].parent = 0
      BY <1>3, <2>3, Records DEF IInv, Kin
    <3> QED BY <3>2, <3>3, <3>4 DEF Kin, Forks
  <2>8. Held'
    BY <1>3, <2>3, Records DEF IInv, Held
  <2> QED BY <2>4, <2>7, <2>8 DEF IInv
<1> QED BY <1>5, <1>6, <1>7

\* What the decoder does, and the signals it gets.
LEMMA DecoderMoves ==
  ASSUME IInv, NEW p \in Pids, Decode(p) \/ Log(p) \/ Terminate(p) \/ Kill(p)
  PROVE  IInv'
<1>1. /\ proc[p] \in Process /\ data \in [Pipes -> 0 .. Capacity]
      /\ signalled \subseteq Alive
  BY DEF IInv, TypeOK
<1>2. CASE Ends(p)
  <2>1. p \in Alive
    BY <1>1 DEF Decode, Log, Terminate, Kill, PlayerAt, Alive
  <2> QED BY <1>2, <2>1, EndsKeeps
<1>3. ASSUME NEW k, data[k] < Capacity
       PROVE  [data EXCEPT ![k] = @ + 1] \in [Pipes -> 0 .. Capacity]
  <2>1. CASE k \in Pipes
    BY <1>1, <1>3, <2>1, CapacityAssumption
  <2>2. CASE k \notin Pipes
    BY <1>1, <2>2
  <2> QED BY <2>1, <2>2
<1>4. CASE Decode(p) /\ ~Ends(p)
  <2> DEFINE k == proc[p].stdout
             v == [proc[p] EXCEPT !.left = proc[p].left - 1]
  <2>1. /\ proc[p].role = "decoder" /\ proc[p].left > 0
        /\ HasReader(k) /\ data[k] < Capacity /\ signalled' = signalled
        /\ data' = [data EXCEPT ![k] = @ + 1] /\ proc' = [proc EXCEPT ![p] = v]
    BY <1>4 DEF Decode
  <2>2. v \in Process /\ v.role = "decoder" /\ v.parent = proc[p].parent
    BY <1>1, <2>1, MaxSamplesAssumption DEF Process
  <2>3. data' \in [Pipes -> 0 .. Capacity]
    BY <1>1, <1>3, <2>1
  <2> HIDE DEF v
  <2>4. p \in Alive /\ Alive' = Alive
    BY <2>1, <2>2 DEF IInv, TypeOK, Alive
  <2>5. Forks(v) = Forks(proc[p])
    BY <2>1, <2>2 DEF Forks
  <2> QED BY <1>1, <2>1, <2>2, <2>3, <2>4, <2>5, OneMoves
<1>5. CASE Log(p)
  <2> DEFINE k == proc[p].stdout
  <2>1. /\ data[k] < Capacity /\ data' = [data EXCEPT ![k] = @ + 1]
        /\ proc' = proc /\ signalled' = signalled
    BY <1>5 DEF Log
  <2>2. data' \in [Pipes -> 0 .. Capacity]
    BY <1>1, <1>3, <2>1
  <2> QED BY <2>1, <2>2 DEF IInv, TypeOK, Kin, Held, Children, Alive
<1> QED BY <1>2, <1>4, <1>5 DEF Terminate, Kill

\* A new player after a crash.
LEMMA Restarts ==
  ASSUME IInv, Restart
  PROVE  IInv'
<1>1. PICK p \in Pids : proc[p].role = "free" /\ proc' = [proc EXCEPT ![p] = Player]
  BY DEF Restart
<1>2. data' = data /\ signalled' = signalled
  BY DEF Restart
<1>3. p \notin signalled /\ proc[p].parent = 0
  BY <1>1 DEF IInv, TypeOK, Kin, Alive
<1>4. Alive \subseteq Alive'
  BY <1>1, Records DEF IInv, TypeOK, Alive
<1>5. 0 \notin Pids
  BY PidsAssumption
<1>6. Forks(Player) = Forks(proc[p])
  BY <1>1, <1>5, Records DEF Forks
<1> QED BY <1>1, <1>2, <1>3, <1>4, <1>6, Records, OneMoves DEF IInv, TypeOK

\* The system begins in the invariant.
LEMMA InitEstablishes == Init => IInv
<1> SUFFICES ASSUME Init PROVE IInv
  OBVIOUS
<1>1. PICK p \in Pids : /\ proc = [q \in Pids |-> IF q = p THEN Player ELSE Free]
                        /\ data = [k \in Pipes |-> 0] /\ signalled = {}
  BY DEF Init
<1>2. 0 \notin Pids
  BY PidsAssumption
<1>3. \A q \in Pids : Children(q) = {}
  BY <1>1, <1>2, Records DEF Children
<1>4. TypeOK
  BY <1>1, Records, CapacityAssumption DEF TypeOK
<1>5. Kin
  BY <1>1, <1>2, <1>3, Records DEF Kin
<1>6. Held
  BY <1>1, Records DEF Held
<1> QED BY <1>4, <1>5, <1>6 DEF IInv

\* Every step keeps the invariant.
LEMMA StepKeeps == IInv /\ [Next]_vars => IInv'
<1> SUFFICES ASSUME IInv, [Next]_vars PROVE IInv'
  OBVIOUS
<1>1. CASE UNCHANGED vars
  BY <1>1 DEF vars, IInv, TypeOK, Kin, Held, Children, Alive
<1>2. CASE Restart
  BY <1>2, Restarts
<1>3. ASSUME NEW p \in Pids,
             \/ OpenUnknown(p) \/ Fork(p) \/ ForkFails(p)
             \/ Step(p) \/ Log(p) \/ Terminate(p) \/ Kill(p)
      PROVE  IInv'
  BY <1>3, Opens, ChildMoves, SongMoves, WaitMoves, DecoderMoves DEF Step
<1> QED BY <1>1, <1>2, <1>3 DEF Next

(* What a player knows of its children and holds of its pipes at every     *)
(* place of MP3Stream is an invariant, over failed forks, failed execvps,  *)
(* kills and restarts.                                                     *)
THEOREM Inductive == Spec => []IInv
BY InitEstablishes, StepKeeps, PTL DEF Spec

\* Processes, pipes and pending signals keep their types.
THEOREM TypeCorrect == Spec => []TypeOK
BY Inductive, PTL DEF IInv

(* After Close of MP3Stream no end of a pipe and no process of the song is *)
(* left, neither running nor as a zombie.                                  *)
THEOREM SongsLeaveNothing == Spec => []NothingLeft
<1>1. IInv => NothingLeft
  BY PidsAssumption DEF IInv, Kin, Held, HoldsOwnEnds, NothingLeft, PlayerAt
<1> QED BY <1>1, Inductive, PTL

(* What StopDecoder is given is the player's only child, or -1 when the    *)
(* fork of this song failed and there is none; it does not outlive a song. *)
THEOREM ProgramIDOfThisSong == Spec => []PidIsOwn
<1>1. ASSUME IInv, NEW p \in Pids, proc[p].role = "player"
      PROVE  /\ proc[p].pc = "idle" => proc[p].programID = 0
             /\ proc[p].programID # 0 => Children(p) = {proc[p].programID} \ {-1}
  <2>1. proc[p].programID \in Pids \cup {0, -1} /\ -1 \notin Pids
    BY <1>1, PidsAssumption DEF IInv, TypeOK, Process
  <2>2. Children(p) = {proc[p].programID} \cap Pids
    BY <1>1 DEF IInv, Kin
  <2>3. proc[p].pc = "idle" => proc[p].programID = 0
    BY <1>1 DEF IInv, Held, HoldsOwnEnds
  <2> QED BY <2>1, <2>2, <2>3
<1>2. IInv => PidIsOwn
  BY <1>1, Zenon DEF PidIsOwn
<1> QED BY <1>2, Inductive, PTL

=============================================================================
