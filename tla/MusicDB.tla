------------------------------ MODULE MusicDB ------------------------------
(***************************************************************************)
(* The play queue kept in the MySQL database Music, and the routines of    *)
(* MusicDB.cpp that the player runs on it, one SQL statement per step.     *)
(*                                                                         *)
(* The player process is single threaded, but every statement is a         *)
(* separate autocommitted round trip (the tables are MyISAM): the web      *)
(* application may write between any two of them, any of them may fail     *)
(* (every routine only logs the error), and the process may die between    *)
(* any two of them.  The tables survive, the process's variables do not.   *)
(***************************************************************************)
EXTENDS Integers, Sequences, FiniteSets

CONSTANTS
  Songs,       \* songlibrary.SongIndex of the songs of the library
  Album,       \* songlibrary.Album, a function on Songs
  AutoList,    \* the result set of the Active row of AutoSongQuery
  Positions,   \* values the web page may store in playq.Arrangement
  MaxRows,     \* bound: rows ever inserted into playq
  MaxErrors,   \* bound: SQL statements that fail
  MaxCrashes   \* bound: times the process is killed

DefaultArrangement == 99999999
NoSong == 0    \* AUTO_INCREMENT keys start at 1: 0 joins with no song
NoAlbum == "" \* album of the zeroed playQRecord of getCurrentSongInPlayQ

ASSUME ConstantsAssumption ==
  /\ Songs \subseteq Nat \ {NoSong}
  /\ AutoList \in Seq(Songs)
  /\ Positions \subseteq Nat \ {DefaultArrangement}
  /\ MaxRows \in Nat /\ MaxErrors \in Nat /\ MaxCrashes \in Nat
  /\ \A s \in Songs : Album[s] # NoAlbum

VARIABLES
  playq,         \* table playq: row id is the index
  playCount,     \* songlibrary.PlayCount
  rowOffset,     \* AutoSongQuery.rowOffset of the Active query
  playAutomatic, \* MusicDB.cpp's global
  pc,            \* the statement the player executes next, or idle/down/segv
  op,            \* "next": getNextSongRecord, "skip": skipToNextAlbum
  pQR,           \* id of the current row (0: none), local pQR
  nextQR,        \* id of the row fetched from the queue, local nextQR / pQR
  pick,          \* song taken from the automatic result set
  retried,       \* getNextAutomaticSongRecord has already zeroed the offset
  errs,          \* statements that have failed so far
  crashes        \* kills so far

tables == <<playq, playCount, rowOffset>>
locals == <<op, pQR, nextQR, pick, retried>>
vars == <<playq, playCount, rowOffset, playAutomatic, pc, op, pQR, nextQR,
          pick, retried, errs, crashes>>

Statuses == {"In Queue", "Currently Playing", "Completed", "Canceled"}
RequestTypes == {"Automatic", "Request"}
Row == [songID : Songs \cup {NoSong}, Status : Statuses,
        RequestType : RequestTypes, Arrangement : Nat,
        Begin : BOOLEAN, End : BOOLEAN]

Ids == 1 .. Len(playq)

\* The column defaults of table playq around the two inserted columns.
NewRow(song, type) ==
  [songID |-> song, Status |-> "In Queue", RequestType |-> type,
   Arrangement |-> DefaultArrangement, Begin |-> FALSE, End |-> FALSE]

\* Both queries join playq with songlibrary and filter on Status.
WithStatus(s) ==
  {id \in Ids : playq[id].songID \in Songs /\ playq[id].Status = s}
InQueue == WithStatus("In Queue")
Playing == WithStatus("Currently Playing")

\* Variant: "id desc".
PrecedesNewestFirst(i, j) ==
  LET a == playq[i]
      b == playq[j]
  IN \/ a.Arrangement < b.Arrangement
     \/ /\ a.Arrangement = b.Arrangement
        /\ \/ a.RequestType = "Request" /\ b.RequestType = "Automatic"
           \/ a.RequestType = b.RequestType /\ i > j

\* "order by Arrangement asc, Status, RequestType desc, id asc".
Precedes(i, j) ==
  LET a == playq[i]
      b == playq[j]
  IN \/ a.Arrangement < b.Arrangement
     \/ /\ a.Arrangement = b.Arrangement
        /\ \/ a.RequestType = "Request" /\ b.RequestType = "Automatic"
           \/ a.RequestType = b.RequestType /\ i < j

IsHead(id) == id \in InQueue /\ \A j \in InQueue : j = id \/ Precedes(id, j)

AlbumOf(id) == IF id = 0 THEN NoAlbum ELSE Album[playq[id].songID]

Init ==
  /\ playq = <<>>
  /\ playCount = [s \in Songs |-> 0]
  /\ rowOffset = 0
  /\ playAutomatic = FALSE
  /\ pc = "idle"
  /\ op = "next" /\ pQR = 0 /\ nextQR = 0 /\ pick = NoSong /\ retried = FALSE
  /\ errs = 0 /\ crashes = 0

-----------------------------------------------------------------------------
(* How a statement ends: its effect, or an error that is only logged.      *)

Fail == errs < MaxErrors /\ errs' = errs + 1

Update(rows) == \/ playq' = rows /\ UNCHANGED errs
                \/ Fail /\ UNCHANGED playq

SetStatus(id, s) == [playq EXCEPT ![id].Status = s]

(* A NULL result set or row is dereferenced: the process dies.             *)
Segv == pc' = "segv" /\ UNCHANGED <<playAutomatic, locals>>

(* Calls from the main loop and the event handler.                         *)
Call(routine) ==
  /\ pc = "idle"
  /\ Len(playq) < MaxRows
  /\ op' = routine
  /\ pc' = "getCurrent"
  /\ pQR' = 0 /\ nextQR' = 0 /\ pick' = NoSong /\ retried' = FALSE
  /\ UNCHANGED <<tables, playAutomatic, errs, crashes>>

getNextSongRecord == Call("next")
skipToNextAlbum == Call("skip")

\* The commands playautomatic, playmanual and exit.
SetAutomatic ==
  /\ pc = "idle"
  /\ playAutomatic' \in BOOLEAN
  /\ UNCHANGED <<tables, pc, locals, errs, crashes>>

(* getCurrentSongInPlayQ: the first of the rows that are playing; the      *)
(* zeroed record when there is none and when the query fails.              *)
getCurrentSongInPlayQ ==
  /\ pc = "getCurrent"
  /\ \/ /\ UNCHANGED errs
        /\ \/ pQR' \in Playing
           \/ Playing = {} /\ pQR' = 0
     \/ Fail /\ pQR' = 0
  /\ pc' = IF pQR' > 0 THEN "markOld" ELSE "queryQ"
  /\ UNCHANGED <<tables, playAutomatic, op, nextQR, pick, retried, crashes>>

\* Variant: getNextSongRecord does not complete the song that ended.
MarkOldForgotten ==
  /\ pc = "markOld"
  /\ pc' = "endOld"
  /\ UNCHANGED <<playq, playCount, rowOffset, playAutomatic, locals, errs, crashes>>

\* Variant: a skipped song is recorded as completed.
MarkOldCompleted ==
  /\ pc = "markOld"
  /\ Update(SetStatus(pQR, "Completed"))
  /\ pc' = "endOld"
  /\ UNCHANGED <<playCount, rowOffset, playAutomatic, locals, crashes>>

\* Variant: a skipped song goes back to the queue.
MarkOldRequeued ==
  /\ pc = "markOld"
  /\ Update(SetStatus(pQR, IF op = "next" THEN "Completed" ELSE "In Queue"))
  /\ pc' = "endOld"
  /\ UNCHANGED <<playCount, rowOffset, playAutomatic, locals, crashes>>

\* updatePlayQStatus of the row that was playing.
MarkOld ==
  /\ pc = "markOld"
  /\ Update(SetStatus(pQR, IF op = "next" THEN "Completed" ELSE "Canceled"))
  /\ pc' = "endOld"
  /\ UNCHANGED <<playCount, rowOffset, playAutomatic, locals, crashes>>

\* updatePlayQEndPlayTime of the row that was playing.
EndOld ==
  /\ pc = "endOld"
  /\ Update([playq EXCEPT ![pQR].End = TRUE])
  /\ pc' = IF op = "next" THEN "countOld" ELSE "queryQ"
  /\ UNCHANGED <<playCount, rowOffset, playAutomatic, locals, crashes>>

incrementSongPlayCount ==
  /\ pc = "countOld"
  /\ \/ /\ playCount' = [playCount EXCEPT ![playq[pQR].songID] = @ + 1]
        /\ UNCHANGED errs
     \/ Fail /\ UNCHANGED playCount
  /\ pc' = "queryQ"
  /\ UNCHANGED <<playq, rowOffset, playAutomatic, locals, crashes>>

\* Variant: automatic mode is looked at before the number of queued rows.
QueryQAutomaticFirst ==
  /\ pc = "queryQ"
  /\ IF playAutomatic
     THEN pc' = "queryAuto" /\ UNCHANGED nextQR
     ELSE IF InQueue # {}
     THEN pc' = "fetchQ" /\ UNCHANGED nextQR
     ELSE /\ pc' = IF op = "next" THEN "idle" ELSE "queryQ"
          /\ nextQR' = IF op = "next" THEN 0 ELSE nextQR
  /\ UNCHANGED <<tables, playAutomatic, op, pQR, pick, retried, errs, crashes>>

(* queryPlayQ and the branch on the number of rows, the head of the loop   *)
(* of skipToNextAlbum.  mysql_num_rows is applied to a failed result too.  *)
(* With an empty queue in manual mode getNextSongRecord returns id 0, and  *)
(* skipToNextAlbum queries again: no branch of its loop body is taken.     *)
QueryQ ==
  /\ pc = "queryQ"
  /\ \/ /\ UNCHANGED <<errs, playAutomatic, op, pQR, pick, retried>>
        /\ IF InQueue # {}
           THEN pc' = "fetchQ" /\ UNCHANGED nextQR
           ELSE IF playAutomatic
           THEN pc' = "queryAuto" /\ UNCHANGED nextQR
           ELSE /\ pc' = IF op = "next" THEN "idle" ELSE "queryQ"
                /\ nextQR' = IF op = "next" THEN 0 ELSE nextQR
     \/ Fail /\ Segv
  /\ UNCHANGED <<tables, crashes>>

(* getNextPlayQRecord runs the query again and reads its first row.        *)
getNextPlayQRecord ==
  /\ pc = "fetchQ"
  /\ \/ \E id \in InQueue :
          /\ IsHead(id)
          /\ nextQR' = id
          /\ pc' = IF op = "next" THEN "beginTime"
                   ELSE IF AlbumOf(pQR) = AlbumOf(id) THEN "cancelNext"
                   ELSE "idle"
          /\ UNCHANGED <<errs, playAutomatic, op, pQR, pick, retried>>
     \/ InQueue = {} /\ Segv /\ UNCHANGED errs
     \/ Fail /\ Segv
  /\ UNCHANGED <<tables, crashes>>

\* Variant: the begin time is not written.
BeginTimeForgotten ==
  /\ pc = "beginTime"
  /\ pc' = "markPlaying"
  /\ UNCHANGED <<tables, playAutomatic, locals, errs, crashes>>

updatePlayQBeginPlayTime ==
  /\ pc = "beginTime"
  /\ Update([playq EXCEPT ![nextQR].Begin = TRUE])
  /\ pc' = "markPlaying"
  /\ UNCHANGED <<playCount, rowOffset, playAutomatic, locals, crashes>>

\* updatePlayQStatus of the row that starts to play; getNextSongRecord returns.
MarkPlaying ==
  /\ pc = "markPlaying"
  /\ Update(SetStatus(nextQR, "Currently Playing"))
  /\ pc' = "idle"
  /\ UNCHANGED <<playCount, rowOffset, playAutomatic, locals, crashes>>

\* skipToNextAlbum drops a queued row of the album it leaves.
CancelNext ==
  /\ pc = "cancelNext"
  /\ Update(SetStatus(nextQR, "Canceled"))
  /\ pc' = "endNext"
  /\ UNCHANGED <<playCount, rowOffset, playAutomatic, locals, crashes>>

EndNext ==
  /\ pc = "endNext"
  /\ Update([playq EXCEPT ![nextQR].End = TRUE])
  /\ pc' = "queryQ"
  /\ UNCHANGED <<playCount, rowOffset, playAutomatic, locals, crashes>>

-----------------------------------------------------------------------------
(* getNextAutomaticSongRecord.                                             *)

(* The automatic result set is stored and sought to rowOffset; seeking     *)
(* past its end makes the row NULL, which is taken as its end the first    *)
(* time.  Two SELECTs, on tables taken to be written by the player alone.  *)
(* A failure of the first one formats a NULL statement text.  A failure of *)
(* the second one switches to manual mode with songID 0 the first time     *)
(* (skipToNextAlbum then compares an uninitialised album); on retry it only*)
(* makes the row NULL.                                                     *)
queryAutomaticSong ==
  /\ pc = "queryAuto"
  /\ \/ /\ rowOffset < Len(AutoList)
        /\ pick' = AutoList[rowOffset + 1]
        /\ pc' = "bumpOffset"
        /\ UNCHANGED <<retried, playAutomatic, errs, op, pQR, nextQR>>
     \/ /\ rowOffset >= Len(AutoList)
        /\ pick' = NoSong
        /\ pc' = IF retried THEN "bumpOffset" ELSE "zeroOffset"
        /\ UNCHANGED <<retried, playAutomatic, errs, op, pQR, nextQR>>
     \/ Fail /\ Segv
     \/ /\ Fail
        /\ ~retried
        /\ playAutomatic' = FALSE
        /\ pick' = NoSong
        /\ \/ pc' = "insertAuto"
           \/ op = "skip" /\ pc' = "queryQ"
        /\ UNCHANGED <<retried, op, pQR, nextQR>>
     \/ /\ Fail
        /\ retried
        /\ pick' = NoSong
        /\ pc' = "bumpOffset"
        /\ UNCHANGED <<retried, playAutomatic, op, pQR, nextQR>>
  /\ UNCHANGED <<tables, crashes>>

\* Variant: the offset is not rewound at the end of the result set.
ZeroOffsetForgotten ==
  /\ pc = "zeroOffset"
  /\ retried' = TRUE
  /\ pc' = "queryAuto"
  /\ UNCHANGED <<tables, playAutomatic, op, pQR, nextQR, pick, errs, crashes>>

\* Variant: the offset is rewound to before the first row.
ZeroOffsetTooFar ==
  /\ pc = "zeroOffset"
  /\ rowOffset' = -1
  /\ retried' = TRUE
  /\ pc' = "queryAuto"
  /\ UNCHANGED <<playq, playCount, playAutomatic, op, pQR, nextQR, pick, errs, crashes>>

zeroAutomaticSongRowOffset ==
  /\ pc = "zeroOffset"
  /\ \/ rowOffset' = 0 /\ UNCHANGED errs
     \/ Fail /\ UNCHANGED rowOffset
  /\ retried' = TRUE
  /\ pc' = "queryAuto"
  /\ UNCHANGED <<playq, playCount, playAutomatic, op, pQR, nextQR, pick, crashes>>

\* Variant: the offset is not saved back.
BumpOffsetForgotten ==
  /\ pc = "bumpOffset"
  /\ retried' = FALSE
  /\ pc' = IF pick = NoSong THEN "segv"
           ELSE IF op = "skip" /\ AlbumOf(pQR) = Album[pick] THEN "queryQ"
           ELSE "insertAuto"
  /\ UNCHANGED <<tables, playAutomatic, op, pQR, nextQR, pick, errs, crashes>>

\* incrementAutomaticSongRowOffset, then the row is read (it may be NULL).
incrementAutomaticSongRowOffset ==
  /\ pc = "bumpOffset"
  /\ \/ rowOffset' = rowOffset + 1 /\ UNCHANGED errs
     \/ Fail /\ UNCHANGED rowOffset
  /\ retried' = FALSE
  /\ pc' = IF pick = NoSong THEN "segv"
           ELSE IF op = "skip" /\ AlbumOf(pQR) = Album[pick] THEN "queryQ"
           ELSE "insertAuto"
  /\ UNCHANGED <<playq, playCount, playAutomatic, op, pQR, nextQR, pick, crashes>>

addSongToPlayQ ==
  /\ pc = "insertAuto"
  /\ Update(Append(playq, NewRow(pick, "Automatic")))
  /\ pc' = IF op = "next" THEN "fetchQ" ELSE "idle"
  /\ UNCHANGED <<playCount, rowOffset, playAutomatic, locals, crashes>>

-----------------------------------------------------------------------------
(* The web application (external) and the life of the process.             *)

WebAddSong ==
  /\ Len(playq) < MaxRows - 1    \* one row is kept for the player's insert
  /\ \E s \in Songs : playq' = Append(playq, NewRow(s, "Request"))
  /\ UNCHANGED <<playCount, rowOffset, playAutomatic, pc, locals, errs, crashes>>

WebArrange ==
  /\ \E id \in Ids, p \in Positions :
       playq' = [playq EXCEPT ![id].Arrangement = p]
  /\ UNCHANGED <<playCount, rowOffset, playAutomatic, pc, locals, errs, crashes>>

Kill ==
  /\ pc \notin {"down", "segv"}
  /\ crashes < MaxCrashes
  /\ crashes' = crashes + 1
  /\ pc' = "down"
  /\ UNCHANGED <<tables, playAutomatic, locals, errs>>

\* start of musicServer.sh, for a player that has ended.  Its test for one that
\* runs may fail to find it; this module has one player all the same.
Restart ==
  /\ pc \in {"down", "segv"}
  /\ pc' = "idle"
  /\ playAutomatic' = FALSE
  /\ op' = "next" /\ pQR' = 0 /\ nextQR' = 0 /\ pick' = NoSong
  /\ retried' = FALSE
  /\ UNCHANGED <<tables, errs, crashes>>

Player ==
  \/ getCurrentSongInPlayQ \/ MarkOld \/ EndOld \/ incrementSongPlayCount
  \/ QueryQ \/ getNextPlayQRecord \/ updatePlayQBeginPlayTime \/ MarkPlaying
  \/ CancelNext \/ EndNext
  \/ queryAutomaticSong \/ zeroAutomaticSongRowOffset
  \/ incrementAutomaticSongRowOffset \/ addSongToPlayQ

Next ==
  \/ getNextSongRecord \/ skipToNextAlbum \/ SetAutomatic
  \/ Player
  \/ WebAddSong \/ WebArrange
  \/ Kill \/ Restart

Spec == Init /\ [][Next]_vars
FairSpec == Spec /\ WF_vars(Player)

-----------------------------------------------------------------------------
(* Properties.                                                             *)

Stopped == {"idle", "down", "segv"}
PCs == Stopped \cup
  {"getCurrent", "markOld", "endOld", "countOld", "queryQ", "fetchQ",
   "beginTime", "markPlaying", "cancelNext", "endNext",
   "queryAuto", "zeroOffset", "bumpOffset", "insertAuto"}

TypeOK ==
  /\ playq \in Seq(Row)
  /\ playCount \in [Songs -> Nat]
  /\ rowOffset \in Nat
  /\ playAutomatic \in BOOLEAN
  /\ pc \in PCs
  /\ op \in {"next", "skip"}
  /\ pQR \in Ids \cup {0} /\ nextQR \in Ids \cup {0}
  /\ pick \in Songs \cup {NoSong}
  /\ retried \in BOOLEAN
  /\ errs \in Nat /\ crashes \in Nat

(* The row that is playing is the only one: getNextSongRecord and          *)
(* skipToNextAlbum retire the old one before a new one is marked, also     *)
(* when the process dies in between and the next call finds the row of the *)
(* previous life.                                                          *)
UniqueCurrent == errs = 0 => \A i, j \in Playing : i = j

(* Each failed statement leaves at most one more row "Currently Playing":  *)
(* stale rows are not multiplied by later calls.                           *)
StaleBounded == Cardinality(Playing) <= 1 + errs

(* The player queues an automatic song only when nothing is queued, so     *)
(* one at most waits, whatever the web page inserts meanwhile, whichever   *)
(* statement fails and wherever the process dies: a request never finds a  *)
(* backlog of automatic songs before it.                                   *)
Automatic(id) == playq[id].RequestType = "Automatic"
AtMostOneAutomaticQueued ==
  \A i, j \in InQueue : Automatic(i) /\ Automatic(j) => i = j

(* The times tell what happened to the song although they are written by   *)
(* separate statements: a song that is playing has begun and not ended,    *)
(* a completed one has begun, and only a retired one has an end; also for  *)
(* the rows a killed process leaves behind.                                *)
TimesFollowStatus ==
  errs = 0 => \A id \in Ids :
    LET row == playq[id]
    IN /\ row.Status = "Currently Playing" => row.Begin /\ ~row.End
       /\ row.Status = "Completed" => row.Begin
       /\ row.End => row.Status \in {"Completed", "Canceled"}

(* PlayCount against the play queue: every completed row is counted once,  *)
(* save the one being completed and one per kill or failed statement; and  *)
(* a skipped song is not counted.                                          *)
CompletedRows(s) ==
  {id \in Ids : playq[id].songID = s /\ playq[id].Status = "Completed"}
BeingCounted == IF op = "next" /\ pc \in {"endOld", "countOld"} THEN 1 ELSE 0
CountsMatch ==
  \A s \in Songs :
    LET done == Cardinality(CompletedRows(s))
    IN /\ playCount[s] <= done + errs
       /\ done <= playCount[s] + crashes + errs + BeingCounted

(* Rows with no arrangement of the web page are started or dropped in the  *)
(* order of their insertion within their request type: no later row leaves *)
(* the queue before an earlier one, over kills and failed statements too.  *)
Fifo ==
  \A i, j \in Ids :
    /\ i < j
    /\ playq[i].RequestType = playq[j].RequestType
    /\ playq[i].songID \in Songs /\ playq[j].songID \in Songs
    /\ playq[i].Arrangement = DefaultArrangement
    /\ playq[j].Arrangement = DefaultArrangement
    /\ playq[i].Status = "In Queue"
    => playq[j].Status = "In Queue"

(* While no statement fails and the automatic query has a row, no result   *)
(* row is NULL where its columns are read: the end of the automatic result *)
(* set is met once and the first row follows, and getNextPlayQRecord finds *)
(* the row its caller counted, or the automatic song just inserted.        *)
NeverNullRow == errs = 0 /\ AutoList # <<>> => pc # "segv"

(* The life of a row: queued, playing, retired; a retired row stays so, a  *)
(* song that was started is never queued again, and none is completed that *)
(* was not playing.  The web page writes other columns only.               *)
LifeOfARow == {<<"In Queue", "Currently Playing">>, <<"In Queue", "Canceled">>,
               <<"Currently Playing", "Completed">>,
               <<"Currently Playing", "Canceled">>}
StatusMonotone ==
  [][\A id \in Ids :
       /\ id \in DOMAIN playq'
       /\ \/ playq'[id].Status = playq[id].Status
          \/ <<playq[id].Status, playq'[id].Status>> \in LifeOfARow]_vars

(* An automatic song is queued after its turn in the result set has been   *)
(* saved: a kill at any point never makes the next life queue it again.    *)
TurnSavedBeforeQueued ==
  [][/\ errs = 0
     /\ Len(playq') > Len(playq)
     /\ playq'[Len(playq')].RequestType = "Automatic"
     => /\ rowOffset \in DOMAIN AutoList
        /\ playq'[Len(playq')].songID = AutoList[rowOffset]]_vars

\* No song of the automatic list is of another album than the one left.
NothingElse ==
  playAutomatic => \A i \in 1 .. Len(AutoList) : Album[AutoList[i]] = AlbumOf(pQR)

(* A call of the database routines ends, skipToNextAlbum among them, whose *)
(* loop looks for another album; unless it is never left again: then       *)
(* nothing is queued, and the player is in manual mode or each song of the *)
(* automatic list is of the album that is left.                            *)
CallReturns ==
  pc \notin Stopped ~>
    (pc \in Stopped \/ [](op = "skip" /\ InQueue = {} /\ NothingElse))

(* "queryAutomaticSong returned 0 setting autoplay to manual": once in      *)
(* manual mode no statement that succeeds kills the player.                *)
FallbackToManual ==
  [][~playAutomatic /\ pc # "segv" /\ errs' = errs => pc' # "segv"]_vars

(* The tables as the queue that module PlayQueue promises: each statement   *)
(* that succeeds is one of its steps or changes nothing its users see.     *)
RowsWith(s) == {id \in Ids : playq[id].Status = s}
AutomaticRows == {id \in Ids : Automatic(id)}
ArrangedRows == {id \in Ids : playq[id].Arrangement # DefaultArrangement}
CurrentRow == IF Playing = {} THEN NoSong ELSE CHOOSE id \in Playing : TRUE
Queue == INSTANCE PlayQueue WITH
  rows <- Len(playq),
  automatic <- AutomaticRows,
  arranged <- ArrangedRows,
  waiting <- InQueue,
  current <- CurrentRow,
  completed <- RowsWith("Completed"),
  canceled <- RowsWith("Canceled")

(* While no statement fails, the routines on the tables, with the web page *)
(* writing between their statements and the process dying between any two, *)
(* implement the abstract queue.                                           *)
ImplementsPlayQueue == Queue!Spec

-----------------------------------------------------------------------------
(* The inductive invariant: what each pending statement relies on.         *)

OldSteps == {"markOld", "endOld", "countOld"}
FetchedSteps == {"beginTime", "markPlaying", "cancelNext"}
AutoSteps == {"queryAuto", "zeroOffset", "bumpOffset", "insertAuto"}
AfterOld == {"endOld", "countOld", "queryQ", "fetchQ", "endNext"}
              \cup FetchedSteps \cup AutoSteps

Visible(id) == id \in Ids /\ playq[id].songID \in Songs

\* The rows a pending statement names exist and are what they were selected for.
Pointers ==
  /\ pc \in OldSteps => Visible(pQR)
  /\ pc \in FetchedSteps \cup {"endNext"} => Visible(nextQR)
Selected ==
  /\ pc = "markOld" => playq[pQR].Status = "Currently Playing"
  /\ pc \in FetchedSteps => playq[nextQR].Status = "In Queue"

\* Once the old row is retired nothing plays until markPlaying.
Vacant ==
  errs = 0 => /\ pc \in AfterOld => Playing = {}
              /\ pc = "markOld" => Playing \subseteq {pQR}

\* A row waits for its end time only after its status is final.
Retired ==
  errs = 0 => /\ \A id \in Ids : playq[id].Status = "In Queue" => ~playq[id].End
              /\ pc = "markPlaying" => playq[nextQR].Begin
              /\ pc = "endOld" => playq[pQR].Status \in {"Completed", "Canceled"}
              /\ pc = "endNext" => playq[nextQR].Status = "Canceled"

\* The automatic query runs only while no automatic song waits.
NoAutomaticQueued == pc \in AutoSteps => \A id \in InQueue : ~Automatic(id)

\* What was fetched is still ahead of its type, whatever was queued since.
FetchedInOrder ==
  pc \in FetchedSteps =>
    \A id \in InQueue :
      /\ playq[id].RequestType = playq[nextQR].RequestType
      /\ playq[id].Arrangement = DefaultArrangement
      /\ playq[nextQR].Arrangement = DefaultArrangement
      => nextQR <= id

\* Where the automatic query stands.
TurnTaken ==
  errs = 0 =>
    /\ pc = "bumpOffset" /\ pick # NoSong =>
         rowOffset + 1 \in DOMAIN AutoList /\ pick = AutoList[rowOffset + 1]
    /\ pc = "insertAuto" =>
         rowOffset \in DOMAIN AutoList /\ pick = AutoList[rowOffset]
    /\ pc = "fetchQ" => InQueue # {}
    /\ retried => pc \in {"queryAuto", "bumpOffset", "down", "segv"}
    /\ AutoList # <<>> =>
         /\ pc = "bumpOffset" => pick # NoSong
         /\ pc = "queryAuto" /\ retried => rowOffset = 0

(* All of it, as the inductive invariant of the statements: the rows a     *)
(* pending statement of MusicDB.cpp relies on are still as it read them.   *)
IInv ==
  /\ TypeOK /\ Pointers /\ Selected
  /\ UniqueCurrent /\ Vacant
  /\ TimesFollowStatus /\ Retired
  /\ AtMostOneAutomaticQueued /\ NoAutomaticQueued
  /\ Fifo /\ FetchedInOrder
  /\ TurnTaken /\ NeverNullRow

(* What is counted in spite of failures, beside it.                        *)
\* A new song is marked only after one failure for each stale row, or none.
StaleHeld == pc \in AfterOld => Cardinality(Playing) <= errs

\* Song by song: the count of the row that was just completed is pending.
Pending(s) == IF BeingCounted = 1 /\ playq[pQR].songID = s THEN 1 ELSE 0
CountsHeld ==
  \A s \in Songs :
    LET done == Cardinality(CompletedRows(s))
    IN /\ playCount[s] + Pending(s) <= done + errs
       /\ done <= playCount[s] + crashes + errs + Pending(s)

\* Only a song that ended by itself is about to be counted.
CountsEnded == pc = "countOld" => op = "next"

CountInv == StaleBounded /\ StaleHeld /\ CountsHeld /\ CountsEnded
=============================================================================
