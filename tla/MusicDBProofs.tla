--------------------------- MODULE MusicDBProofs ---------------------------
(* Proofs about MusicDB, for every library, automatic query and bound.     *)
EXTENDS MusicDB, SequenceTheorems, FiniteSetTheorems, TLAPS

(* How each write of a statement changes the table, read row by row.       *)
Same(j) ==
  /\ playq'[j].songID = playq[j].songID
  /\ playq'[j].RequestType = playq[j].RequestType

\* What a statement does to the table: one column of one row, or a new row.
Untouched == Ids' = Ids /\ \A j \in Ids : playq'[j] = playq[j]

StatusOnly(id, s) ==
  /\ Ids' = Ids
  /\ \A j \in Ids :
       /\ playq'[j].Status = IF j = id THEN s ELSE playq[j].Status
       /\ Same(j)
       /\ playq'[j].Arrangement = playq[j].Arrangement
       /\ playq'[j].Begin = playq[j].Begin
       /\ playq'[j].End = playq[j].End

BeginOnly(id) ==
  /\ Ids' = Ids
  /\ playq'[id].Begin
  /\ \A j \in Ids :
       /\ j # id => playq'[j].Begin = playq[j].Begin
       /\ Same(j)
       /\ playq'[j].Status = playq[j].Status
       /\ playq'[j].Arrangement = playq[j].Arrangement
       /\ playq'[j].End = playq[j].End

EndOnly(id) ==
  /\ Ids' = Ids
  /\ playq'[id].End
  /\ \A j \in Ids :
       /\ j # id => playq'[j].End = playq[j].End
       /\ Same(j)
       /\ playq'[j].Status = playq[j].Status
       /\ playq'[j].Arrangement = playq[j].Arrangement
       /\ playq'[j].Begin = playq[j].Begin

ArrangementOnly(id, p) ==
  /\ Ids' = Ids
  /\ \A j \in Ids :
       /\ playq'[j].Arrangement = IF j = id THEN p ELSE playq[j].Arrangement
       /\ Same(j)
       /\ playq'[j].Status = playq[j].Status
       /\ playq'[j].Begin = playq[j].Begin
       /\ playq'[j].End = playq[j].End

RowAdded(song, type) ==
  /\ Ids' = Ids \cup {Len(playq) + 1}
  /\ Len(playq) + 1 \notin Ids
  /\ \A j \in Ids : j < Len(playq) + 1
  /\ playq'[Len(playq) + 1] = NewRow(song, type)
  /\ \A j \in Ids : playq'[j] = playq[j]

\* A row of playq with one column rewritten is a row.
LEMMA RowFields ==
  ASSUME NEW r \in Row
  PROVE  /\ \A s \in Statuses : [r EXCEPT !.Status = s] \in Row
         /\ \A b \in BOOLEAN : [r EXCEPT !.Begin = b] \in Row
         /\ \A b \in BOOLEAN : [r EXCEPT !.End = b] \in Row
         /\ \A n \in Nat : [r EXCEPT !.Arrangement = n] \in Row
  BY DEF Row

\* An UPDATE of one row changes that row of playq only.
LEMMA WriteRow ==
  ASSUME playq \in Seq(Row), NEW id \in Ids, NEW r \in Row,
         playq' = [playq EXCEPT ![id] = r]
  PROVE  /\ playq' \in Seq(Row)
         /\ Len(playq') = Len(playq)
         /\ Ids' = Ids
         /\ playq'[id] = r
         /\ \A j \in Ids : j # id => playq'[j] = playq[j]
  BY ExceptSeq DEF Ids

\* updatePlayQStatus changes the status of one row only.
LEMMA StatusWrite ==
  ASSUME playq \in Seq(Row), NEW id \in Ids, NEW s \in Statuses,
         playq' = SetStatus(id, s)
  PROVE  playq' \in Seq(Row) /\ StatusOnly(id, s)
<1> DEFINE r == [playq[id] EXCEPT !.Status = s]
<1>1. playq[id] \in Row
  BY DEF Ids
<1>2. r \in Row
  BY <1>1, RowFields
<1>3. playq' = [playq EXCEPT ![id] = r]
  BY DEF SetStatus
<1>4. /\ r.Status = s /\ r.songID = playq[id].songID
      /\ r.RequestType = playq[id].RequestType
      /\ r.Arrangement = playq[id].Arrangement
      /\ r.Begin = playq[id].Begin
      /\ r.End = playq[id].End
  BY <1>1 DEF Row
<1>5. /\ playq' \in Seq(Row) /\ Len(playq') = Len(playq) /\ Ids' = Ids
      /\ playq'[id] = r
      /\ \A j \in Ids : j # id => playq'[j] = playq[j]
  BY <1>2, <1>3, WriteRow
<1> HIDE DEF r
<1> QED
  BY <1>4, <1>5 DEF Same, StatusOnly

\* updatePlayQBeginPlayTime changes the begin time of one row only.
LEMMA BeginWrite ==
  ASSUME playq \in Seq(Row), NEW id \in Ids,
         playq' = [playq EXCEPT ![id].Begin = TRUE]
  PROVE  playq' \in Seq(Row) /\ BeginOnly(id)
<1> DEFINE r == [playq[id] EXCEPT !.Begin = TRUE]
<1>1. playq[id] \in Row
  BY DEF Ids
<1>2. r \in Row
  BY <1>1, RowFields
<1>3. playq' = [playq EXCEPT ![id] = r]
  BY DEF SetStatus
<1>4. /\ r.Begin /\ r.songID = playq[id].songID
      /\ r.RequestType = playq[id].RequestType
      /\ r.Status = playq[id].Status
      /\ r.Arrangement = playq[id].Arrangement
      /\ r.End = playq[id].End
  BY <1>1 DEF Row
<1>5. /\ playq' \in Seq(Row) /\ Len(playq') = Len(playq) /\ Ids' = Ids
      /\ playq'[id] = r
      /\ \A j \in Ids : j # id => playq'[j] = playq[j]
  BY <1>2, <1>3, WriteRow
<1> HIDE DEF r
<1> QED
  BY <1>4, <1>5 DEF Same, BeginOnly

\* updatePlayQEndPlayTime changes the end time of one row only.
LEMMA EndWrite ==
  ASSUME playq \in Seq(Row), NEW id \in Ids,
         playq' = [playq EXCEPT ![id].End = TRUE]
  PROVE  playq' \in Seq(Row) /\ EndOnly(id)
<1> DEFINE r == [playq[id] EXCEPT !.End = TRUE]
<1>1. playq[id] \in Row
  BY DEF Ids
<1>2. r \in Row
  BY <1>1, RowFields
<1>3. playq' = [playq EXCEPT ![id] = r]
  BY DEF SetStatus
<1>4. /\ r.End /\ r.songID = playq[id].songID
      /\ r.RequestType = playq[id].RequestType
      /\ r.Status = playq[id].Status
      /\ r.Arrangement = playq[id].Arrangement
      /\ r.Begin = playq[id].Begin
  BY <1>1 DEF Row
<1>5. /\ playq' \in Seq(Row) /\ Len(playq') = Len(playq) /\ Ids' = Ids
      /\ playq'[id] = r
      /\ \A j \in Ids : j # id => playq'[j] = playq[j]
  BY <1>2, <1>3, WriteRow
<1> HIDE DEF r
<1> QED
  BY <1>4, <1>5 DEF Same, EndOnly

\* The web page changes the arrangement of one row only.
LEMMA ArrangementWrite ==
  ASSUME playq \in Seq(Row), NEW id \in Ids, NEW p \in Nat,
         playq' = [playq EXCEPT ![id].Arrangement = p]
  PROVE  playq' \in Seq(Row) /\ ArrangementOnly(id, p)
<1> DEFINE r == [playq[id] EXCEPT !.Arrangement = p]
<1>1. playq[id] \in Row
  BY DEF Ids
<1>2. r \in Row
  BY <1>1, RowFields
<1>3. playq' = [playq EXCEPT ![id] = r]
  BY DEF SetStatus
<1>4. /\ r.Arrangement = p /\ r.songID = playq[id].songID
      /\ r.RequestType = playq[id].RequestType
      /\ r.Status = playq[id].Status
      /\ r.Begin = playq[id].Begin
      /\ r.End = playq[id].End
  BY <1>1 DEF Row
<1>5. /\ playq' \in Seq(Row) /\ Len(playq') = Len(playq) /\ Ids' = Ids
      /\ playq'[id] = r
      /\ \A j \in Ids : j # id => playq'[j] = playq[j]
  BY <1>2, <1>3, WriteRow
<1> HIDE DEF r
<1> QED
  BY <1>4, <1>5 DEF Same, ArrangementOnly

\* An INSERT adds one row, with the defaults of the table.
LEMMA RowAppended ==
  ASSUME playq \in Seq(Row), NEW song \in Songs \cup {NoSong},
         NEW type \in RequestTypes,
         playq' = Append(playq, NewRow(song, type))
  PROVE  playq' \in Seq(Row) /\ RowAdded(song, type)
<1>0. DefaultArrangement \in Nat
  BY SMT DEF DefaultArrangement
<1>1. NewRow(song, type) \in Row
  BY <1>0 DEF NewRow, Row, Statuses
<1>2. /\ playq' \in Seq(Row)
      /\ Len(playq') = Len(playq) + 1
      /\ \A i \in 1 .. Len(playq) : playq'[i] = playq[i]
      /\ playq'[Len(playq) + 1] = NewRow(song, type)
  BY <1>1, AppendProperties
<1>3. Len(playq) \in Nat
  BY LenProperties
<1> QED
  BY <1>2, <1>3 DEF Ids, RowAdded

-----------------------------------------------------------------------------
(* Types and the rows the pending statements name.                         *)

\* The program starts with typed variables and no pending row.
LEMMA TypeInit == Init => TypeOK /\ Pointers
<1> SUFFICES ASSUME Init PROVE TypeOK /\ Pointers
  OBVIOUS
<1>1. playq \in Seq(Row)
  BY DEF Init
<1>2. playCount \in [Songs -> Nat]
  BY DEF Init
<1>3. playAutomatic \in BOOLEAN /\ retried \in BOOLEAN
  BY Zenon DEF Init
<1>4. pc = "idle" /\ pc \in PCs /\ op \in {"next", "skip"}
  BY DEF Init, PCs, Stopped
<1>5. /\ rowOffset \in Nat /\ errs \in Nat /\ crashes \in Nat
      /\ pick \in Songs \cup {NoSong}
      /\ pQR \in Ids \cup {0} /\ nextQR \in Ids \cup {0}
  BY DEF Init
<1> QED
  BY <1>1, <1>2, <1>3, <1>4, <1>5
  DEF TypeOK, Pointers, OldSteps, FetchedSteps

\* Every statement keeps the types, and the rows pending ones name.
LEMMA TypeStep ==
  ASSUME TypeOK, Pointers, [Next]_vars
  PROVE  TypeOK' /\ Pointers'
<1> USE ConstantsAssumption
<1> DEFINE T == /\ playq' \in Seq(Row)
                /\ Ids \subseteq Ids'
                /\ \A j \in Ids : Same(j)
<1>0. /\ playq \in Seq(Row) /\ Len(playq) \in Nat /\ 0 \notin Ids
      /\ Statuses = {"In Queue", "Currently Playing", "Completed", "Canceled"}
  BY LenProperties DEF TypeOK, Statuses, Ids
<1>1. ASSUME UNCHANGED playq PROVE T
  BY <1>0, <1>1 DEF Same, Ids
<1>2. ASSUME NEW id \in Ids, NEW s \in Statuses,
             Update(SetStatus(id, s))
      PROVE  T
  <2>1. CASE playq' = SetStatus(id, s)
    BY <2>1, <1>0, StatusWrite DEF StatusOnly
  <2> QED
    BY <1>1, <1>2, <2>1 DEF Update
<1>3. ASSUME NEW id \in Ids, Update([playq EXCEPT ![id].End = TRUE])
      PROVE  T
  <2>1. CASE playq' = [playq EXCEPT ![id].End = TRUE]
    BY <2>1, <1>0, EndWrite DEF EndOnly
  <2> QED
    BY <1>1, <1>3, <2>1 DEF Update
<1>4. ASSUME NEW id \in Ids, Update([playq EXCEPT ![id].Begin = TRUE])
      PROVE  T
  <2>1. CASE playq' = [playq EXCEPT ![id].Begin = TRUE]
    BY <2>1, <1>0, BeginWrite DEF BeginOnly
  <2> QED
    BY <1>1, <1>4, <2>1 DEF Update
<1>5. ASSUME NEW song \in Songs \cup {NoSong}, NEW type \in RequestTypes,
             playq' = Append(playq, NewRow(song, type))
      PROVE  T
  BY <1>5, <1>0, RowAppended DEF Same, RowAdded
<1>6. ASSUME NEW id \in Ids, NEW p \in Positions,
             playq' = [playq EXCEPT ![id].Arrangement = p]
      PROVE  T
  BY <1>6, <1>0, ArrangementWrite
  DEF ConstantsAssumption, ArrangementOnly
<1>7. /\ pc \in OldSteps => pQR \in Ids
      /\ pc \in FetchedSteps \cup {"endNext"} => nextQR \in Ids
  BY DEF Pointers, Visible
<1>8. T
  <2> HIDE DEF T
  <2>1. CASE MarkOld
    BY <2>1, <1>0, <1>2, <1>7 DEF MarkOld, OldSteps
  <2>2. CASE EndOld \/ EndNext
    BY <2>2, <1>3, <1>7 DEF EndOld, EndNext, OldSteps
  <2>3. CASE updatePlayQBeginPlayTime
    BY <2>3, <1>4, <1>7 DEF updatePlayQBeginPlayTime, FetchedSteps
  <2>4. CASE MarkPlaying \/ CancelNext
    BY <2>4, <1>0, <1>2, <1>7 DEF MarkPlaying, CancelNext, FetchedSteps
  <2>5. CASE addSongToPlayQ
    <3>1. CASE playq' = Append(playq, NewRow(pick, "Automatic"))
      BY <3>1, <1>5 DEF TypeOK, RequestTypes
    <3> QED
      BY <2>5, <3>1, <1>1 DEF addSongToPlayQ, Update
  <2>6. CASE WebAddSong
    BY <2>6, <1>5 DEF WebAddSong, RequestTypes
  <2>7. CASE WebArrange
    BY <2>7, <1>6 DEF WebArrange
  <2>8. CASE \/ getNextSongRecord \/ skipToNextAlbum \/ SetAutomatic
             \/ getCurrentSongInPlayQ \/ incrementSongPlayCount
             \/ QueryQ \/ getNextPlayQRecord \/ queryAutomaticSong
             \/ zeroAutomaticSongRowOffset
             \/ incrementAutomaticSongRowOffset
             \/ Kill \/ Restart \/ UNCHANGED vars
    BY <2>8, <1>1 DEF getNextSongRecord, skipToNextAlbum, Call, SetAutomatic,
       getCurrentSongInPlayQ, incrementSongPlayCount, QueryQ,
       getNextPlayQRecord, queryAutomaticSong, zeroAutomaticSongRowOffset,
       incrementAutomaticSongRowOffset, Kill, Restart, vars, tables
  <2> QED
    BY <2>1, <2>2, <2>3, <2>4, <2>5, <2>6, <2>7, <2>8 DEF Next, Player
<1> HIDE DEF T
<1>9. /\ playCount \in [Songs -> Nat] /\ rowOffset \in Nat
      /\ playAutomatic \in BOOLEAN /\ retried \in BOOLEAN
      /\ errs \in Nat /\ crashes \in Nat
      /\ pick \in Songs \cup {NoSong} /\ op \in {"next", "skip"}
  BY DEF TypeOK
<1>10. playCount' \in [Songs -> Nat]
  <2>1. CASE incrementSongPlayCount
    BY <2>1, <1>9 DEF incrementSongPlayCount
  <2>2. CASE ~incrementSongPlayCount
    BY <2>2, <1>9 DEF Next, Player, getNextSongRecord, skipToNextAlbum, Call,
       SetAutomatic, getCurrentSongInPlayQ, MarkOld, EndOld, QueryQ,
       getNextPlayQRecord, updatePlayQBeginPlayTime, MarkPlaying, CancelNext,
       EndNext, queryAutomaticSong, zeroAutomaticSongRowOffset,
       incrementAutomaticSongRowOffset, addSongToPlayQ, WebAddSong, WebArrange,
       Kill, Restart, vars, tables
  <2> QED
    BY <2>1, <2>2
<1>20. ASSUME NEW rows, Update(rows) PROVE errs' \in Nat
  BY <1>20, <1>9 DEF Update, Fail
<1>11. /\ rowOffset' \in Nat /\ errs' \in Nat /\ crashes' \in Nat
       /\ op' \in {"next", "skip"}
  <2>1. CASE \/ MarkOld \/ EndOld \/ updatePlayQBeginPlayTime \/ MarkPlaying
             \/ CancelNext \/ EndNext \/ addSongToPlayQ
    BY <2>1, <1>9, <1>20 DEF MarkOld, EndOld,
       updatePlayQBeginPlayTime, MarkPlaying, CancelNext, EndNext, addSongToPlayQ,
       tables, locals
  <2>2. CASE \/ queryAutomaticSong \/ zeroAutomaticSongRowOffset
             \/ incrementAutomaticSongRowOffset
    BY <2>2, <1>9 DEF queryAutomaticSong, zeroAutomaticSongRowOffset,
       incrementAutomaticSongRowOffset, Fail, tables, Segv, locals
  <2>3. CASE \/ getNextSongRecord \/ skipToNextAlbum \/ SetAutomatic
             \/ WebAddSong \/ WebArrange \/ Kill \/ Restart \/ UNCHANGED vars
    BY <2>3, <1>9 DEF getNextSongRecord, skipToNextAlbum, Call,
       SetAutomatic, WebAddSong, WebArrange, Kill, Restart, vars, tables, locals
  <2>4. CASE \/ getCurrentSongInPlayQ \/ incrementSongPlayCount \/ QueryQ
             \/ getNextPlayQRecord
    BY <2>4, <1>9 DEF getCurrentSongInPlayQ, incrementSongPlayCount, QueryQ,
       getNextPlayQRecord, Segv, Fail, tables, locals
  <2> QED
    BY <2>1, <2>2, <2>3, <2>4 DEF Next, Player
<1>12. playAutomatic' \in BOOLEAN /\ retried' \in BOOLEAN
  BY <1>9, Zenon DEF Next, Player, getNextSongRecord, skipToNextAlbum, Call,
     SetAutomatic, getCurrentSongInPlayQ, MarkOld, EndOld,
     incrementSongPlayCount, QueryQ,
     getNextPlayQRecord, updatePlayQBeginPlayTime, MarkPlaying, CancelNext,
     EndNext, queryAutomaticSong, zeroAutomaticSongRowOffset,
     incrementAutomaticSongRowOffset, addSongToPlayQ, WebAddSong, WebArrange,
     Kill, Restart, vars, tables, locals, Fail, Update, Segv
<1>13. pick' \in Songs \cup {NoSong}
  <2>1. CASE queryAutomaticSong
    BY <2>1, <1>9 DEF queryAutomaticSong, Segv, locals, ConstantsAssumption
  <2>2. CASE ~queryAutomaticSong
    BY <2>2, <1>9 DEF Next, Player, getNextSongRecord, skipToNextAlbum, Call,
       SetAutomatic, getCurrentSongInPlayQ, MarkOld, EndOld,
       incrementSongPlayCount, QueryQ,
       getNextPlayQRecord, updatePlayQBeginPlayTime, MarkPlaying, CancelNext,
       EndNext, zeroAutomaticSongRowOffset,
       incrementAutomaticSongRowOffset, addSongToPlayQ, WebAddSong, WebArrange,
       Kill, Restart, vars, locals, Segv
  <2> QED
    BY <2>1, <2>2
<1>14. /\ pc \in PCs
       /\ pQR \in Ids \cup {0} /\ nextQR \in Ids \cup {0}
  BY DEF TypeOK
<1>15. \A id \in InQueue \cup Playing : id \in Ids /\ playq[id].songID \in Songs
  BY DEF InQueue, Playing, WithStatus
<1>16. pc' \in PCs
  BY <1>14 DEF PCs, Stopped, Next, Player, getNextSongRecord, skipToNextAlbum,
     Call, SetAutomatic, getCurrentSongInPlayQ, MarkOld, EndOld,
     incrementSongPlayCount, QueryQ,
     getNextPlayQRecord, updatePlayQBeginPlayTime, MarkPlaying, CancelNext,
     EndNext, queryAutomaticSong, zeroAutomaticSongRowOffset,
     incrementAutomaticSongRowOffset, addSongToPlayQ, WebAddSong, WebArrange,
     Kill, Restart, vars, Segv
<1>17. /\ pQR' \in Ids \cup {0} /\ nextQR' \in Ids \cup {0}
  BY <1>14, <1>15 DEF Next, Player, getNextSongRecord, skipToNextAlbum,
     Call, SetAutomatic, getCurrentSongInPlayQ, MarkOld, EndOld,
     incrementSongPlayCount, QueryQ,
     getNextPlayQRecord, updatePlayQBeginPlayTime, MarkPlaying, CancelNext,
     EndNext, queryAutomaticSong, zeroAutomaticSongRowOffset,
     incrementAutomaticSongRowOffset, addSongToPlayQ, WebAddSong, WebArrange,
     Kill, Restart, vars, locals, Segv
<1>18. pc' \in OldSteps => pQR' \in Ids /\ playq[pQR'].songID \in Songs
  <2>1. CASE \/ MarkOld \/ EndOld \/ updatePlayQBeginPlayTime \/ MarkPlaying
             \/ CancelNext \/ EndNext \/ addSongToPlayQ
    BY <2>1, <1>14, <1>15 DEF MarkOld, EndOld,
       updatePlayQBeginPlayTime, MarkPlaying, CancelNext, EndNext, addSongToPlayQ,
       Update, Fail, tables, locals, Pointers,
       Visible, OldSteps
  <2>2. CASE \/ queryAutomaticSong \/ zeroAutomaticSongRowOffset
             \/ incrementAutomaticSongRowOffset
    BY <2>2, <1>14, <1>15 DEF queryAutomaticSong, zeroAutomaticSongRowOffset,
       incrementAutomaticSongRowOffset, Fail, tables, Segv, locals, Pointers,
       Visible, OldSteps
  <2>3. CASE \/ getNextSongRecord \/ skipToNextAlbum \/ SetAutomatic
             \/ WebAddSong \/ WebArrange \/ Kill \/ Restart \/ UNCHANGED vars
    BY <2>3, <1>14, <1>15 DEF getNextSongRecord, skipToNextAlbum, Call,
       SetAutomatic, WebAddSong, WebArrange, Kill, Restart, vars, tables, locals, Pointers,
       Visible, OldSteps
  <2>4. CASE \/ getCurrentSongInPlayQ \/ incrementSongPlayCount \/ QueryQ
             \/ getNextPlayQRecord
    BY <2>4, <1>14, <1>15 DEF getCurrentSongInPlayQ, incrementSongPlayCount, QueryQ,
       getNextPlayQRecord, Segv, Fail, tables, locals, Pointers,
       Visible, OldSteps
  <2> QED
    BY <2>1, <2>2, <2>3, <2>4 DEF Next, Player
<1>22. pc' \in FetchedSteps \cup {"endNext"} =>
         nextQR' \in Ids /\ playq[nextQR'].songID \in Songs
  BY <1>14, <1>15 DEF Pointers, Visible, OldSteps, FetchedSteps,
     Next, Player, getNextSongRecord, skipToNextAlbum,
     Call, SetAutomatic, getCurrentSongInPlayQ, MarkOld, EndOld,
     incrementSongPlayCount, QueryQ,
     getNextPlayQRecord, updatePlayQBeginPlayTime, MarkPlaying, CancelNext,
     EndNext, queryAutomaticSong, zeroAutomaticSongRowOffset,
     incrementAutomaticSongRowOffset, addSongToPlayQ, WebAddSong, WebArrange,
     Kill, Restart, vars, tables, locals, Fail, Update, Segv
<1>19. TypeOK'
  BY <1>8, <1>10, <1>11, <1>12, <1>13, <1>16, <1>17 DEF TypeOK, T
<1> QED
  BY <1>8, <1>18, <1>22, <1>19 DEF Pointers, Visible, T, Same

\* What each statement does to playq, or that it failed.
LEMMA TableEffects ==
  ASSUME TypeOK, Pointers
  PROVE  /\ MarkOld =>
              \/ /\ errs' = errs
                 /\ StatusOnly(pQR, IF op = "next" THEN "Completed" ELSE "Canceled")
              \/ errs' = errs + 1 /\ Untouched
         /\ EndOld => \/ errs' = errs /\ EndOnly(pQR)
                      \/ errs' = errs + 1 /\ Untouched
         /\ updatePlayQBeginPlayTime => \/ errs' = errs /\ BeginOnly(nextQR)
                                        \/ errs' = errs + 1 /\ Untouched
         /\ MarkPlaying =>
              \/ errs' = errs /\ StatusOnly(nextQR, "Currently Playing")
              \/ errs' = errs + 1 /\ Untouched
         /\ CancelNext => \/ errs' = errs /\ StatusOnly(nextQR, "Canceled")
                          \/ errs' = errs + 1 /\ Untouched
         /\ EndNext => \/ errs' = errs /\ EndOnly(nextQR)
                       \/ errs' = errs + 1 /\ Untouched
         /\ addSongToPlayQ => \/ errs' = errs /\ RowAdded(pick, "Automatic")
                              \/ errs' = errs + 1 /\ Untouched
         /\ WebAddSong => \E s \in Songs : RowAdded(s, "Request")
         /\ WebArrange =>
              \E id \in Ids, p \in Positions : ArrangementOnly(id, p)
         /\ UNCHANGED playq => Untouched
<1> USE ConstantsAssumption
<1>1. /\ playq \in Seq(Row) /\ pick \in Songs \cup {NoSong}
      /\ {"Currently Playing", "Completed", "Canceled"} \subseteq Statuses
      /\ {"Automatic", "Request"} = RequestTypes
  BY DEF TypeOK, Statuses, RequestTypes
<1>2. /\ pc \in OldSteps => pQR \in Ids
      /\ pc \in FetchedSteps \cup {"endNext"} => nextQR \in Ids
  BY DEF Pointers, Visible
<1>3. UNCHANGED playq => Untouched
  BY DEF Untouched, Ids
<1>4. ASSUME NEW rows, Update(rows)
      PROVE  (errs' = errs /\ playq' = rows) \/ (errs' = errs + 1 /\ Untouched)
  BY <1>3, <1>4 DEF Update, Fail
<1>5. ASSUME MarkOld
      PROVE  \/ /\ errs' = errs
                /\ StatusOnly(pQR, IF op = "next" THEN "Completed" ELSE "Canceled")
             \/ errs' = errs + 1 /\ Untouched
  <2>1. pQR \in Ids
    BY <1>2, <1>5 DEF MarkOld, OldSteps
  <2> QED
    BY <1>1, <1>4, <1>5, <2>1, StatusWrite DEF MarkOld
<1>6. /\ EndOld => \/ errs' = errs /\ EndOnly(pQR)
                   \/ errs' = errs + 1 /\ Untouched
      /\ EndNext => \/ errs' = errs /\ EndOnly(nextQR)
                    \/ errs' = errs + 1 /\ Untouched
  BY <1>1, <1>2, <1>4, EndWrite DEF EndOld, EndNext, OldSteps
<1>7. ASSUME updatePlayQBeginPlayTime
      PROVE  \/ errs' = errs /\ BeginOnly(nextQR)
             \/ errs' = errs + 1 /\ Untouched
  <2>1. nextQR \in Ids
    BY <1>2, <1>7 DEF updatePlayQBeginPlayTime, FetchedSteps
  <2>2. \/ errs' = errs /\ playq' = [playq EXCEPT ![nextQR].Begin = TRUE]
        \/ errs' = errs + 1 /\ Untouched
    BY <1>4, <1>7 DEF updatePlayQBeginPlayTime
  <2> QED
    BY <1>1, <2>1, <2>2, BeginWrite
<1>8. /\ MarkPlaying => \/ errs' = errs /\ StatusOnly(nextQR, "Currently Playing")
                        \/ errs' = errs + 1 /\ Untouched
      /\ CancelNext => \/ errs' = errs /\ StatusOnly(nextQR, "Canceled")
                       \/ errs' = errs + 1 /\ Untouched
  BY <1>1, <1>2, <1>4, StatusWrite DEF MarkPlaying, CancelNext, FetchedSteps
<1>9. ASSUME addSongToPlayQ
      PROVE  \/ errs' = errs /\ RowAdded(pick, "Automatic")
             \/ errs' = errs + 1 /\ Untouched
  <2>1. \/ errs' = errs /\ playq' = Append(playq, NewRow(pick, "Automatic"))
        \/ errs' = errs + 1 /\ Untouched
    BY <1>4, <1>9 DEF addSongToPlayQ
  <2> QED
    BY <1>1, <2>1, RowAppended
<1>10. WebAddSong => \E s \in Songs : RowAdded(s, "Request")
  BY <1>1, RowAppended DEF WebAddSong
<1>11. WebArrange => \E id \in Ids, p \in Positions : ArrangementOnly(id, p)
  BY <1>1, ArrangementWrite DEF WebArrange, ConstantsAssumption
<1> QED
  BY <1>3, <1>5, <1>6, <1>7, <1>8, <1>9, <1>10, <1>11

\* The steps that leave the table alone.
Control ==
  \/ getNextSongRecord \/ skipToNextAlbum \/ SetAutomatic
  \/ getCurrentSongInPlayQ \/ incrementSongPlayCount
  \/ QueryQ \/ getNextPlayQRecord \/ queryAutomaticSong
  \/ zeroAutomaticSongRowOffset \/ incrementAutomaticSongRowOffset
  \/ Kill \/ Restart \/ UNCHANGED vars

\* The statements that do not write playq leave it alone.
LEMMA ControlKeepsTable ==
  ASSUME TypeOK, Pointers, Control
  PROVE  Untouched
<1>1. UNCHANGED playq
  BY DEF Control, getNextSongRecord, skipToNextAlbum, Call, SetAutomatic,
     getCurrentSongInPlayQ, incrementSongPlayCount, QueryQ,
     getNextPlayQRecord, queryAutomaticSong, zeroAutomaticSongRowOffset,
     incrementAutomaticSongRowOffset, Kill, Restart, vars, tables
<1> QED
  BY <1>1, TableEffects

\* A step fails one statement at most.
LEMMA ErrsGrow ==
  ASSUME TypeOK, Pointers, [Next]_vars
  PROVE  errs' = errs \/ (errs' = errs + 1 /\ errs' # 0)
<1>1. errs \in Nat
  BY DEF TypeOK
<1>2. ASSUME Fail PROVE errs' = errs + 1
  BY <1>2 DEF Fail
<1>3. CASE Control
  BY <1>1, <1>2, <1>3 DEF Control, getNextSongRecord, skipToNextAlbum, Call,
     SetAutomatic, getCurrentSongInPlayQ, incrementSongPlayCount, QueryQ,
     getNextPlayQRecord, queryAutomaticSong, zeroAutomaticSongRowOffset,
     incrementAutomaticSongRowOffset, Kill, Restart, vars
<1>4. CASE WebAddSong \/ WebArrange
  BY <1>4 DEF WebAddSong, WebArrange
<1>5. CASE \/ MarkOld \/ EndOld \/ updatePlayQBeginPlayTime \/ MarkPlaying
           \/ CancelNext \/ EndNext \/ addSongToPlayQ
  <2>1. errs' = errs \/ errs' = errs + 1
    BY <1>5, TableEffects
  <2> QED
    BY <1>1, <2>1
<1> QED
  BY <1>3, <1>4, <1>5 DEF Control, Next, Player

-----------------------------------------------------------------------------
(* One row plays.                                                          *)

Current == Selected /\ UniqueCurrent /\ Vacant

\* At most one row plays, and none between the old and the new one.
LEMMA CurrentStep ==
  ASSUME TypeOK, Pointers, Current, [Next]_vars
  PROVE  Current'
<1>0. /\ errs \in Nat
      /\ errs' = errs \/ (errs' = errs + 1 /\ errs' # 0)
      /\ pc \in OldSteps => pQR \in Ids /\ playq[pQR].songID \in Songs
      /\ pc \in FetchedSteps \cup {"endNext"} =>
           nextQR \in Ids /\ playq[nextQR].songID \in Songs
  BY ErrsGrow DEF TypeOK, Pointers, Visible
<1>1. ASSUME Untouched
      PROVE  /\ Playing' = Playing
             /\ \A id \in Ids : playq'[id].Status = playq[id].Status
  BY <1>1 DEF Untouched, Playing, WithStatus
<1>2. CASE MarkOld
  <2>3. \/ StatusOnly(pQR, IF op = "next" THEN "Completed" ELSE "Canceled")
        \/ errs' = errs + 1 /\ Untouched
    BY <1>2, TableEffects
  <2>1. CASE StatusOnly(pQR, IF op = "next" THEN "Completed" ELSE "Canceled")
    <3>1. Playing' = Playing \ {pQR}
      BY <2>1 DEF StatusOnly, Same, Playing, WithStatus
    <3> QED
      BY <1>0, <1>2, <3>1 DEF MarkOld, Current, Selected, UniqueCurrent, Vacant,
         AfterOld, FetchedSteps, AutoSteps
  <2>2. CASE Untouched /\ errs' # 0
    BY <2>2, <1>1, <1>2 DEF MarkOld, Current, Selected, UniqueCurrent, Vacant,
       FetchedSteps
  <2> QED
    BY <1>0, <2>1, <2>2, <2>3
<1>3. CASE CancelNext \/ MarkPlaying
  <2>4. \/ /\ MarkPlaying /\ errs' = errs
           /\ StatusOnly(nextQR, "Currently Playing")
        \/ CancelNext /\ errs' = errs /\ StatusOnly(nextQR, "Canceled")
        \/ errs' = errs + 1 /\ Untouched
    BY <1>3, TableEffects
  <2>1. CASE MarkPlaying /\ errs' = errs /\ StatusOnly(nextQR, "Currently Playing")
    <3>1. Playing' \subseteq Playing \cup {nextQR}
      BY <2>1 DEF StatusOnly, Same, Playing, WithStatus
    <3> QED
      BY <1>0, <2>1, <3>1 DEF MarkPlaying, Current, Selected, UniqueCurrent, Vacant,
         AfterOld, FetchedSteps, AutoSteps
  <2>2. CASE CancelNext /\ errs' = errs /\ StatusOnly(nextQR, "Canceled")
    <3>1. Playing' \subseteq Playing
      BY <2>2 DEF StatusOnly, Same, Playing, WithStatus
    <3> QED
      BY <1>0, <2>2, <3>1 DEF CancelNext, Current, Selected, UniqueCurrent, Vacant,
         AfterOld, FetchedSteps, AutoSteps
  <2>3. CASE Untouched /\ errs' # 0
    BY <2>3, <1>3 DEF CancelNext, MarkPlaying, Current, Selected, UniqueCurrent,
       Vacant, FetchedSteps
  <2> QED
    <3>1. errs' = errs + 1 => errs' # 0
      BY <1>0
    <3> QED
      BY <2>1, <2>2, <2>3, <2>4, <3>1
<1>4. CASE EndOld \/ EndNext \/ updatePlayQBeginPlayTime
  <2>1. Playing' = Playing /\ \A id \in Ids : playq'[id].Status = playq[id].Status
    BY <1>1, <1>4, TableEffects DEF EndOnly, BeginOnly, Same, Playing, WithStatus
  <2> QED
    BY <1>0, <1>4, <2>1 DEF EndOld, EndNext, updatePlayQBeginPlayTime, Current,
       Selected, UniqueCurrent, Vacant, AfterOld, FetchedSteps, AutoSteps, locals
<1>5. CASE addSongToPlayQ \/ WebAddSong \/ WebArrange
  <2>1. Playing' = Playing /\ \A id \in Ids : playq'[id].Status = playq[id].Status
    <3>1. CASE \E song, type : RowAdded(song, type)
      <4>1. PICK song, type : RowAdded(song, type)
        BY <3>1
      <4>2. NewRow(song, type).Status = "In Queue"
        BY DEF NewRow
      <4> QED
        BY <4>1, <4>2 DEF RowAdded, Playing, WithStatus
    <3>2. CASE \E id, p : ArrangementOnly(id, p)
      BY <3>2 DEF ArrangementOnly, Same, Playing, WithStatus
    <3> QED
      BY <1>1, <1>5, <3>1, <3>2, TableEffects
  <2> QED
    BY <1>0, <1>5, <2>1 DEF addSongToPlayQ, WebAddSong, WebArrange, Current,
       Selected, UniqueCurrent, Vacant, AfterOld, OldSteps, FetchedSteps,
       AutoSteps, locals
<1>6. CASE Control
  <2>1. Playing' = Playing /\ \A id \in Ids : playq'[id].Status = playq[id].Status
    BY <1>1, <1>6, ControlKeepsTable
  <2>2. /\ \A id \in InQueue : id \in Ids /\ playq[id].Status = "In Queue"
        /\ \A id \in Playing : id \in Ids /\ playq[id].Status = "Currently Playing"
    BY DEF InQueue, Playing, WithStatus
  <2>8. \A id \in Ids : id > 0
    BY DEF Ids
  <2>3. CASE getCurrentSongInPlayQ
    <3>1. \/ pQR' \in Playing /\ pc' = "markOld" /\ errs' = errs
          \/ pQR' = 0 /\ pc' = "queryQ" /\ (Playing = {} \/ errs' = errs + 1)
      <4>1. pc' = IF pQR' > 0 THEN "markOld" ELSE "queryQ"
        BY <2>3 DEF getCurrentSongInPlayQ
      <4>2. \/ errs' = errs /\ pQR' \in Playing
            \/ Playing = {} /\ pQR' = 0
            \/ errs' = errs + 1 /\ pQR' = 0
        BY <2>3 DEF getCurrentSongInPlayQ, Fail
      <4>3. pQR' \in Playing => pQR' > 0
        BY <2>2, <2>8
      <4>4. ~(0 > 0)
        OBVIOUS
      <4> QED
        BY <4>1, <4>2, <4>3, <4>4
    <3>2. errs' = errs + 1 => errs' # 0
      BY <1>0
    <3>3. Selected'
      BY <2>1, <2>2, <3>1 DEF Selected, FetchedSteps
    <3>4. UniqueCurrent'
      BY <1>0, <2>1 DEF UniqueCurrent, Current
    <3>5. Vacant'
      BY <2>1, <3>1, <3>2, <3>4 DEF Vacant, UniqueCurrent, AfterOld,
         FetchedSteps, AutoSteps
    <3> QED
      BY <3>3, <3>4, <3>5 DEF Current
  <2>4. CASE getNextPlayQRecord
    BY <1>0, <2>1, <2>2, <2>4 DEF getNextPlayQRecord, Current, Selected,
       UniqueCurrent, Vacant, AfterOld, FetchedSteps, AutoSteps, Segv
  <2>5. CASE QueryQ \/ incrementSongPlayCount
    BY <1>0, <2>1, <2>2, <2>5 DEF QueryQ, incrementSongPlayCount, Current,
       Selected, UniqueCurrent, Vacant, AfterOld, FetchedSteps, AutoSteps, Segv
  <2>6. CASE \/ queryAutomaticSong \/ zeroAutomaticSongRowOffset
             \/ incrementAutomaticSongRowOffset
    BY <1>0, <2>1, <2>2, <2>6 DEF queryAutomaticSong,
       zeroAutomaticSongRowOffset, incrementAutomaticSongRowOffset, Current,
       Selected, UniqueCurrent, Vacant, AfterOld, FetchedSteps, AutoSteps, Segv
  <2>7. CASE \/ getNextSongRecord \/ skipToNextAlbum \/ SetAutomatic
             \/ Kill \/ Restart \/ UNCHANGED vars
    BY <1>0, <2>1, <2>2, <2>7 DEF getNextSongRecord, skipToNextAlbum, Call,
       SetAutomatic, Kill, Restart, vars, Current, Selected, UniqueCurrent,
       Vacant, AfterOld, FetchedSteps, AutoSteps, locals
  <2> QED
    BY <1>6, <2>3, <2>4, <2>5, <2>6, <2>7 DEF Control
<1> QED
  BY <1>2, <1>3, <1>4, <1>5, <1>6 DEF Next, Player, Control

-----------------------------------------------------------------------------
(* The life of a row, and the queue.                                       *)

\* A row of playq stays, and its status moves along its life only.
LEMMA RowLife ==
  ASSUME TypeOK, Pointers, Selected, [Next]_vars
  PROVE  \A id \in Ids :
           /\ id \in Ids' /\ Same(id)
           /\ \/ playq'[id].Status = playq[id].Status
              \/ <<playq[id].Status, playq'[id].Status>> \in LifeOfARow
<1> DEFINE L == \A id \in Ids :
                  /\ id \in Ids' /\ Same(id)
                  /\ \/ playq'[id].Status = playq[id].Status
                     \/ <<playq[id].Status, playq'[id].Status>> \in LifeOfARow
<1> SUFFICES L
  OBVIOUS
<1>1. ASSUME Untouched PROVE L
  BY <1>1 DEF Untouched, Same
<1>2. CASE MarkOld
  <2>1. CASE StatusOnly(pQR, IF op = "next" THEN "Completed" ELSE "Canceled")
    <3>1. playq[pQR].Status = "Currently Playing"
      BY <1>2 DEF MarkOld, Selected
    <3> QED
      BY <2>1, <3>1 DEF StatusOnly, LifeOfARow
  <2> HIDE DEF L
  <2> QED
    BY <1>1, <1>2, <2>1, TableEffects
<1>3. CASE MarkPlaying \/ CancelNext
  <2>1. playq[nextQR].Status = "In Queue"
    BY <1>3 DEF MarkPlaying, CancelNext, Selected, FetchedSteps
  <2>2. ASSUME NEW s \in {"Currently Playing", "Canceled"}, StatusOnly(nextQR, s)
        PROVE  L
    BY <2>1, <2>2 DEF StatusOnly, LifeOfARow
  <2> HIDE DEF L
  <2> QED
    BY <1>1, <1>3, <2>2, TableEffects
<1>4. CASE EndOld \/ EndNext \/ updatePlayQBeginPlayTime
  BY <1>1, <1>4, TableEffects DEF EndOnly, BeginOnly
<1>5. CASE addSongToPlayQ \/ WebAddSong \/ WebArrange
  <2>1. ASSUME NEW song, NEW type, RowAdded(song, type) PROVE L
    BY <2>1 DEF RowAdded, Same
  <2>2. ASSUME NEW id, NEW p, ArrangementOnly(id, p) PROVE L
    BY <2>2 DEF ArrangementOnly
  <2> HIDE DEF L
  <2> QED
    BY <1>1, <1>5, <2>1, <2>2, TableEffects
<1>6. CASE Control
  BY <1>1, <1>6, ControlKeepsTable
<1> HIDE DEF L
<1> QED
  BY <1>2, <1>3, <1>4, <1>5, <1>6 DEF Next, Player, Control

\* A new row comes from addSongToPlayQ or from the web page.
LEMMA NewIds ==
  ASSUME TypeOK, Pointers, [Next]_vars, NEW id \in Ids', id \notin Ids
  PROVE  /\ id = Len(playq) + 1
         /\ \/ addSongToPlayQ /\ errs' = errs /\ RowAdded(pick, "Automatic")
            \/ WebAddSong /\ \E s \in Songs : RowAdded(s, "Request")
<1>1. ~Untouched
  BY DEF Untouched
<1>2. ~(MarkOld \/ MarkPlaying \/ CancelNext)
  BY <1>1, TableEffects DEF StatusOnly
<1>3. ~(EndOld \/ EndNext \/ updatePlayQBeginPlayTime \/ WebArrange)
  BY <1>1, TableEffects DEF EndOnly, BeginOnly, ArrangementOnly
<1>4. ~Control
  BY <1>1, ControlKeepsTable
<1>5. CASE addSongToPlayQ
  BY <1>1, <1>5, TableEffects DEF RowAdded
<1>6. CASE WebAddSong
  <2>1. PICK s \in Songs : RowAdded(s, "Request")
    BY <1>6, TableEffects
  <2> QED
    BY <1>6, <2>1 DEF RowAdded
<1> QED
  BY <1>2, <1>3, <1>4, <1>5, <1>6 DEF Next, Player, Control

\* A row that was there and waits has waited unchanged.
LEMMA QueueStep ==
  ASSUME TypeOK, Pointers, Selected, [Next]_vars,
         NEW id \in InQueue', id \in Ids
  PROVE  /\ id \in InQueue
         /\ Same(id)
<1>1. id \in Ids' /\ playq'[id].songID \in Songs /\ playq'[id].Status = "In Queue"
  BY DEF InQueue, WithStatus
<1>2. Same(id) /\ playq[id].Status = "In Queue"
  BY <1>1, RowLife DEF LifeOfARow
<1> QED
  BY <1>1, <1>2 DEF Same, InQueue, WithStatus

-----------------------------------------------------------------------------
(* One automatic song waits.                                               *)

OneAutomatic == AtMostOneAutomaticQueued /\ NoAutomaticQueued

\* At most one automatic song waits after every statement.
LEMMA OneAutomaticStep ==
  ASSUME TypeOK, Pointers, Selected, OneAutomatic, [Next]_vars
  PROVE  OneAutomatic'
<1>1. \A id \in InQueue' : id \in Ids => id \in InQueue /\ Same(id)
  BY QueueStep
<1>2. \A id \in InQueue' : id \in Ids'
  BY DEF InQueue, WithStatus
<1>3. CASE Ids' = Ids
  <2>1. AtMostOneAutomaticQueued'
    BY <1>1, <1>2, <1>3 DEF OneAutomatic, AtMostOneAutomaticQueued, Automatic, Same
  <2>2. NoAutomaticQueued'
    <3>1. CASE pc \in AutoSteps
      BY <3>1, <1>1, <1>2, <1>3 DEF OneAutomatic, NoAutomaticQueued, Automatic, Same
    <3>2. CASE pc \notin AutoSteps /\ QueryQ
      BY <3>2, <1>1, <1>2, <1>3 DEF QueryQ, Segv, NoAutomaticQueued, AutoSteps
    <3>3. CASE pc \notin AutoSteps /\ ~QueryQ
      <4>1. pc' \notin AutoSteps
        BY <3>3 DEF AutoSteps, Next, Player, getNextSongRecord,
           skipToNextAlbum, Call, SetAutomatic, getCurrentSongInPlayQ, MarkOld,
           EndOld, incrementSongPlayCount, getNextPlayQRecord,
           updatePlayQBeginPlayTime, MarkPlaying, CancelNext, EndNext,
           queryAutomaticSong, zeroAutomaticSongRowOffset,
           incrementAutomaticSongRowOffset, addSongToPlayQ, WebAddSong,
           WebArrange, Kill, Restart, vars, Segv
      <4> QED
        BY <4>1 DEF NoAutomaticQueued
    <3> QED
      BY <3>1, <3>2, <3>3
  <2> QED
    BY <2>1, <2>2 DEF OneAutomatic
<1>4. CASE addSongToPlayQ /\ RowAdded(pick, "Automatic")
  <2>1. \A id \in InQueue : ~Automatic(id)
    BY <1>4 DEF OneAutomatic, NoAutomaticQueued, addSongToPlayQ, AutoSteps
  <2>2. pc' \notin AutoSteps
    BY <1>4 DEF addSongToPlayQ, AutoSteps
  <2>3. \A id \in InQueue' : Automatic(id)' => id = Len(playq) + 1
    BY <1>1, <1>2, <1>4, <2>1 DEF RowAdded, Automatic, Same
  <2> QED
    BY <2>2, <2>3 DEF OneAutomatic, AtMostOneAutomaticQueued, NoAutomaticQueued
<1>5. CASE WebAddSong /\ \E s \in Songs : RowAdded(s, "Request")
  <2>1. PICK s \in Songs : RowAdded(s, "Request")
    BY <1>5
  <2>2. NewRow(s, "Request").RequestType = "Request"
    BY DEF NewRow
  <2>3. \A id \in InQueue' : Automatic(id)' => id \in InQueue /\ Automatic(id)
    BY <1>1, <1>2, <2>1, <2>2 DEF RowAdded, Automatic, Same
  <2>4. pc' = pc
    BY <1>5 DEF WebAddSong
  <2> QED
    BY <2>3, <2>4 DEF OneAutomatic, AtMostOneAutomaticQueued, NoAutomaticQueued
<1>6. Ids \subseteq Ids'
  BY RowLife
<1> QED
  BY <1>3, <1>4, <1>5, <1>6, NewIds

-----------------------------------------------------------------------------
(* First in, first out.                                                    *)

\* An arranged row never gets the default arrangement back.
LEMMA ArrangementStep ==
  ASSUME TypeOK, Pointers, [Next]_vars, NEW id \in Ids,
         playq'[id].Arrangement = DefaultArrangement
  PROVE  playq[id].Arrangement = DefaultArrangement
<1>1. \A p \in Positions : p # DefaultArrangement
  BY ConstantsAssumption DEF ConstantsAssumption
<1>2. CASE MarkOld \/ MarkPlaying \/ CancelNext
  BY <1>2, TableEffects DEF StatusOnly, Untouched
<1>3. CASE EndOld \/ EndNext \/ updatePlayQBeginPlayTime
  BY <1>3, TableEffects DEF EndOnly, BeginOnly, Untouched
<1>4. CASE addSongToPlayQ \/ WebAddSong
  BY <1>4, TableEffects DEF RowAdded, Untouched
<1>5. CASE WebArrange
  BY <1>1, <1>5, TableEffects DEF ArrangementOnly
<1>6. CASE Control
  BY <1>6, ControlKeepsTable DEF Untouched
<1> QED
  BY <1>2, <1>3, <1>4, <1>5, <1>6 DEF Next, Player, Control

\* Only the fetched row leaves the queue, by being marked.
LEMMA LeavesQueue ==
  ASSUME TypeOK, Pointers, Selected, [Next]_vars, NEW id \in Ids,
         playq[id].Status = "In Queue", playq'[id].Status # "In Queue"
  PROVE  (MarkPlaying \/ CancelNext) /\ id = nextQR
<1>1. ~Untouched
  BY DEF Untouched
<1>2. CASE MarkOld
  BY <1>1, <1>2, TableEffects DEF StatusOnly, MarkOld, Selected
<1>3. CASE MarkPlaying \/ CancelNext
  BY <1>1, <1>3, TableEffects DEF StatusOnly
<1>4. ~(EndOld \/ EndNext \/ updatePlayQBeginPlayTime)
  BY <1>1, TableEffects DEF EndOnly, BeginOnly
<1>5. ~(addSongToPlayQ \/ WebAddSong \/ WebArrange)
  BY <1>1, TableEffects DEF RowAdded, ArrangementOnly
<1>6. ~Control
  BY <1>1, ControlKeepsTable
<1> QED
  BY <1>2, <1>3, <1>4, <1>5, <1>6 DEF Next, Player, Control

Order == Fifo /\ FetchedInOrder

\* Rows leave the queue in order after every statement.
LEMMA OrderStep ==
  ASSUME TypeOK, Pointers, Selected, Order, [Next]_vars
  PROVE  Order'
<1>1. /\ \A id \in Ids : id \in Ids' /\ Same(id)
      /\ \A id \in Ids : playq'[id].Status = "In Queue"
                          => playq[id].Status = "In Queue"
  BY RowLife DEF LifeOfARow
<1>2. /\ Len(playq) \in Nat
      /\ \A id \in Ids : id \in Nat /\ id < Len(playq) + 1
  BY LenProperties DEF TypeOK, Ids
<1>3. \A id \in Ids' : id \notin Ids => /\ id = Len(playq) + 1
                                        /\ playq'[id].Status = "In Queue"
  <2> SUFFICES ASSUME NEW id \in Ids', id \notin Ids
               PROVE  id = Len(playq) + 1 /\ playq'[id].Status = "In Queue"
    OBVIOUS
  <2>1. id = Len(playq) + 1 /\ \E song, type : RowAdded(song, type)
    BY NewIds
  <2>2. \A song, type : NewRow(song, type).Status = "In Queue"
    BY DEF NewRow
  <2> QED
    BY <2>1, <2>2 DEF RowAdded
<1>6. \A a, b \in Nat : ~(a < b /\ b <= a)
  OBVIOUS
<1>7. \A n, b \in Nat : b < n + 1 => ~(n + 1 < b)
  OBVIOUS
<1>4. Fifo'
  <2> SUFFICES ASSUME NEW i \in Ids', NEW j \in Ids', i < j,
                      playq'[i].RequestType = playq'[j].RequestType,
                      playq'[i].songID \in Songs, playq'[j].songID \in Songs,
                      playq'[i].Arrangement = DefaultArrangement,
                      playq'[j].Arrangement = DefaultArrangement,
                      playq'[i].Status = "In Queue",
                      playq'[j].Status # "In Queue"
               PROVE  FALSE
    BY DEF Fifo
  <2>1. j \in Ids
    BY <1>3
  <2>2. i \in Ids
    <3>1. j \in Nat /\ j < Len(playq) + 1
      BY <1>2, <2>1
    <3>2. ~(Len(playq) + 1 < j)
      BY <1>2, <1>7, <3>1
    <3> QED
      BY <1>3, <3>2
  <2>3. /\ playq[i].Arrangement = DefaultArrangement
        /\ playq[j].Arrangement = DefaultArrangement
        /\ playq[i].Status = "In Queue"
        /\ Same(i) /\ Same(j)
    BY <1>1, <2>1, <2>2, ArrangementStep
  <2>4. playq[j].Status = "In Queue"
    BY <2>1, <2>2, <2>3 DEF Order, Fifo, Same
  <2>5. (MarkPlaying \/ CancelNext) /\ j = nextQR
    BY <2>1, <2>4, LeavesQueue
  <2>6. i \in InQueue
    BY <2>2, <2>3 DEF InQueue, WithStatus, Same
  <2>7. j <= i
    BY <2>3, <2>5, <2>6 DEF Order, FetchedInOrder, FetchedSteps, MarkPlaying,
       CancelNext, Same
  <2> QED
    <3>1. i \in Nat /\ j \in Nat
      BY <1>2, <2>1, <2>2
    <3> QED
      BY <3>1, <2>7, <1>6
<1>5. FetchedInOrder'
  <2> SUFFICES ASSUME pc' \in FetchedSteps, NEW id \in InQueue',
                      playq'[id].RequestType = playq'[nextQR'].RequestType,
                      playq'[id].Arrangement = DefaultArrangement,
                      playq'[nextQR'].Arrangement = DefaultArrangement
               PROVE  nextQR' <= id
    BY DEF FetchedInOrder
  <2>1. id \in Ids'
    BY DEF InQueue, WithStatus
  <2>2. nextQR' \in Ids
    BY DEF Next, Player, FetchedSteps, Pointers, Visible, getNextSongRecord,
       skipToNextAlbum, Call, SetAutomatic, getCurrentSongInPlayQ, MarkOld,
       EndOld, incrementSongPlayCount, QueryQ, getNextPlayQRecord,
       updatePlayQBeginPlayTime, MarkPlaying, CancelNext, EndNext,
       queryAutomaticSong, zeroAutomaticSongRowOffset,
       incrementAutomaticSongRowOffset, addSongToPlayQ, WebAddSong, WebArrange,
       Kill, Restart, vars, locals, Segv, InQueue, WithStatus
  <2>3. CASE id \notin Ids
    <3>1. id = Len(playq) + 1
      BY <1>3, <2>1, <2>3
    <3>2. nextQR' \in Nat /\ nextQR' < Len(playq) + 1
      BY <1>2, <2>2
    <3> QED
      BY <1>2, <3>1, <3>2
  <2>4. CASE id \in Ids
    <3>1. /\ playq[id].Arrangement = DefaultArrangement
          /\ playq[nextQR'].Arrangement = DefaultArrangement
          /\ playq[id].RequestType = playq[nextQR'].RequestType
      BY <1>1, <2>2, <2>4, ArrangementStep DEF Same
    <3>2. id \in InQueue
      BY <2>4, QueueStep
    <3>3. CASE getNextPlayQRecord
      <4>1. IsHead(nextQR')
        BY <3>3 DEF getNextPlayQRecord, Segv, FetchedSteps
      <4>2. id = nextQR' \/ Precedes(nextQR', id)
        BY <3>2, <4>1 DEF IsHead
      <4>3. \/ id = nextQR' \/ nextQR' < id
            \/ DefaultArrangement < DefaultArrangement
        BY <3>1, <4>2 DEF Precedes
      <4>4. DefaultArrangement \in Nat
        BY SMT DEF DefaultArrangement
      <4> QED
        BY <1>2, <2>2, <2>4, <4>3, <4>4
    <3>4. CASE ~getNextPlayQRecord
      <4>1. pc \in FetchedSteps /\ nextQR' = nextQR
        BY <3>4 DEF Next, Player, FetchedSteps, getNextSongRecord,
           skipToNextAlbum, Call, SetAutomatic, getCurrentSongInPlayQ, MarkOld,
           EndOld, incrementSongPlayCount, QueryQ,
           updatePlayQBeginPlayTime, MarkPlaying, CancelNext, EndNext,
           queryAutomaticSong, zeroAutomaticSongRowOffset,
           incrementAutomaticSongRowOffset, addSongToPlayQ, WebAddSong,
           WebArrange, Kill, Restart, vars, locals, Segv
      <4> QED
        BY <3>1, <3>2, <4>1 DEF Order, FetchedInOrder
    <3> QED
      BY <3>3, <3>4
  <2> QED
    BY <2>3, <2>4
<1> QED
  BY <1>4, <1>5 DEF Order

-----------------------------------------------------------------------------
(* The times follow the status.                                            *)

RowTimes(id) ==
  /\ playq[id].Status = "Currently Playing" => playq[id].Begin /\ ~playq[id].End
  /\ playq[id].Status = "Completed" => playq[id].Begin
  /\ playq[id].End => playq[id].Status \in {"Completed", "Canceled"}
  /\ playq[id].Status = "In Queue" => ~playq[id].End

RowTimesNext(id) ==
  /\ playq'[id].Status = "Currently Playing" => playq'[id].Begin /\ ~playq'[id].End
  /\ playq'[id].Status = "Completed" => playq'[id].Begin
  /\ playq'[id].End => playq'[id].Status \in {"Completed", "Canceled"}
  /\ playq'[id].Status = "In Queue" => ~playq'[id].End

PendingTimes ==
  /\ pc = "markPlaying" => playq[nextQR].Begin
  /\ pc = "endOld" => playq[pQR].Status \in {"Completed", "Canceled"}
  /\ pc = "endNext" => playq[nextQR].Status = "Canceled"

Times == TimesFollowStatus /\ Retired

\* The invariant of the times, row by row.
LEMMA TimesByRow == Times <=> (errs = 0 => PendingTimes /\ \A id \in Ids : RowTimes(id))
  BY DEF Times, TimesFollowStatus, Retired, PendingTimes, RowTimes, RowTimesNext

\* The same of the next state.
LEMMA TimesByRowNext ==
  Times' <=> (errs' = 0 => PendingTimes' /\ \A id \in Ids' : RowTimesNext(id))
  BY DEF Times, TimesFollowStatus, Retired, PendingTimes, RowTimes, RowTimesNext

\* The times agree with the status after every statement.
LEMMA TimesStep ==
  ASSUME TypeOK, Pointers, Selected, Times, [Next]_vars
  PROVE  Times'
<1> SUFFICES ASSUME errs' = 0
             PROVE  PendingTimes' /\ \A id \in Ids' : RowTimesNext(id)
  BY TimesByRowNext
<1>1. /\ errs' # errs + 1 /\ errs = 0
      /\ pc \in OldSteps => pQR \in Ids
      /\ pc \in FetchedSteps \cup {"endNext"} => nextQR \in Ids
  BY ErrsGrow DEF TypeOK, Pointers, Visible
<1>2. PendingTimes /\ \A id \in Ids : RowTimes(id)
  BY <1>1, TimesByRow
<1>3. ASSUME NEW id \in Ids, id \in Ids', playq'[id].Status = playq[id].Status,
             playq'[id].Begin = playq[id].Begin, playq'[id].End = playq[id].End
      PROVE  RowTimesNext(id)
  BY <1>2, <1>3 DEF RowTimes, RowTimesNext
<1>4. CASE MarkOld
  <2>1. StatusOnly(pQR, IF op = "next" THEN "Completed" ELSE "Canceled")
    BY <1>1, <1>4, TableEffects
  <2>2. pQR \in Ids /\ playq[pQR].Status = "Currently Playing"
    BY <1>1, <1>4 DEF MarkOld, OldSteps, Selected
  <2>3. playq'[pQR].Status \in {"Completed", "Canceled"}
    BY <2>1, <2>2 DEF StatusOnly
  <2>4. RowTimesNext(pQR)
    BY <1>2, <2>1, <2>2, <2>3 DEF RowTimes, RowTimesNext, StatusOnly
  <2>5. \A id \in Ids' : RowTimesNext(id)
    BY <1>3, <2>1, <2>4 DEF StatusOnly
  <2> QED
    BY <1>4, <2>3, <2>5 DEF PendingTimes, MarkOld, locals
<1>5. CASE EndOld \/ EndNext
  <2>1. PICK id \in Ids : /\ EndOnly(id)
                          /\ playq[id].Status \in {"Completed", "Canceled"}
    BY <1>1, <1>2, <1>5, TableEffects DEF EndOld, EndNext, PendingTimes, OldSteps
  <2>2. RowTimesNext(id)
    BY <1>2, <2>1 DEF RowTimes, RowTimesNext, EndOnly
  <2>3. \A j \in Ids' : RowTimesNext(j)
    BY <1>3, <2>1, <2>2 DEF EndOnly
  <2> QED
    BY <1>5, <2>3 DEF PendingTimes, EndOld, EndNext
<1>6. CASE updatePlayQBeginPlayTime
  <2>1. BeginOnly(nextQR)
    BY <1>1, <1>6, TableEffects
  <2>2. nextQR \in Ids /\ playq[nextQR].Status = "In Queue"
    BY <1>1, <1>6 DEF updatePlayQBeginPlayTime, FetchedSteps, Selected
  <2>3. RowTimesNext(nextQR)
    BY <1>2, <2>1, <2>2 DEF RowTimes, RowTimesNext, BeginOnly
  <2>4. \A j \in Ids' : RowTimesNext(j)
    BY <1>3, <2>1, <2>3 DEF BeginOnly
  <2> QED
    BY <1>6, <2>1, <2>4 DEF PendingTimes, updatePlayQBeginPlayTime, BeginOnly, locals
<1>7. CASE MarkPlaying
  <2>1. StatusOnly(nextQR, "Currently Playing")
    BY <1>1, <1>7, TableEffects
  <2>2. /\ nextQR \in Ids /\ playq[nextQR].Status = "In Queue"
        /\ playq[nextQR].Begin
    BY <1>1, <1>2, <1>7 DEF MarkPlaying, FetchedSteps, Selected, PendingTimes
  <2>3. RowTimesNext(nextQR)
    BY <1>2, <2>1, <2>2 DEF RowTimes, RowTimesNext, StatusOnly
  <2>4. \A j \in Ids' : RowTimesNext(j)
    BY <1>3, <2>1, <2>3 DEF StatusOnly
  <2> QED
    BY <1>7, <2>4 DEF PendingTimes, MarkPlaying
<1>8. CASE CancelNext
  <2>1. StatusOnly(nextQR, "Canceled")
    BY <1>1, <1>8, TableEffects
  <2>2. nextQR \in Ids /\ playq[nextQR].Status = "In Queue"
    BY <1>1, <1>8 DEF CancelNext, FetchedSteps, Selected
  <2>3. RowTimesNext(nextQR)
    BY <1>2, <2>1, <2>2 DEF RowTimes, RowTimesNext, StatusOnly
  <2>4. \A j \in Ids' : RowTimesNext(j)
    BY <1>3, <2>1, <2>3 DEF StatusOnly
  <2> QED
    BY <1>8, <2>1, <2>2, <2>4 DEF PendingTimes, CancelNext, StatusOnly, locals
<1>9. CASE addSongToPlayQ \/ WebAddSong
  <2>1. PICK song, type : RowAdded(song, type)
    BY <1>1, <1>9, TableEffects
  <2>2. LET r == NewRow(song, type)
        IN  r.Status = "In Queue" /\ ~r.Begin /\ ~r.End
    BY DEF NewRow
  <2>3. RowTimesNext(Len(playq) + 1)
    BY <2>1, <2>2 DEF RowTimes, RowTimesNext, RowAdded
  <2>4. \A j \in Ids' : RowTimesNext(j)
    BY <1>3, <2>1, <2>3 DEF RowAdded
  <2>5. CASE addSongToPlayQ
    BY <2>4, <2>5 DEF PendingTimes, addSongToPlayQ
  <2>6. CASE WebAddSong
    BY <1>1, <1>2, <2>1, <2>4, <2>6 DEF PendingTimes, WebAddSong, RowAdded,
       locals, OldSteps, FetchedSteps
  <2> QED
    BY <1>9, <2>5, <2>6
<1>10. CASE WebArrange
  <2>1. PICK id \in Ids, p \in Positions : ArrangementOnly(id, p)
    BY <1>10, TableEffects
  <2>2. \A j \in Ids' : RowTimesNext(j)
    BY <1>3, <2>1 DEF ArrangementOnly
  <2> QED
    BY <1>1, <1>2, <1>10, <2>1, <2>2 DEF PendingTimes, WebArrange,
       ArrangementOnly, locals, OldSteps, FetchedSteps
<1>11. CASE Control
  <2>1. Untouched
    BY <1>11, ControlKeepsTable
  <2>2. \A j \in Ids' : RowTimesNext(j)
    BY <1>3, <2>1 DEF Untouched
  <2>3. \/ pc' \notin {"markPlaying", "endOld", "endNext"}
        \/ /\ pc' = pc /\ pQR' = pQR /\ nextQR' = nextQR
    BY <1>11 DEF Control, getNextSongRecord, skipToNextAlbum, Call,
       SetAutomatic, getCurrentSongInPlayQ, incrementSongPlayCount, QueryQ,
       getNextPlayQRecord, queryAutomaticSong, zeroAutomaticSongRowOffset,
       incrementAutomaticSongRowOffset, Kill, Restart, vars, locals, Segv
  <2> QED
    BY <1>1, <1>2, <2>1, <2>2, <2>3 DEF PendingTimes, Untouched, OldSteps,
       FetchedSteps
<1> QED
  BY <1>4, <1>5, <1>6, <1>7, <1>8, <1>9, <1>10, <1>11 DEF Next, Player, Control

-----------------------------------------------------------------------------
(* Automatic turns, and the rows the routines read.                        *)

Turns == TurnTaken /\ NeverNullRow

\* What the writes of other columns and an INSERT do to the queue.
LEMMA QueueKept ==
  /\ Untouched => InQueue' = InQueue
  /\ \A id, p : ArrangementOnly(id, p) => InQueue' = InQueue
  /\ \A song, type : RowAdded(song, type) => InQueue \subseteq InQueue'
  /\ \A song \in Songs : \A type : RowAdded(song, type) => InQueue' # {}
<1>1. Untouched => InQueue' = InQueue
  BY DEF Untouched, InQueue, WithStatus
<1>2. \A id, p : ArrangementOnly(id, p) => InQueue' = InQueue
  BY DEF ArrangementOnly, Same, InQueue, WithStatus
<1>3. \A song, type : RowAdded(song, type) => InQueue \subseteq InQueue'
  BY DEF RowAdded, InQueue, WithStatus
<1>4. ASSUME NEW song \in Songs, NEW type, RowAdded(song, type)
      PROVE  Len(playq) + 1 \in InQueue'
  <2>1. /\ NewRow(song, type).songID = song
        /\ NewRow(song, type).Status = "In Queue"
    BY DEF NewRow
  <2> QED
    BY <1>4, <2>1 DEF RowAdded, InQueue, WithStatus
<1> QED
  BY <1>1, <1>2, <1>3, <1>4

\* The turn of the automatic query stands after every statement.
LEMMA TurnsStep ==
  ASSUME TypeOK, Pointers, Turns, [Next]_vars
  PROVE  Turns'
<1> SUFFICES ASSUME errs' = 0
             PROVE  Turns'
  BY DEF Turns, TurnTaken, NeverNullRow
<1>1. /\ errs' # errs + 1 /\ errs = 0 /\ rowOffset \in Nat
      /\ pick \in Songs \cup {NoSong}
  BY ErrsGrow DEF TypeOK
<1>2. /\ AutoList \in Seq(Songs) /\ Len(AutoList) \in Nat
      /\ DOMAIN AutoList = 1 .. Len(AutoList)
      /\ \A i \in 1 .. Len(AutoList) : AutoList[i] \in Songs
      /\ NoSong \notin Songs
      /\ AutoList # <<>> => Len(AutoList) > 0
  <2>1. AutoList \in Seq(Songs) /\ NoSong \notin Songs
    BY ConstantsAssumption DEF ConstantsAssumption
  <2> QED
    BY <2>1, EmptySeq, LenProperties, ElementOfSeq
<1>3. /\ pc = "bumpOffset" /\ pick # NoSong =>
           rowOffset + 1 \in DOMAIN AutoList /\ pick = AutoList[rowOffset + 1]
      /\ pc = "insertAuto" =>
           rowOffset \in DOMAIN AutoList /\ pick = AutoList[rowOffset]
      /\ pc = "fetchQ" => InQueue # {}
      /\ AutoList # <<>> /\ pc = "bumpOffset" => pick # NoSong
      /\ AutoList # <<>> /\ pc = "queryAuto" /\ retried => rowOffset = 0
      /\ AutoList # <<>> => pc # "segv"
      /\ retried => pc \in {"queryAuto", "bumpOffset", "down", "segv"}
  BY <1>1 DEF Turns, TurnTaken, NeverNullRow
<1>4. ~Fail
  BY <1>1 DEF Fail
<1>15. retried' => pc' \in {"queryAuto", "bumpOffset", "down", "segv"}
  BY <1>3, <1>4 DEF Next, Player, getNextSongRecord, skipToNextAlbum, Call,
     SetAutomatic, getCurrentSongInPlayQ, MarkOld, EndOld,
     incrementSongPlayCount, QueryQ, getNextPlayQRecord,
     updatePlayQBeginPlayTime, MarkPlaying, CancelNext, EndNext,
     queryAutomaticSong, zeroAutomaticSongRowOffset,
     incrementAutomaticSongRowOffset, addSongToPlayQ, WebAddSong,
     WebArrange, Kill, Restart, vars, locals, Segv
<1>5. CASE pc' \notin {"queryAuto", "bumpOffset", "insertAuto", "fetchQ", "segv"}
  BY <1>5, <1>15 DEF Turns, TurnTaken, NeverNullRow
<1>6. CASE QueryQ
  <2>1. InQueue' = InQueue
    BY <1>6, ControlKeepsTable, QueueKept DEF Control
  <2> QED
    BY <1>3, <1>4, <1>6, <1>15, <2>1 DEF QueryQ, Turns, TurnTaken, NeverNullRow
<1>7. CASE getNextPlayQRecord
  BY <1>3, <1>4, <1>7, <1>15 DEF getNextPlayQRecord, Turns, TurnTaken, NeverNullRow
<1>8. CASE queryAutomaticSong
  <2>1. rowOffset' = rowOffset
    BY <1>8 DEF queryAutomaticSong, tables
  <2>2. CASE rowOffset < Len(AutoList)
    <3>1. pc' = "bumpOffset" /\ pick' = AutoList[rowOffset + 1]
      BY <1>1, <1>2, <1>4, <1>8, <2>2 DEF queryAutomaticSong
    <3>2. rowOffset + 1 \in DOMAIN AutoList
      BY <1>1, <1>2, <2>2
    <3> QED
      BY <1>2, <2>1, <3>1, <3>2, <1>15 DEF Turns, TurnTaken, NeverNullRow
  <2>3. CASE ~(rowOffset < Len(AutoList))
    <3>1. pick' = NoSong /\ pc' = IF retried THEN "bumpOffset" ELSE "zeroOffset"
      BY <1>4, <1>8, <2>3 DEF queryAutomaticSong
    <3>2. pc = "queryAuto"
      BY <1>8 DEF queryAutomaticSong
    <3>3. AutoList # <<>> => pc' = "zeroOffset"
      BY <1>1, <1>2, <1>3, <2>3, <3>1, <3>2
    <3> QED
      BY <3>1, <3>3, <1>15 DEF Turns, TurnTaken, NeverNullRow
  <2> QED
    BY <2>2, <2>3
<1>9. CASE zeroAutomaticSongRowOffset
  BY <1>4, <1>9, <1>15 DEF zeroAutomaticSongRowOffset, Turns, TurnTaken, NeverNullRow
<1>10. CASE incrementAutomaticSongRowOffset
  <2>1. /\ rowOffset' = rowOffset + 1 /\ pick' = pick /\ retried' = FALSE
        /\ pc = "bumpOffset"
        /\ pc' \in {"segv", "queryQ", "insertAuto"}
        /\ pc' = "segv" <=> pick = NoSong
    BY <1>4, <1>10 DEF incrementAutomaticSongRowOffset
  <2> QED
    BY <1>3, <2>1, <1>15 DEF Turns, TurnTaken, NeverNullRow
<1>11. CASE addSongToPlayQ
  <2>1. pc = "insertAuto" /\ pc' \in {"fetchQ", "idle"}
    BY <1>11 DEF addSongToPlayQ
  <2>2. pick \in Songs
    BY <1>2, <1>3, <2>1
  <2>3. InQueue' # {}
    BY <1>1, <1>11, <2>2, TableEffects, QueueKept
  <2> QED
    BY <2>1, <2>3, <1>15 DEF Turns, TurnTaken, NeverNullRow
<1>12. CASE WebAddSong \/ WebArrange
  <2>1. InQueue \subseteq InQueue'
    BY <1>12, TableEffects, QueueKept
  <2>2. /\ pc' = pc /\ rowOffset' = rowOffset /\ pick' = pick
        /\ retried' = retried
    BY <1>12 DEF WebAddSong, WebArrange, locals
  <2> QED
    BY <1>3, <2>1, <2>2, <1>15 DEF Turns, TurnTaken, NeverNullRow
<1>13. CASE UNCHANGED vars
  BY <1>3, <1>13, <1>15 DEF vars, Turns, TurnTaken, NeverNullRow, InQueue, WithStatus, Ids
<1>14. CASE SetAutomatic
  BY <1>14, <1>15 DEF SetAutomatic, Turns, TurnTaken, NeverNullRow
<1> QED
  <2>1. \/ pc' \notin {"queryAuto", "bumpOffset", "insertAuto", "fetchQ", "segv"}
        \/ QueryQ \/ getNextPlayQRecord \/ queryAutomaticSong
        \/ zeroAutomaticSongRowOffset \/ incrementAutomaticSongRowOffset
        \/ addSongToPlayQ \/ WebAddSong \/ WebArrange \/ UNCHANGED vars
        \/ SetAutomatic
    BY DEF Next, Player, getNextSongRecord, skipToNextAlbum, Call,
       getCurrentSongInPlayQ, MarkOld, EndOld, incrementSongPlayCount,
       updatePlayQBeginPlayTime, MarkPlaying, CancelNext, EndNext, Kill, Restart
  <2> QED
    BY <2>1, <1>5, <1>6, <1>7, <1>8, <1>9, <1>10, <1>11, <1>12, <1>13, <1>14

-----------------------------------------------------------------------------
(* The theorems.                                                           *)

\* The invariant holds when the program starts.
LEMMA InductiveInit == Init => IInv
<1> SUFFICES ASSUME Init PROVE IInv
  OBVIOUS
<1>1. TypeOK /\ Pointers
  BY TypeInit
<1>2. Ids = {} /\ pc = "idle" /\ retried = FALSE
  BY DEF Init, Ids
<1>3. Playing = {} /\ InQueue = {}
  BY <1>2 DEF Playing, InQueue, WithStatus
<1>4. Selected /\ UniqueCurrent /\ Vacant
  BY <1>2, <1>3 DEF Selected, UniqueCurrent, Vacant, FetchedSteps, AfterOld, AutoSteps
<1>5. TimesFollowStatus /\ Retired
  BY <1>2 DEF TimesFollowStatus, Retired
<1>6. AtMostOneAutomaticQueued /\ NoAutomaticQueued
  BY <1>2, <1>3 DEF AtMostOneAutomaticQueued, NoAutomaticQueued, AutoSteps
<1>7. Fifo /\ FetchedInOrder
  BY <1>2 DEF Fifo, FetchedInOrder, FetchedSteps
<1>8. TurnTaken /\ NeverNullRow
  BY <1>2 DEF TurnTaken, NeverNullRow
<1> QED
  BY <1>1, <1>4, <1>5, <1>6, <1>7, <1>8 DEF IInv

\* Every statement of MusicDB.cpp keeps the invariant.
LEMMA InductiveStep == IInv /\ [Next]_vars => IInv'
<1> SUFFICES ASSUME IInv, [Next]_vars PROVE IInv'
  OBVIOUS
<1>1. /\ TypeOK /\ Pointers /\ Selected /\ Current /\ OneAutomatic /\ Order
      /\ Times /\ Turns
  BY DEF IInv, Current, OneAutomatic, Order, Times, Turns
<1>2. TypeOK' /\ Pointers'
  BY <1>1, TypeStep
<1>3. Current' /\ OneAutomatic' /\ Order'
  BY <1>1, CurrentStep, OneAutomaticStep, OrderStep
<1>4. Times' /\ Turns'
  BY <1>1, TimesStep, TurnsStep
<1> QED
  BY <1>2, <1>3, <1>4 DEF IInv, Current, OneAutomatic, Order, Times, Turns

(* The inductive invariant holds in every reachable state: whatever a      *)
(* pending statement of MusicDB.cpp relies on is still so when it runs.    *)
THEOREM Inductive == Spec => []IInv
  BY InductiveInit, InductiveStep, PTL DEF Spec

(* The variables keep their types; the ids name rows of the table.         *)
THEOREM TypeCorrect == Spec => []TypeOK
<1>1. IInv => TypeOK
  BY DEF IInv
<1> QED
  BY <1>1, Inductive, PTL

(* getNextSongRecord and skipToNextAlbum keep one row at most "Currently   *)
(* Playing" while no statement fails, over any number of kills.            *)
THEOREM OneRowPlays == Spec => []UniqueCurrent
<1>1. IInv => UniqueCurrent
  BY DEF IInv
<1> QED
  BY <1>1, Inductive, PTL

(* However many requests the web page inserts and whatever fails, one      *)
(* automatic song at most waits in the queue.                              *)
THEOREM OneAutomaticWaits == Spec => []AtMostOneAutomaticQueued
<1>1. IInv => AtMostOneAutomaticQueued
  BY DEF IInv
<1> QED
  BY <1>1, Inductive, PTL

(* The begin and end times agree with the status of their row, also in the *)
(* rows a killed process leaves behind.                                    *)
THEOREM TimesAgree == Spec => []TimesFollowStatus
<1>1. IInv => TimesFollowStatus
  BY DEF IInv
<1> QED
  BY <1>1, Inductive, PTL

(* Rows no web page has arranged leave the queue in insertion order within *)
(* their request type.                                                     *)
THEOREM FirstInFirstOut == Spec => []Fifo
<1>1. IInv => Fifo
  BY DEF IInv
<1> QED
  BY <1>1, Inductive, PTL

(* Only a failed statement makes the routines read a row that is not there, *)
(* if the automatic query has a row.                                       *)
THEOREM NoNullRow == Spec => []NeverNullRow
<1>1. IInv => NeverNullRow
  BY DEF IInv
<1> QED
  BY <1>1, Inductive, PTL

(* Every row goes through its life in order: updatePlayQStatus never       *)
(* revives, requeues or completes a row out of turn.                       *)
THEOREM RowsLiveInOrder == Spec => StatusMonotone
<1>1. IInv /\ [Next]_vars =>
        [\A id \in Ids :
           /\ id \in DOMAIN playq'
           /\ \/ playq'[id].Status = playq[id].Status
              \/ <<playq[id].Status, playq'[id].Status>> \in LifeOfARow]_vars
  <2> SUFFICES ASSUME IInv, [Next]_vars, NEW id \in Ids
               PROVE  /\ id \in DOMAIN playq'
                      /\ \/ playq'[id].Status = playq[id].Status
                         \/ <<playq[id].Status, playq'[id].Status>> \in LifeOfARow
    OBVIOUS
  <2>1. TypeOK /\ Pointers /\ Selected
    BY DEF IInv
  <2>2. playq' \in Seq(Row)
    BY <2>1, TypeStep DEF TypeOK
  <2>3. DOMAIN playq' = Ids'
    BY <2>2, LenProperties DEF Ids
  <2> QED
    BY <2>1, <2>3, RowLife
<1> QED
  BY <1>1, Inductive, PTL DEF Spec, StatusMonotone

(* addSongToPlayQ inserts an automatic song only after its offset is       *)
(* stored: no later life of the process takes the same turn.               *)
THEOREM TurnsAreSaved == Spec => TurnSavedBeforeQueued
<1> DEFINE A == /\ errs = 0
                /\ Len(playq') > Len(playq)
                /\ playq'[Len(playq')].RequestType = "Automatic"
                => /\ rowOffset \in DOMAIN AutoList
                   /\ playq'[Len(playq')].songID = AutoList[rowOffset]
<1>1. IInv /\ [Next]_vars => [A]_vars
  <2> SUFFICES ASSUME IInv, [Next]_vars, errs = 0, Len(playq') > Len(playq),
                      playq'[Len(playq')].RequestType = "Automatic"
               PROVE  /\ rowOffset \in DOMAIN AutoList
                      /\ playq'[Len(playq')].songID = AutoList[rowOffset]
    OBVIOUS
  <2> DEFINE n == Len(playq')
  <2>1. TypeOK /\ Pointers /\ TypeOK'
    BY TypeStep DEF IInv
  <2>2. n \in Ids' /\ n \notin Ids
    BY <2>1, LenProperties DEF TypeOK, Ids
  <2>3. /\ n = Len(playq) + 1
        /\ \/ addSongToPlayQ /\ errs' = errs /\ RowAdded(pick, "Automatic")
           \/ WebAddSong /\ \E s \in Songs : RowAdded(s, "Request")
    BY <2>1, <2>2, NewIds
  <2>4. ~ \E s \in Songs : RowAdded(s, "Request")
    <3>1. \A s : NewRow(s, "Request").RequestType = "Request"
      BY DEF NewRow
    <3> QED
      BY <2>3, <3>1 DEF RowAdded
  <2>5. playq'[n] = NewRow(pick, "Automatic") /\ pc = "insertAuto"
    BY <2>3, <2>4 DEF RowAdded, addSongToPlayQ
  <2>6. playq'[n].songID = pick
    <3>1. NewRow(pick, "Automatic").songID = pick
      BY DEF NewRow
    <3> QED
      BY <2>5, <3>1
  <2> QED
    BY <2>5, <2>6 DEF IInv, TurnTaken
<1> QED
  BY <1>1, Inductive, PTL DEF Spec, TurnSavedBeforeQueued

-----------------------------------------------------------------------------
(* What MusicDB counts in spite of failed statements and kills: the rows   *)
(* that are left playing, and the plays of each song.                      *)


\* The table is finite, so the rows of a kind can be counted.
LEMMA RowsAreFinite ==
  ASSUME TypeOK
  PROVE  /\ IsFiniteSet(Playing) /\ Cardinality(Playing) \in Nat
         /\ \A s : /\ IsFiniteSet(CompletedRows(s))
                   /\ Cardinality(CompletedRows(s)) \in Nat
<1>1. Len(playq) \in Nat
  BY LenProperties DEF TypeOK
<1>2. IsFiniteSet(Ids)
  BY <1>1, FS_Interval DEF Ids
<1>3. Playing \in SUBSET Ids /\ \A s : CompletedRows(s) \in SUBSET Ids
  BY DEF Playing, WithStatus, CompletedRows
<1>4. \A T \in SUBSET Ids : IsFiniteSet(T) /\ Cardinality(T) \in Nat
  BY <1>2, FS_Subset, FS_CardinalityType
<1> QED
  BY <1>3, <1>4

-----------------------------------------------------------------------------
(* Rows that are left playing.                                             *)

\* Only updatePlayQStatus changes which rows play, and a routine gets past
\* the row that played only when there is none or a statement has failed.
LEMMA PlayingStep ==
  ASSUME TypeOK, Pointers, Selected, [Next]_vars
  PROVE  \/ /\ MarkOld /\ errs' = errs
            /\ pQR \in Playing /\ Playing' = Playing \ {pQR}
         \/ MarkPlaying /\ errs' = errs /\ Playing' = Playing \cup {nextQR}
         \/ /\ Playing' = Playing
            /\ pc' \in AfterOld => pc \in AfterOld \/ Playing = {} \/ errs' = errs + 1
<1>0. /\ pc \in OldSteps => pQR \in Ids /\ playq[pQR].songID \in Songs
      /\ pc \in FetchedSteps \cup {"endNext"} =>
           nextQR \in Ids /\ playq[nextQR].songID \in Songs
  BY DEF Pointers, Visible
<1>1. Untouched => Playing' = Playing
  BY DEF Untouched, Playing, WithStatus
<1>2. CASE MarkOld
  <2>1. \/ /\ errs' = errs
           /\ StatusOnly(pQR, IF op = "next" THEN "Completed" ELSE "Canceled")
        \/ errs' = errs + 1 /\ Untouched
    BY <1>2, TableEffects
  <2>2. CASE /\ errs' = errs
             /\ StatusOnly(pQR, IF op = "next" THEN "Completed" ELSE "Canceled")
    <3>1. pQR \in Playing
      BY <1>0, <1>2 DEF MarkOld, Selected, OldSteps, Playing, WithStatus
    <3>2. Playing' = Playing \ {pQR}
      BY <2>2 DEF StatusOnly, Same, Playing, WithStatus
    <3> QED
      BY <1>2, <2>2, <3>1, <3>2
  <2> QED
    BY <1>1, <2>1, <2>2
<1>3. CASE MarkPlaying
  <2>1. \/ errs' = errs /\ StatusOnly(nextQR, "Currently Playing")
        \/ errs' = errs + 1 /\ Untouched
    BY <1>3, TableEffects
  <2>2. CASE errs' = errs /\ StatusOnly(nextQR, "Currently Playing")
    <3>1. nextQR \in Ids /\ playq[nextQR].songID \in Songs
      BY <1>0, <1>3 DEF MarkPlaying, FetchedSteps
    <3>2. Playing' = Playing \cup {nextQR}
      BY <2>2, <3>1 DEF StatusOnly, Same, Playing, WithStatus
    <3> QED
      BY <1>3, <2>2, <3>2
  <2> QED
    BY <1>1, <2>1, <2>2
<1>4. CASE CancelNext
  <2>1. nextQR \notin Playing
    BY <1>4 DEF CancelNext, Selected, FetchedSteps, Playing, WithStatus
  <2>2. Playing' = Playing
    BY <1>1, <1>4, <2>1, TableEffects DEF StatusOnly, Same, Playing, WithStatus
  <2> QED
    BY <1>4, <2>2 DEF CancelNext, AfterOld, FetchedSteps
<1>5. CASE EndOld \/ EndNext \/ updatePlayQBeginPlayTime
  <2>1. Playing' = Playing
    BY <1>1, <1>5, TableEffects DEF EndOnly, BeginOnly, Same, Playing, WithStatus
  <2> QED
    BY <1>5, <2>1 DEF EndOld, EndNext, updatePlayQBeginPlayTime, AfterOld, FetchedSteps
<1>6. CASE addSongToPlayQ \/ WebAddSong \/ WebArrange
  <2>1. ASSUME NEW song, NEW type, RowAdded(song, type) PROVE Playing' = Playing
    <3>1. NewRow(song, type).Status = "In Queue"
      BY DEF NewRow
    <3> QED
      BY <2>1, <3>1 DEF RowAdded, Playing, WithStatus
  <2>2. ASSUME NEW id, NEW p, ArrangementOnly(id, p) PROVE Playing' = Playing
    BY <2>2 DEF ArrangementOnly, Same, Playing, WithStatus
  <2>3. Playing' = Playing
    BY <1>1, <1>6, <2>1, <2>2, TableEffects
  <2> QED
    BY <1>6, <2>3 DEF addSongToPlayQ, WebAddSong, WebArrange, AfterOld, AutoSteps
<1>7. CASE Control
  <2>1. Playing' = Playing
    BY <1>1, <1>7, ControlKeepsTable
  <2>2. CASE getCurrentSongInPlayQ
    <3>1. \A id \in Ids : id > 0
      BY DEF Ids
    <3>2. pQR' \in Playing => pQR' > 0
      BY <3>1 DEF Playing, WithStatus
    <3>3. pQR' \in Playing \/ Playing = {} \/ errs' = errs + 1
      BY <2>2 DEF getCurrentSongInPlayQ, Fail
    <3>4. pQR' \in Playing => pc' \notin AfterOld
      BY <2>2, <3>2 DEF getCurrentSongInPlayQ, AfterOld, FetchedSteps, AutoSteps
    <3> QED
      BY <2>1, <3>3, <3>4
  <2>3. CASE Control /\ ~getCurrentSongInPlayQ
    <3>1. pc' \in AfterOld => pc \in AfterOld
      BY <2>3 DEF Control, getNextSongRecord, skipToNextAlbum, Call, SetAutomatic,
         incrementSongPlayCount, QueryQ, getNextPlayQRecord, queryAutomaticSong,
         zeroAutomaticSongRowOffset, incrementAutomaticSongRowOffset, Kill, Restart,
         Segv, vars, AfterOld, FetchedSteps, AutoSteps
    <3> QED
      BY <2>1, <3>1
  <2> QED
    BY <1>7, <2>1, <2>2, <2>3
<1> QED
  BY <1>2, <1>3, <1>4, <1>5, <1>6, <1>7 DEF Next, Player, Control

\* One failure for every row left playing, after every statement.
LEMMA StaleStep ==
  ASSUME TypeOK, Pointers, Selected, StaleBounded, StaleHeld, [Next]_vars
  PROVE  StaleBounded' /\ StaleHeld'
<1> DEFINE n == Cardinality(Playing)
<1>1. /\ errs \in Nat /\ n \in Nat
      /\ errs' = errs \/ errs' = errs + 1
      /\ n <= 1 + errs
      /\ pc \in AfterOld => n <= errs
  BY RowsAreFinite, ErrsGrow DEF TypeOK, StaleBounded, StaleHeld
<1>2. CASE /\ MarkOld /\ errs' = errs
           /\ pQR \in Playing /\ Playing' = Playing \ {pQR}
  <2>1. n' = n - 1
    BY <1>2, RowsAreFinite, FS_RemoveElement
  <2> QED
    BY <1>1, <1>2, <2>1 DEF StaleBounded, StaleHeld
<1>3. CASE MarkPlaying /\ errs' = errs /\ Playing' = Playing \cup {nextQR}
  <2>1. n' <= n + 1
    BY <1>1, <1>3, RowsAreFinite, FS_AddElement, SMTT(60)
  <2>2. n' \in Nat
    BY <1>3, RowsAreFinite, FS_AddElement, FS_CardinalityType
  <2>3. pc \in AfterOld /\ pc' \notin AfterOld
    BY <1>3 DEF MarkPlaying, AfterOld, FetchedSteps, AutoSteps
  <2> QED
    BY <1>1, <1>3, <2>1, <2>2, <2>3 DEF StaleBounded, StaleHeld
<1>4. CASE /\ Playing' = Playing
           /\ pc' \in AfterOld => pc \in AfterOld \/ Playing = {} \/ errs' = errs + 1
  <2>1. n' = n /\ (Playing = {} => n = 0)
    BY <1>4, FS_EmptySet
  <2> HIDE DEF n
  <2>2. n' <= 1 + errs' /\ (pc' \in AfterOld => n' <= errs')
    BY <1>1, <1>4, <2>1
  <2> QED
    BY <2>2 DEF StaleBounded, StaleHeld, n
<1> QED
  BY <1>2, <1>3, <1>4, PlayingStep

-----------------------------------------------------------------------------
(* Plays that are counted.                                                 *)

\* The completed rows change when the song that ended is completed, and then
\* by its row only.
LEMMA CompletedStep ==
  ASSUME TypeOK, Pointers, Selected, [Next]_vars
  PROVE  \/ /\ MarkOld /\ op = "next" /\ errs' = errs
            /\ \A s \in Songs :
                 /\ pQR \notin CompletedRows(s)
                 /\ CompletedRows(s)' = IF playq[pQR].songID = s
                                        THEN CompletedRows(s) \cup {pQR}
                                        ELSE CompletedRows(s)
         \/ /\ MarkOld /\ op = "next" => errs' = errs + 1
            /\ \A s \in Songs : CompletedRows(s)' = CompletedRows(s)
<1> DEFINE Kept == \A s \in Songs : CompletedRows(s)' = CompletedRows(s)
<1>1. Untouched => Kept
  BY DEF Untouched, CompletedRows
<1>2. ASSUME NEW id \in Ids, NEW s, StatusOnly(id, s),
             s # "Completed", playq[id].Status # "Completed"
      PROVE  Kept
  BY <1>2 DEF StatusOnly, Same, CompletedRows
<1>3. CASE MarkOld
  <2>1. pQR \in Ids /\ playq[pQR].Status = "Currently Playing"
    BY <1>3 DEF MarkOld, Pointers, Selected, OldSteps, Visible
  <2>2. \/ /\ errs' = errs
           /\ StatusOnly(pQR, IF op = "next" THEN "Completed" ELSE "Canceled")
        \/ errs' = errs + 1 /\ Untouched
    BY <1>3, TableEffects
  <2>3. CASE errs' = errs /\ op = "next" /\ StatusOnly(pQR, "Completed")
    <3>1. ASSUME NEW s \in Songs
          PROVE  /\ pQR \notin CompletedRows(s)
                 /\ CompletedRows(s)' = IF playq[pQR].songID = s
                                        THEN CompletedRows(s) \cup {pQR}
                                        ELSE CompletedRows(s)
      <4>1. pQR \notin CompletedRows(s)
        BY <2>1 DEF CompletedRows
      <4>2. CASE playq[pQR].songID = s
        <5>1. CompletedRows(s)' = CompletedRows(s) \cup {pQR}
          BY <2>1, <2>3, <4>2 DEF StatusOnly, Same, CompletedRows
        <5> QED
          BY <4>1, <4>2, <5>1
      <4>3. CASE playq[pQR].songID # s
        <5>1. CompletedRows(s)' = CompletedRows(s)
          BY <2>1, <2>3, <4>3 DEF StatusOnly, Same, CompletedRows
        <5> QED
          BY <4>1, <4>3, <5>1
      <4> QED
        BY <4>2, <4>3
    <3> QED
      BY <1>3, <2>3, <3>1
  <2>4. CASE op # "next" /\ StatusOnly(pQR, "Canceled")
    <3>1. Kept
      BY <1>2, <2>1, <2>4
    <3> QED
      BY <2>4, <3>1
  <2>5. CASE errs' = errs + 1 /\ Untouched
    BY <1>1, <2>5
  <2> QED
    BY <2>2, <2>3, <2>4, <2>5
<1>4. CASE MarkPlaying \/ CancelNext
  <2>1. nextQR \in Ids /\ playq[nextQR].Status = "In Queue"
    BY <1>4 DEF MarkPlaying, CancelNext, Pointers, Selected, FetchedSteps, Visible
  <2>2. Kept
    BY <1>1, <1>2, <1>4, <2>1, TableEffects
  <2> QED
    BY <1>4, <2>2 DEF MarkOld, MarkPlaying, CancelNext
<1>5. CASE EndOld \/ EndNext \/ updatePlayQBeginPlayTime
  <2>1. Kept
    BY <1>1, <1>5, TableEffects DEF EndOnly, BeginOnly, Same, CompletedRows
  <2> QED
    BY <1>5, <2>1 DEF MarkOld, EndOld, EndNext, updatePlayQBeginPlayTime
<1>6. CASE addSongToPlayQ \/ WebAddSong \/ WebArrange
  <2>1. ASSUME NEW song, NEW type, RowAdded(song, type) PROVE Kept
    <3>1. NewRow(song, type).Status = "In Queue"
      BY DEF NewRow
    <3> QED
      BY <2>1, <3>1 DEF RowAdded, CompletedRows
  <2>2. ASSUME NEW id, NEW p, ArrangementOnly(id, p) PROVE Kept
    BY <2>2 DEF ArrangementOnly, Same, CompletedRows
  <2> HIDE DEF Kept
  <2>3. Kept
    BY <1>1, <1>6, <2>1, <2>2, TableEffects
  <2>4. UNCHANGED pc \/ pc = "insertAuto"
    BY <1>6 DEF addSongToPlayQ, WebAddSong, WebArrange
  <2>5. ~(MarkOld /\ pc' = pc) /\ (MarkOld => pc = "markOld")
    BY DEF MarkOld
  <2> QED
    BY <2>3, <2>4, <2>5 DEF Kept
<1>7. CASE Control
  <2>1. Kept
    BY <1>1, <1>7, ControlKeepsTable
  <2>2. MarkOld => pc = "markOld" /\ pc' = "endOld"
    BY DEF MarkOld
  <2>3. ~(pc = "markOld" /\ pc' = "endOld")
    BY <1>7 DEF Control, getNextSongRecord, skipToNextAlbum, Call, SetAutomatic,
       getCurrentSongInPlayQ, incrementSongPlayCount, QueryQ, getNextPlayQRecord,
       queryAutomaticSong, zeroAutomaticSongRowOffset,
       incrementAutomaticSongRowOffset, Kill, Restart, vars
  <2> QED
    BY <2>1, <2>2, <2>3
<1> QED
  BY <1>3, <1>4, <1>5, <1>6, <1>7 DEF Next, Player, Control

\* The completion and the count of a row are separate statements: what is
\* pending between them, and what a step makes of it.
LEMMA PendingStep ==
  ASSUME TypeOK, Pointers, Selected, CountsEnded, [Next]_vars, NEW s \in Songs
  PROVE  LET own == IF playq[pQR].songID = s THEN 1 ELSE 0
         IN \/ /\ MarkOld /\ op = "next"
               /\ Pending(s) = 0 /\ Pending(s)' = own
               /\ UNCHANGED <<playCount, crashes>>
            \/ /\ Pending(s) = own /\ Pending(s)' = 0
               /\ \/ errs' = errs /\ playCount'[s] = playCount[s] + own
                  \/ errs' = errs + 1 /\ UNCHANGED playCount
               /\ UNCHANGED crashes
               /\ ~MarkOld
            \/ /\ Pending(s)' = 0
               /\ crashes' = crashes + 1
               /\ UNCHANGED <<playCount, errs>>
               /\ ~MarkOld
            \/ /\ ~(MarkOld /\ op = "next")
               /\ Pending(s)' = Pending(s)
               /\ UNCHANGED <<playCount, crashes>>
<1> DEFINE own == IF playq[pQR].songID = s THEN 1 ELSE 0
<1>1. \A id \in Ids : id \in Ids' /\ playq'[id].songID = playq[id].songID
  BY RowLife DEF Same
<1>2. pc \in OldSteps => pQR \in Ids /\ playq[pQR].songID \in Songs
  BY DEF Pointers, Visible
<1>3. pc \in OldSteps /\ pQR' = pQR => playq'[pQR'].songID = playq[pQR].songID
  BY <1>1, <1>2
<1>4. CASE MarkOld
  <2>1. /\ pc = "markOld" /\ pc' = "endOld" /\ pQR' = pQR /\ op' = op
        /\ UNCHANGED <<playCount, crashes>>
    BY <1>4 DEF MarkOld, locals
  <2>2. playq'[pQR'].songID = playq[pQR].songID
    BY <1>3, <2>1 DEF OldSteps
  <2> QED
    BY <1>4, <2>1, <2>2 DEF Pending, BeingCounted
<1>5. CASE EndOld
  <2>1. /\ pc = "endOld" /\ pc' = IF op = "next" THEN "countOld" ELSE "queryQ"
        /\ pQR' = pQR /\ op' = op
        /\ UNCHANGED <<playCount, crashes>>
    BY <1>5 DEF EndOld, locals
  <2>2. playq'[pQR'].songID = playq[pQR].songID
    BY <1>3, <2>1 DEF OldSteps
  <2>3. ~MarkOld
    BY <2>1 DEF MarkOld
  <2> QED
    BY <2>1, <2>2, <2>3 DEF Pending, BeingCounted
<1>6. CASE incrementSongPlayCount
  <2>1. /\ pc = "countOld" /\ pc' = "queryQ" /\ UNCHANGED crashes /\ op = "next"
    BY <1>6 DEF incrementSongPlayCount, CountsEnded
  <2>2. Pending(s) = own /\ Pending(s)' = 0
    BY <2>1 DEF Pending, BeingCounted
  <2>3. \/ errs' = errs /\ playCount'[s] = playCount[s] + own
        \/ errs' = errs + 1 /\ UNCHANGED playCount
    <3>1. playCount \in [Songs -> Nat]
      BY DEF TypeOK
    <3> QED
      BY <1>6, <3>1 DEF incrementSongPlayCount, Fail
  <2>4. ~MarkOld
    BY <2>1 DEF MarkOld
  <2> QED
    BY <2>1, <2>2, <2>3, <2>4
<1>7. CASE Kill
  <2>1. Pending(s)' = 0
    BY <1>7 DEF Kill, Pending, BeingCounted
  <2> QED
    BY <1>7, <2>1 DEF Kill, tables, MarkOld
<1>8. CASE WebAddSong \/ WebArrange \/ SetAutomatic \/ UNCHANGED vars
  <2>1. UNCHANGED <<pc, op, pQR, playCount, crashes>>
    BY <1>8 DEF WebAddSong, WebArrange, SetAutomatic, vars, locals, tables
  <2>2. pc \in OldSteps => playq'[pQR'].songID = playq[pQR].songID
    BY <1>3, <2>1
  <2>3. Pending(s)' = Pending(s)
    BY <2>1, <2>2 DEF Pending, BeingCounted, OldSteps
  <2>4. ~MarkOld
    BY <2>1 DEF MarkOld
  <2> QED
    BY <2>1, <2>3, <2>4
<1>9. CASE \/ getNextSongRecord \/ skipToNextAlbum \/ Restart
           \/ getCurrentSongInPlayQ \/ QueryQ \/ getNextPlayQRecord
           \/ updatePlayQBeginPlayTime \/ MarkPlaying \/ CancelNext \/ EndNext
           \/ queryAutomaticSong \/ zeroAutomaticSongRowOffset
           \/ incrementAutomaticSongRowOffset \/ addSongToPlayQ
  <2>1. /\ pc \notin {"markOld", "endOld", "countOld"}
        /\ pc' \notin {"endOld", "countOld"}
        /\ UNCHANGED <<playCount, crashes>>
    BY <1>9 DEF getNextSongRecord, skipToNextAlbum, Call, Restart,
       getCurrentSongInPlayQ, QueryQ, getNextPlayQRecord,
       updatePlayQBeginPlayTime, MarkPlaying, CancelNext, EndNext,
       queryAutomaticSong, zeroAutomaticSongRowOffset,
       incrementAutomaticSongRowOffset, addSongToPlayQ, Segv, tables
  <2>2. Pending(s) = 0 /\ Pending(s)' = 0 /\ ~MarkOld
    BY <2>1 DEF Pending, BeingCounted, MarkOld
  <2> QED
    BY <2>1, <2>2
<1> QED
  BY <1>4, <1>5, <1>6, <1>7, <1>8, <1>9 DEF Next, Player

\* Every play is counted once, save what is lost or pending, after every
\* statement.
LEMMA CountsStep ==
  ASSUME TypeOK, Pointers, Selected, CountsHeld, CountsEnded, [Next]_vars
  PROVE  CountsHeld' /\ CountsEnded'
<1>1. CountsEnded'
  BY DEF CountsEnded, Next, Player, getNextSongRecord, skipToNextAlbum, Call,
     SetAutomatic, getCurrentSongInPlayQ, MarkOld, EndOld,
     incrementSongPlayCount, QueryQ, getNextPlayQRecord,
     updatePlayQBeginPlayTime, MarkPlaying, CancelNext, EndNext,
     queryAutomaticSong, zeroAutomaticSongRowOffset,
     incrementAutomaticSongRowOffset, addSongToPlayQ, WebAddSong, WebArrange,
     Kill, Restart, vars, locals, Segv
<1>2. CountsHeld'
  <2> SUFFICES ASSUME NEW s \in Songs
               PROVE  /\ playCount'[s] + Pending(s)'
                           <= Cardinality(CompletedRows(s)') + errs'
                      /\ Cardinality(CompletedRows(s)')
                           <= playCount'[s] + crashes' + errs' + Pending(s)'
    BY DEF CountsHeld
  <2> DEFINE own == IF playq[pQR].songID = s THEN 1 ELSE 0
             done == Cardinality(CompletedRows(s))
             doneNext == Cardinality(CompletedRows(s)')
  <2>1. /\ errs \in Nat /\ crashes \in Nat /\ playCount[s] \in Nat
        /\ Pending(s) \in {0, 1} /\ own \in {0, 1} /\ done \in Nat
        /\ errs' = errs \/ errs' = errs + 1
    BY RowsAreFinite, ErrsGrow DEF TypeOK, Pending
  <2>2. /\ playCount[s] + Pending(s) <= done + errs
        /\ done <= playCount[s] + crashes + errs + Pending(s)
    BY DEF CountsHeld
  <2>3. \/ MarkOld /\ op = "next" /\ errs' = errs /\ doneNext = done + own
        \/ (MarkOld /\ op = "next" => errs' = errs + 1) /\ doneNext = done
    <3>1. CASE /\ MarkOld /\ op = "next" /\ errs' = errs
               /\ pQR \notin CompletedRows(s)
               /\ CompletedRows(s)' = IF playq[pQR].songID = s
                                      THEN CompletedRows(s) \cup {pQR}
                                      ELSE CompletedRows(s)
      <4>1. IsFiniteSet(CompletedRows(s))
        BY RowsAreFinite
      <4>2. Cardinality(CompletedRows(s) \cup {pQR}) = done + 1
        BY <3>1, <4>1, FS_AddElement
      <4>3. doneNext = done + own
        BY <3>1, <4>2, <2>1
      <4> QED
        BY <3>1, <4>3
    <3>2. CASE /\ MarkOld /\ op = "next" => errs' = errs + 1
               /\ CompletedRows(s)' = CompletedRows(s)
      BY <3>2
    <3> QED
      BY <3>1, <3>2, CompletedStep
  <2>4. \/ /\ MarkOld /\ op = "next"
           /\ Pending(s) = 0 /\ Pending(s)' = own
           /\ UNCHANGED <<playCount, crashes>>
        \/ /\ Pending(s) = own /\ Pending(s)' = 0
           /\ \/ errs' = errs /\ playCount'[s] = playCount[s] + own
              \/ errs' = errs + 1 /\ UNCHANGED playCount
           /\ UNCHANGED crashes
           /\ ~MarkOld
        \/ /\ Pending(s)' = 0
           /\ crashes' = crashes + 1
           /\ UNCHANGED <<playCount, errs>>
           /\ ~MarkOld
        \/ /\ ~(MarkOld /\ op = "next")
           /\ Pending(s)' = Pending(s)
           /\ UNCHANGED <<playCount, crashes>>
    BY PendingStep
  <2> HIDE DEF own, done, doneNext
  <2>5. /\ playCount'[s] + Pending(s)' <= doneNext + errs'
        /\ doneNext <= playCount'[s] + crashes' + errs' + Pending(s)'
    <3>1. CASE MarkOld /\ op = "next"
      BY <3>1, <2>1, <2>2, <2>3, <2>4
    <3>2. CASE ~(MarkOld /\ op = "next")
      BY <3>2, <2>1, <2>2, <2>3, <2>4
    <3> QED
      BY <3>1, <3>2
  <2> QED
    BY <2>5 DEF doneNext
<1> QED
  BY <1>1, <1>2

\* Nothing has been queued, played or counted when the program starts.
LEMMA CountInit == Init => CountInv
<1> SUFFICES ASSUME Init PROVE CountInv
  OBVIOUS
<1>1. Len(playq) = 0 /\ Ids = {}
  BY DEF Init, Ids
<1>2. Playing = {} /\ \A s : CompletedRows(s) = {}
  BY <1>1 DEF Playing, WithStatus, CompletedRows
<1>3. Cardinality(Playing) = 0 /\ \A s : Cardinality(CompletedRows(s)) = 0
  BY <1>2, FS_EmptySet
<1>4. \A s \in Songs : Pending(s) = 0 /\ playCount[s] = 0
  BY DEF Init, Pending, BeingCounted
<1>5. errs = 0 /\ crashes = 0 /\ pc = "idle"
  BY DEF Init
<1>6. StaleBounded /\ StaleHeld
  BY <1>3, <1>5 DEF StaleBounded, StaleHeld
<1>7. CountsHeld
  BY <1>3, <1>4, <1>5 DEF CountsHeld
<1>8. CountsEnded
  BY <1>5 DEF CountsEnded
<1> QED
  BY <1>6, <1>7, <1>8 DEF CountInv

(* One failure for every row left playing, one failure, kill or pending    *)
(* statement for every play that MusicDB.cpp has not counted: inductive    *)
(* beside what the pending statements rely on.                             *)
THEOREM CountInductive == Spec => []CountInv
<1>1. IInv /\ CountInv /\ [Next]_vars => CountInv'
  BY StaleStep, CountsStep DEF IInv, CountInv
<1> QED
  BY <1>1, CountInit, Inductive, PTL DEF Spec

(* Later calls of getNextSongRecord and skipToNextAlbum do not multiply    *)
(* the rows that a failed updatePlayQStatus leaves "Currently Playing".    *)
THEOREM StaleRowsBounded == Spec => []StaleBounded
<1>1. CountInv => StaleBounded
  BY DEF CountInv
<1> QED
  BY <1>1, CountInductive, PTL

(* PlayCount follows the completed rows of the song, over failed           *)
(* statements and kills: incrementSongPlayCount counts nothing twice.      *)
THEOREM CountsAgree == Spec => []CountsMatch
<1>1. IInv /\ CountInv => CountsMatch
  <2> SUFFICES ASSUME IInv, CountInv, NEW s \in Songs
               PROVE  LET done == Cardinality(CompletedRows(s))
                      IN /\ playCount[s] <= done + errs
                         /\ done <= playCount[s] + crashes + errs + BeingCounted
    BY DEF CountsMatch
  <2> DEFINE done == Cardinality(CompletedRows(s))
  <2>1. /\ playCount[s] + Pending(s) <= done + errs
        /\ done <= playCount[s] + crashes + errs + Pending(s)
    BY DEF CountInv, CountsHeld
  <2>2. /\ errs \in Nat /\ crashes \in Nat /\ playCount[s] \in Nat
        /\ done \in Nat
    BY RowsAreFinite DEF IInv, TypeOK
  <2>3. Pending(s) \in {0, 1} /\ BeingCounted \in {0, 1} /\ Pending(s) <= BeingCounted
    BY DEF Pending, BeingCounted
  <2> HIDE DEF done
  <2>4. playCount[s] <= done + errs /\ done <= playCount[s] + crashes + errs + BeingCounted
    BY <2>1, <2>2, <2>3
  <2> QED
    BY <2>4 DEF done
<1> QED
  BY <1>1, Inductive, CountInductive, PTL
=============================================================================
