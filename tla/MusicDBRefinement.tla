------------------------- MODULE MusicDBRefinement -------------------------
(* Proof that the tables implement the abstract queue of PlayQueue while   *)
(* no statement fails.                                                     *)
EXTENDS MusicDBProofs

Completed == RowsWith("Completed")
Canceled == RowsWith("Canceled")

\* What the users of the queue see of it.
Seen == <<Len(playq), AutomaticRows, ArrangedRows, InQueue, CurrentRow,
          Completed, Canceled>>

\* The ids of the table tell its length.
LEMMA LengthOfIds ==
  ASSUME playq \in Seq(Row), playq' \in Seq(Row), Ids' = Ids
  PROVE  Len(playq') = Len(playq)
<1>1. Len(playq) \in Nat /\ Len(playq') \in Nat
  BY LenProperties
<1> QED
  BY <1>1 DEF Ids

\* Statements that write neither status nor arrangement are not seen.
LEMMA NotSeen ==
  ASSUME playq \in Seq(Row), playq' \in Seq(Row), Ids' = Ids,
         \A j \in Ids : /\ Same(j)
                        /\ playq'[j].Status = playq[j].Status
                        /\ playq'[j].Arrangement = playq[j].Arrangement
  PROVE  UNCHANGED Seen
<1>1. Len(playq') = Len(playq)
  BY LengthOfIds
<1>2. UNCHANGED <<AutomaticRows, ArrangedRows, InQueue, Playing, Completed, Canceled>>
  BY DEF Same, AutomaticRows, Automatic, ArrangedRows, InQueue, Playing,
     WithStatus, Completed, Canceled, RowsWith
<1>3. UNCHANGED CurrentRow
  BY <1>2 DEF CurrentRow
<1> QED
  BY <1>1, <1>2, <1>3 DEF Seen

\* What updatePlayQStatus shows.
LEMMA StatusSeen ==
  ASSUME playq \in Seq(Row), playq' \in Seq(Row), NEW id \in Ids,
         NEW s \in {"Currently Playing", "Completed", "Canceled"},
         StatusOnly(id, s), playq[id].songID \in Songs
  PROVE  /\ UNCHANGED <<Len(playq), AutomaticRows, ArrangedRows>>
         /\ InQueue' = InQueue \ {id}
         /\ Playing' = IF s = "Currently Playing" THEN Playing \cup {id}
                                                  ELSE Playing \ {id}
         /\ Completed' = IF s = "Completed" THEN Completed \cup {id}
                                            ELSE Completed \ {id}
         /\ Canceled' = IF s = "Canceled" THEN Canceled \cup {id}
                                          ELSE Canceled \ {id}
<1>1. Len(playq') = Len(playq)
  BY LengthOfIds DEF StatusOnly
<1>2. UNCHANGED <<AutomaticRows, ArrangedRows>>
  BY DEF StatusOnly, Same, AutomaticRows, Automatic, ArrangedRows
<1>3. /\ InQueue' = InQueue \ {id}
      /\ Playing' = IF s = "Currently Playing" THEN Playing \cup {id}
                                               ELSE Playing \ {id}
  BY DEF StatusOnly, Same, InQueue, Playing, WithStatus
<1>4. /\ Completed' = IF s = "Completed" THEN Completed \cup {id}
                                         ELSE Completed \ {id}
      /\ Canceled' = IF s = "Canceled" THEN Canceled \cup {id}
                                       ELSE Canceled \ {id}
  BY DEF StatusOnly, Completed, Canceled, RowsWith
<1> QED
  BY <1>1, <1>2, <1>3, <1>4

\* What addSongToPlayQ and the web page's insert show.
LEMMA RowSeen ==
  ASSUME playq \in Seq(Row), playq' \in Seq(Row), NEW song \in Songs,
         NEW type \in RequestTypes, RowAdded(song, type)
  PROVE  /\ Len(playq') = Len(playq) + 1
         /\ AutomaticRows' = IF type = "Automatic"
                             THEN AutomaticRows \cup {Len(playq')}
                             ELSE AutomaticRows
         /\ InQueue' = InQueue \cup {Len(playq')}
         /\ UNCHANGED <<ArrangedRows, CurrentRow, Completed, Canceled>>
<1> DEFINE n == Len(playq) + 1
<1>1. Len(playq) \in Nat /\ Len(playq') \in Nat
  BY LenProperties
<1>2. Len(playq') = n
  BY <1>1 DEF RowAdded, Ids
<1>0. LET r == NewRow(song, type)
      IN /\ r.songID = song /\ r.RequestType = type /\ r.Status = "In Queue"
         /\ r.Arrangement = DefaultArrangement
  BY DEF NewRow
<1>3. /\ Ids' = Ids \cup {n} /\ n \notin Ids
      /\ \A j \in Ids : playq'[j] = playq[j]
      /\ playq'[n].songID = song /\ playq'[n].RequestType = type
      /\ playq'[n].Status = "In Queue"
      /\ playq'[n].Arrangement = DefaultArrangement
  BY <1>0 DEF RowAdded
<1> HIDE DEF n
<1>4. AutomaticRows' = IF type = "Automatic" THEN AutomaticRows \cup {n}
                                             ELSE AutomaticRows
  BY <1>3 DEF AutomaticRows, Automatic
<1>5. InQueue' = InQueue \cup {n} /\ UNCHANGED Playing
  BY <1>3 DEF InQueue, Playing, WithStatus
<1>6. UNCHANGED <<ArrangedRows, Completed, Canceled>>
  BY <1>3 DEF ArrangedRows, Completed, Canceled, RowsWith
<1>7. UNCHANGED CurrentRow
  BY <1>5 DEF CurrentRow
<1> QED
  BY <1>2, <1>4, <1>5, <1>6, <1>7 DEF n

\* No id is the 0 of "no rows".
LEMMA IdsArePositive ==
  ASSUME playq \in Seq(Row), NEW id \in Ids
  PROVE  id \in Int /\ id # 0
<1>1. Len(playq) \in Nat
  BY LenProperties
<1>2. id \in 1 .. Len(playq)
  BY DEF Ids
<1> QED
  BY <1>1, <1>2

\* Nothing plays, or one row does.
LEMMA CurrentOf ==
  /\ Playing = {} => CurrentRow = NoSong
  /\ \A id : Playing = {id} => CurrentRow = id
BY DEF CurrentRow

\* A fetched row is in its turn.
LEMMA FetchedInTurn ==
  ASSUME TypeOK, Pointers, Selected, FetchedInOrder, pc \in FetchedSteps
  PROVE  Queue!InTurn(nextQR) /\ nextQR \in Ids /\ playq[nextQR].songID \in Songs
<1>1. /\ nextQR \in Ids /\ playq[nextQR].songID \in Songs
      /\ playq[nextQR].Status = "In Queue"
  BY DEF Pointers, Selected, Visible
<1>0. playq \in Seq(Row) /\ Len(playq) \in Nat
  BY LenProperties DEF TypeOK
<1>2. nextQR \in InQueue
  BY <1>1 DEF InQueue, WithStatus
<1>3. ASSUME NEW j \in InQueue, j < nextQR,
             j \in AutomaticRows <=> nextQR \in AutomaticRows
      PROVE  j \in ArrangedRows \/ nextQR \in ArrangedRows
  <2>1. j \in Ids
    BY DEF InQueue, WithStatus
  <2>2. playq[j] \in Row /\ playq[nextQR] \in Row
    BY <1>0, <1>1, <2>1, ElementOfSeq DEF Ids
  <2>3. playq[j].RequestType = playq[nextQR].RequestType
    BY <1>1, <1>3, <2>1, <2>2 DEF AutomaticRows, Automatic, Row, RequestTypes
  <2>5. nextQR \in Int /\ j \in Int
    BY <1>0, <1>1, <2>1, IdsArePositive
  <2>4. ~(nextQR <= j)
    BY <1>3, <2>5
  <2> QED
    BY <1>1, <2>1, <2>3, <2>4 DEF FetchedInOrder, ArrangedRows
<1> QED
  BY <1>1, <1>2, <1>3 DEF Queue!InTurn

-----------------------------------------------------------------------------
\* The empty tables are the empty queue.
LEMMA RefinementInit == Init => Queue!Init
<1> SUFFICES ASSUME Init PROVE Queue!Init
  OBVIOUS
<1>1. Len(playq) = 0 /\ Ids = {}
  BY DEF Init, Ids
<1>2. /\ AutomaticRows = {} /\ ArrangedRows = {} /\ InQueue = {} /\ Playing = {}
      /\ RowsWith("Completed") = {} /\ RowsWith("Canceled") = {}
  BY <1>1 DEF AutomaticRows, ArrangedRows, InQueue, Playing, WithStatus, RowsWith
<1> QED
  BY <1>1, <1>2, CurrentOf DEF Queue!Init, Queue!NoRow, NoSong

\* Each statement that succeeds is a step of the queue, or is not seen.
LEMMA RefinementStep ==
  ASSUME IInv, [Next]_vars, errs = 0, errs' = 0
  PROVE  [Queue!Next]_(Queue!vars)
<1> USE DEF Queue!NoRow, NoSong
<1>1. /\ TypeOK /\ Pointers /\ Selected /\ FetchedInOrder /\ Vacant
      /\ NoAutomaticQueued /\ TurnTaken /\ UniqueCurrent
      /\ playq \in Seq(Row) /\ playq' \in Seq(Row) /\ UniqueCurrent'
  BY InductiveStep DEF IInv, TypeOK
<1>2. ASSUME UNCHANGED Seen PROVE UNCHANGED Queue!vars
  BY <1>2 DEF Queue!vars, Seen, Completed, Canceled
<1>3. ~(errs' = errs + 1)
  OBVIOUS
<1>4. ASSUME Untouched PROVE UNCHANGED Queue!vars
  BY <1>1, <1>2, <1>4, NotSeen DEF Untouched, Same
<1>5. CASE EndOld \/ EndNext \/ updatePlayQBeginPlayTime
  <2>1. \E id : EndOnly(id) \/ BeginOnly(id)
    BY <1>1, <1>3, <1>5, TableEffects
  <2> QED
    BY <1>1, <1>2, <2>1, NotSeen DEF EndOnly, BeginOnly
<1>6. CASE MarkOld
  <2> DEFINE s == IF op = "next" THEN "Completed" ELSE "Canceled"
  <2>1. StatusOnly(pQR, s)
    BY <1>1, <1>3, <1>6, TableEffects
  <2>2. /\ pQR \in Ids /\ playq[pQR].songID \in Songs
        /\ playq[pQR].Status = "Currently Playing" /\ Playing \subseteq {pQR}
    BY <1>1, <1>6 DEF MarkOld, Pointers, Selected, Vacant, OldSteps, Visible
  <2>0. pQR # 0
    BY <1>1, <2>2, IdsArePositive
  <2>3. /\ Playing = {pQR} /\ pQR \notin InQueue /\ pQR # 0
        /\ pQR \notin Completed /\ pQR \notin Canceled
    <3>1. pQR \in Playing /\ pQR \notin InQueue
      BY <2>2 DEF Playing, InQueue, WithStatus
    <3>2. pQR \notin Completed /\ pQR \notin Canceled
      BY <2>2 DEF Completed, Canceled, RowsWith
    <3> QED
      BY <2>0, <2>2, <3>1, <3>2
  <2>4. CurrentRow = pQR /\ (Playing \ {pQR} = {})
    BY <2>3, CurrentOf
  <2>5. s \in {"Completed", "Canceled"} /\ s # "Currently Playing"
    OBVIOUS
  <2> HIDE DEF s
  <2>6. /\ UNCHANGED <<Len(playq), AutomaticRows, ArrangedRows>>
        /\ InQueue' = InQueue \ {pQR}
        /\ Playing' = Playing \ {pQR}
        /\ Completed' = IF s = "Completed" THEN Completed \cup {pQR}
                                           ELSE Completed \ {pQR}
        /\ Canceled' = IF s = "Canceled" THEN Canceled \cup {pQR}
                                         ELSE Canceled \ {pQR}
    BY <1>1, <2>1, <2>2, <2>5, StatusSeen
  <2>7. CurrentRow' = 0 /\ InQueue' = InQueue
    BY <2>3, <2>4, <2>6 DEF CurrentRow
  <2>8. CASE s = "Completed"
    <3>1. Completed' = Completed \cup {pQR} /\ Canceled' = Canceled
      BY <2>3, <2>6, <2>8
    <3> QED
      BY <2>3, <2>4, <2>6, <2>7, <3>1
      DEF Queue!Next, Queue!Complete, Completed, Canceled
  <2>9. CASE s = "Canceled"
    <3>1. Canceled' = Canceled \cup {pQR} /\ Completed' = Completed
      BY <2>3, <2>6, <2>9
    <3> QED
      BY <2>3, <2>4, <2>6, <2>7, <3>1
      DEF Queue!Next, Queue!Cancel, Completed, Canceled
  <2> QED
    BY <2>5, <2>8, <2>9
<1>7. CASE MarkPlaying \/ CancelNext
  <2> DEFINE s == IF pc = "markPlaying" THEN "Currently Playing" ELSE "Canceled"
  <2>1. pc \in FetchedSteps /\ StatusOnly(nextQR, s)
    <3>1. CASE MarkPlaying
      BY <1>1, <1>3, <3>1, TableEffects DEF MarkPlaying, FetchedSteps
    <3>2. CASE CancelNext
      BY <1>1, <1>3, <3>2, TableEffects DEF CancelNext, FetchedSteps
    <3> QED
      BY <1>7, <3>1, <3>2
  <2>2. /\ Queue!InTurn(nextQR) /\ nextQR \in Ids /\ playq[nextQR].songID \in Songs
        /\ nextQR \in InQueue /\ playq[nextQR].Status = "In Queue"
    BY <1>1, <2>1, FetchedInTurn DEF Queue!InTurn, Selected
  <2>3. /\ Playing = {} /\ CurrentRow = 0
        /\ nextQR \notin Completed /\ nextQR \notin Canceled
    BY <1>1, <2>1, <2>2, CurrentOf
    DEF Vacant, AfterOld, Completed, Canceled, RowsWith
  <2>4. s \in {"Currently Playing", "Canceled"}
    OBVIOUS
  <2> HIDE DEF s
  <2>5. /\ UNCHANGED <<Len(playq), AutomaticRows, ArrangedRows>>
        /\ InQueue' = InQueue \ {nextQR}
        /\ Playing' = IF s = "Currently Playing" THEN Playing \cup {nextQR}
                                                 ELSE Playing \ {nextQR}
        /\ Completed' = IF s = "Completed" THEN Completed \cup {nextQR}
                                           ELSE Completed \ {nextQR}
        /\ Canceled' = IF s = "Canceled" THEN Canceled \cup {nextQR}
                                         ELSE Canceled \ {nextQR}
    BY <1>1, <2>1, <2>2, <2>4, StatusSeen
  <2>6. CASE s = "Currently Playing"
    <3>1. Playing' = {nextQR} /\ UNCHANGED <<Completed, Canceled>>
      BY <2>3, <2>5, <2>6
    <3>2. CurrentRow' = nextQR
      BY <3>1 DEF CurrentRow
    <3> QED
      BY <2>2, <2>3, <2>5, <3>1, <3>2
      DEF Queue!Next, Queue!Start, Completed, Canceled
  <2>7. CASE s = "Canceled"
    <3>1. /\ Playing' = {} /\ UNCHANGED Completed
          /\ Canceled' = Canceled \cup {nextQR}
      BY <2>3, <2>5, <2>7
    <3>2. CurrentRow' = 0
      BY <3>1 DEF CurrentRow
    <3> QED
      BY <2>2, <2>3, <2>5, <3>1, <3>2
      DEF Queue!Next, Queue!Drop, Completed, Canceled
  <2> QED
    BY <2>4, <2>6, <2>7
<1>8. CASE addSongToPlayQ
  <2>1. RowAdded(pick, "Automatic") /\ pc = "insertAuto"
    BY <1>1, <1>3, <1>8, TableEffects DEF addSongToPlayQ
  <2>2. pick \in Songs
    BY <1>1, <2>1, ConstantsAssumption, ElementOfSeq
    DEF TurnTaken, ConstantsAssumption
  <2>3. CurrentRow = 0 /\ InQueue \cap AutomaticRows = {}
    BY <1>1, <2>1, CurrentOf
    DEF Vacant, AfterOld, AutoSteps, NoAutomaticQueued, AutomaticRows
  <2> QED
    BY <1>1, <2>1, <2>2, <2>3, RowSeen
    DEF RequestTypes, Queue!Next, Queue!Choose, Completed, Canceled
<1>9. CASE WebAddSong
  <2>1. PICK song \in Songs : RowAdded(song, "Request")
    BY <1>1, <1>9, TableEffects
  <2> QED
    BY <1>1, <2>1, RowSeen
    DEF RequestTypes, Queue!Next, Queue!Request, Completed, Canceled
<1>10. CASE WebArrange
  <2>1. PICK id \in Ids, p \in Positions : ArrangementOnly(id, p)
    BY <1>1, <1>10, TableEffects
  <2>2. p # DefaultArrangement
    BY ConstantsAssumption DEF ConstantsAssumption
  <2>3. Len(playq') = Len(playq)
    BY <1>1, <2>1, LengthOfIds DEF ArrangementOnly
  <2>4. ArrangedRows' = ArrangedRows \cup {id}
    BY <2>1, <2>2 DEF ArrangementOnly, ArrangedRows
  <2>5. UNCHANGED <<AutomaticRows, InQueue, Playing, Completed, Canceled>>
    BY <2>1 DEF ArrangementOnly, Same, AutomaticRows, Automatic, InQueue, Playing,
       WithStatus, Completed, Canceled, RowsWith
  <2>6. UNCHANGED CurrentRow
    BY <2>5 DEF CurrentRow
  <2>7. id \in 1 .. Len(playq)
    BY <2>1 DEF Ids
  <2> QED
    BY <2>3, <2>4, <2>5, <2>6, <2>7
    DEF Queue!Next, Queue!Arrange, Completed, Canceled
<1>11. CASE Control
  BY <1>1, <1>4, <1>11, ControlKeepsTable
<1> QED
  BY <1>5, <1>6, <1>7, <1>8, <1>9, <1>10, <1>11 DEF Next, Player, Control

(* While no statement fails, the tables, with all the statements between   *)
(* and all the kills, are the abstract queue: songs start and are dropped  *)
(* in their turn, one at a time, each ends in one way, and the player adds *)
(* a song of its own only when none of these waits.                        *)
THEOREM Refines == MaxErrors = 0 => (Spec => ImplementsPlayQueue)
<1> SUFFICES ASSUME MaxErrors = 0 PROVE Spec => ImplementsPlayQueue
  OBVIOUS
<1> DEFINE Succeeds == errs = 0
<1>1. Init => Succeeds
  BY DEF Init
<1>2. IInv /\ Succeeds /\ [Next]_vars => Succeeds'
  <2> SUFFICES ASSUME IInv, Succeeds, [Next]_vars PROVE Succeeds'
    OBVIOUS
  <2>1. ~Fail
    BY DEF Fail
  <2> QED
    BY <2>1 DEF Next, Player, getNextSongRecord, skipToNextAlbum, Call,
       SetAutomatic, getCurrentSongInPlayQ, MarkOld, EndOld,
       incrementSongPlayCount, QueryQ, getNextPlayQRecord,
       updatePlayQBeginPlayTime, MarkPlaying, CancelNext, EndNext, Update,
       queryAutomaticSong, zeroAutomaticSongRowOffset,
       incrementAutomaticSongRowOffset, addSongToPlayQ, WebAddSong,
       WebArrange, Kill, Restart, vars
<1>3. IInv /\ Succeeds /\ [Next]_vars => [Queue!Next]_(Queue!vars)
  BY <1>2, RefinementStep
<1> HIDE DEF Succeeds
<1>4. Spec => []Succeeds
  BY <1>1, <1>2, Inductive, PTL DEF Spec
<1>5. Spec => Queue!Init /\ [][Queue!Next]_(Queue!vars)
  BY <1>2, <1>3, <1>4, RefinementInit, Inductive, PTL DEF Spec
<1> QED
  BY <1>5 DEF ImplementsPlayQueue, Queue!Spec
=============================================================================
