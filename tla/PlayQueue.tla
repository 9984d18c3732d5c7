------------------------------ MODULE PlayQueue ------------------------------
(***************************************************************************)
(* What the play queue promises: songs wait, one at a time plays, and each *)
(* ends up completed or canceled.  Nothing is said of statements, of the   *)
(* times and counts they write, or of the process that may die between     *)
(* them; MusicDB shows that its tables keep this promise.                  *)
(***************************************************************************)
EXTENDS Integers

VARIABLES
  rows,       \* songs ever queued, numbered in the order they came
  automatic,  \* those the player has chosen itself
  arranged,   \* those the web page has given a place
  waiting,
  current,    \* the song that plays, or NoRow
  completed, canceled

vars == <<rows, automatic, arranged, waiting, current, completed, canceled>>

NoRow == 0

Init ==
  /\ rows = 0 /\ automatic = {} /\ arranged = {}
  /\ waiting = {} /\ current = NoRow
  /\ completed = {} /\ canceled = {}

\* No song of its kind that has come before it waits, unless one was arranged.
InTurn(id) ==
  /\ id \in waiting
  /\ \A j \in waiting :
       j < id /\ (j \in automatic <=> id \in automatic)
         => j \in arranged \/ id \in arranged

Request ==
  /\ rows' = rows + 1
  /\ waiting' = waiting \cup {rows'}
  /\ UNCHANGED <<automatic, arranged, current, completed, canceled>>

\* The player chooses a song when nothing plays and no choice of its own waits.
Choose ==
  /\ current = NoRow /\ waiting \cap automatic = {}
  /\ rows' = rows + 1
  /\ waiting' = waiting \cup {rows'}
  /\ automatic' = automatic \cup {rows'}
  /\ UNCHANGED <<arranged, current, completed, canceled>>

Arrange ==
  /\ \E id \in 1 .. rows : arranged' = arranged \cup {id}
  /\ UNCHANGED <<rows, automatic, waiting, current, completed, canceled>>

Start ==
  /\ current = NoRow
  /\ \E id \in waiting :
       /\ InTurn(id)
       /\ current' = id
       /\ waiting' = waiting \ {id}
  /\ UNCHANGED <<rows, automatic, arranged, completed, canceled>>

Complete ==
  /\ current # NoRow
  /\ completed' = completed \cup {current}
  /\ current' = NoRow
  /\ UNCHANGED <<rows, automatic, arranged, waiting, canceled>>

Cancel ==
  /\ current # NoRow
  /\ canceled' = canceled \cup {current}
  /\ current' = NoRow
  /\ UNCHANGED <<rows, automatic, arranged, waiting, completed>>

\* A song is left out with the album it is of.
Drop ==
  /\ current = NoRow
  /\ \E id \in waiting :
       /\ InTurn(id)
       /\ canceled' = canceled \cup {id}
       /\ waiting' = waiting \ {id}
  /\ UNCHANGED <<rows, automatic, arranged, current, completed>>

Next == Request \/ Choose \/ Arrange \/ Start \/ Complete \/ Cancel \/ Drop

Spec == Init /\ [][Next]_vars

=============================================================================
