-------------------------- MODULE RAOPSenderProofs --------------------------
(***************************************************************************)
(* Proofs about module RAOPSender, for every size, number of songs and     *)
(* number of failures.                                                     *)
(***************************************************************************)
EXTENDS RAOPSender, TLAPS

\* Every write of the callbacks, or none, keeps the invariant's parts.
LEMMA WriteKeeps ==
  ASSUME IInv, fd_event_callback, remsize > 0,
         UNCHANGED <<song, index, buf, size, data, errs>>,
         loc # "send", loc' # "send", loc' \in Locs, playMode' = playMode,
         writable' \in BOOLEAN, UNCHANGED commands
  PROVE  IInv'
<1> USE ConstantsAssumption
<1>1. CASE WriteFails
  BY <1>1 DEF WriteFails, IInv, TypeOK, FlagsTellPending, PacketAccounted,
     Order, IsNext, Fresh
<1>2. ASSUME NEW i \in Nat \ {0}, i <= remsize, Write(i) PROVE IInv'
  <2>1. TypeOK'
    BY <1>2 DEF IInv, TypeOK, Write, ChunkSet
  <2>2. FlagsTellPending'
    BY <1>2 DEF IInv, TypeOK, Write, FlagsTellPending
  <2>3. PacketAccounted'
    BY <1>2 DEF IInv, TypeOK, Write, PacketAccounted
  <2>4. Order'
    <3>1. CASE remsize' > 0
      BY <1>2, <3>1 DEF IInv, TypeOK, Write, Order, IsNext, Fresh, ChunkSet
    <3>2. CASE remsize' = 0
      BY <1>2, <3>2 DEF IInv, TypeOK, Write, Order, IsNext, Fresh, ChunkSet
    <3> QED BY <2>1, <3>1, <3>2 DEF TypeOK
  <2> QED BY <2>1, <2>2, <2>3, <2>4 DEF IInv
<1>3. CASE WritesAll
  BY <1>2, <1>3 DEF WritesAll, IInv, TypeOK
<1>4. CASE \E i \in Partial : i < remsize /\ Write(i)
  BY <1>2, <1>4 DEF IInv, TypeOK
<1> QED BY <1>1, <1>3, <1>4 DEF fd_event_callback

\* No write, and no change of the packet.
LEMMA NoWriteKeeps ==
  ASSUME IInv, UNCHANGED <<song, index, buf, size, data, errs>>, WriteFails,
         loc # "send", loc' # "send", loc' \in Locs,
         playMode' \in {"play", "nextsong", "quit"},
         writable' \in BOOLEAN, commands' \in Nat
  PROVE  IInv'
BY DEF IInv, WriteFails, TypeOK, FlagsTellPending, PacketAccounted, Order,
   IsNext, Fresh

\* The sender begins in the invariant.
LEMMA InitEstablishes == Init => IInv
<1> SUFFICES ASSUME Init PROVE IInv
  OBVIOUS
<1>1. Junk \in ChunkSet /\ Junk.song = 0 /\ Junk.index = 0
  BY DEF Junk, Chunk, ChunkSet
<1>2. TypeOK
  BY <1>1 DEF Init, TypeOK, Locs
<1>3. Order
  BY <1>1 DEF Init, Order, IsNext, Fresh
<1> QED BY <1>2, <1>3 DEF Init, IInv, FlagsTellPending, PacketAccounted

\* Every step keeps the invariant.
LEMMA StepKeeps == IInv /\ [Next]_vars => IInv'
<1> SUFFICES ASSUME IInv, [Next]_vars PROVE IInv'
  OBVIOUS
<1> USE ConstantsAssumption
<1>1. CASE PlaySong
  <2>1. TypeOK'
    BY <1>1 DEF PlaySong, IInv, TypeOK, packet, Junk, Chunk, Locs, ChunkSet
  <2>2. Order'
    BY <1>1 DEF PlaySong, IInv, TypeOK, Order, IsNext, Fresh, packet, Junk,
       Chunk, ChunkSet
  <2> QED BY <1>1, <2>1, <2>2 DEF PlaySong, IInv, FlagsTellPending,
       PacketAccounted, packet
<1>2. CASE GetNextSample
  <2>1. TypeOK'
    BY <1>2 DEF GetNextSample, IInv, TypeOK, packet, Chunk, Locs, ChunkSet
  <2>2. Order'
    BY <1>2 DEF GetNextSample, IInv, TypeOK, Order, IsNext, Fresh, packet,
       Chunk, ChunkSet
  <2> QED BY <1>2, <2>1, <2>2 DEF GetNextSample, IInv, FlagsTellPending,
       PacketAccounted, packet
<1>3. CASE EndOfFile
  <2>1. TypeOK'
    BY <1>3 DEF EndOfFile, IInv, TypeOK, packet, Chunk, Locs, ChunkSet
  <2>2. Order'
    BY <1>3 DEF EndOfFile, IInv, TypeOK, Order, IsNext, Fresh, packet, Chunk,
       ChunkSet
  <2> QED BY <1>3, <2>1, <2>2 DEF EndOfFile, IInv, FlagsTellPending,
       PacketAccounted, packet
<1>4. CASE UnknownType
  <2>1. TypeOK'
    BY <1>4 DEF UnknownType, IInv, TypeOK, packet, locals, Locs
  <2>2. Order'
    BY <1>4 DEF UnknownType, IInv, TypeOK, Order, IsNext, Fresh, packet,
       locals, ChunkSet
  <2> QED BY <1>4, <2>1, <2>2 DEF UnknownType, IInv, FlagsTellPending,
       PacketAccounted, packet, locals
<1>5. CASE Resend
  <2>1. TypeOK'
    BY <1>5 DEF Resend, IInv, TypeOK, packet, locals, Locs
  <2>2. Order'
    BY <1>5 DEF Resend, IInv, TypeOK, Order, IsNext, Fresh, packet, locals
  <2> QED BY <1>5, <2>1, <2>2 DEF Resend, IInv, FlagsTellPending,
       PacketAccounted, packet, locals
<1>6. CASE EventHandler
  BY <1>6, NoWriteKeeps DEF EventHandler, packet, locals, WriteFails, IInv,
     TypeOK, Locs
<1>7. CASE EndSong
  BY <1>7, NoWriteKeeps DEF EndSong, packet, locals, WriteFails, IInv,
     TypeOK, Locs
<1>8. CASE SendSample
  <2>1. TypeOK' /\ FlagsTellPending' /\ PacketAccounted'
    BY <1>8 DEF SendSample, IInv, TypeOK, FlagsTellPending, PacketAccounted,
       locals, Locs
  <2>2. Order'
    BY <1>8 DEF SendSample, IInv, TypeOK, Order, IsNext, Fresh, locals
  <2> QED BY <2>1, <2>2 DEF IInv
<1>9. CASE SendSampleFails
  BY <1>9 DEF SendSampleFails, IInv, TypeOK, FlagsTellPending,
     PacketAccounted, Order, packet, locals, Locs
<1>10. CASE SendSampleCrashes
  <2>1. Order'
    BY <1>10 DEF SendSampleCrashes, IInv, TypeOK, Order, IsNext, Fresh,
       packet, locals, Junk, Chunk
  <2> QED BY <1>10, <2>1 DEF SendSampleCrashes, IInv, TypeOK,
       FlagsTellPending, PacketAccounted, packet, locals, Locs
<1>11. CASE Select
  BY <1>11, NoWriteKeeps DEF Select, packet, locals, WriteFails, IInv,
     TypeOK, Locs
<1>12. CASE ReadStatus
  <2>1. CASE remsize > 0
    BY <1>12, <2>1, WriteKeeps DEF ReadStatus, locals, IInv, TypeOK, Locs
  <2>2. CASE ~(remsize > 0)
    BY <1>12, <2>2, NoWriteKeeps DEF ReadStatus, locals, IInv, TypeOK, Locs
  <2> QED BY <2>1, <2>2
<1>13. CASE ReadFails
  BY <1>13, NoWriteKeeps DEF ReadFails, packet, locals, WriteFails, IInv,
     TypeOK, Locs
<1>14. CASE ReadEnds
  BY <1>14, NoWriteKeeps DEF ReadEnds, packet, locals, WriteFails, IInv,
     TypeOK, Locs
<1>15. CASE WriteTest
  <2>1. CASE writable /\ "WRITE" \in FDflags
    <3>1. remsize > 0
      BY <2>1 DEF IInv, FlagsTellPending
    <3> QED BY <1>15, <2>1, <3>1, WriteKeeps
         DEF WriteTest, locals, IInv, TypeOK, Locs
  <2>2. CASE ~(writable /\ "WRITE" \in FDflags)
    BY <1>15, <2>2, NoWriteKeeps DEF WriteTest, locals, IInv, TypeOK, Locs
  <2> QED BY <2>1, <2>2
<1>16. CASE UNCHANGED vars
  BY <1>16 DEF vars, IInv, TypeOK, FlagsTellPending, PacketAccounted, Order,
     IsNext, Fresh
<1> QED
  BY <1>1, <1>2, <1>3, <1>4, <1>5, <1>6, <1>7, <1>8, <1>9, <1>10, <1>11,
     <1>12, <1>13, <1>14, <1>15, <1>16 DEF Next

\* The invariant of the sending side holds in every state of PlaySong,
\* SendSample and the select loop.
THEOREM Inductive == Spec => []IInv
BY InitEstablishes, StepKeeps, PTL DEF Spec

\* The locals of PlaySong and the packet's counters keep their types.
THEOREM TypeCorrect == Spec => []TypeOK
<1>1. IInv => TypeOK
  BY DEF IInv
<1> QED BY <1>1, Inductive, PTL

\* The stream is watched for writing exactly while bytes wait, so that
\* fd_event_callback is never called with remsize = 0.
THEOREM FlagsAgree == Spec => []FlagsTellPending
<1>1. IInv => FlagsTellPending
  BY DEF IInv
<1> QED BY <1>1, Inductive, PTL

\* The writes of fd_event_callback stay inside the packet SendSample built.
THEOREM CountersAgree == Spec => []PacketAccounted
<1>1. IInv => PacketAccounted
  BY DEF IInv
<1> QED BY <1>1, Inductive, PTL

\* The chunks GetNextSample reads are written in order, none left out and
\* none twice, and the end of the file after them.
THEOREM ChunksInOrder == Spec => SamplesInOrder
<1>1. IInv /\ [Next]_vars =>
        (errs = 0 /\ remsize > 0 /\ remsize' = 0 /\ data.chunk.song = song =>
           IF data.chunk.index > 0 THEN data.chunk.index = heard + 1
                                   ELSE heard = index)
  BY DEF IInv, Order, IsNext
<1>2. IInv /\ [Next]_vars =>
        [errs = 0 /\ remsize > 0 /\ remsize' = 0 /\ data.chunk.song = song =>
           IF data.chunk.index > 0 THEN data.chunk.index = heard + 1
                                   ELSE heard = index]_vars
  BY <1>1
<1> QED BY <1>2, Inductive, PTL DEF Spec, SamplesInOrder
=============================================================================
