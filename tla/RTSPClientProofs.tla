-------------------------- MODULE RTSPClientProofs --------------------------
(***************************************************************************)
(* Proofs about module RTSPClient, for every number of connections and     *)
(* volume commands and every set of headers.                               *)
(***************************************************************************)
EXTENDS RTSPClient, SequenceTheorems, TLAPS

-----------------------------------------------------------------------------
(* The lines in the socket.                                                *)

\* A line taken off the inbox leaves the others as they are.
LEMMA TailFacts ==
  ASSUME inbox \in Seq(Lines), inbox # <<>>
  PROVE  /\ Head(inbox) \in Lines /\ Head(inbox) = inbox[1]
         /\ Tail(inbox) \in Seq(Lines)
         /\ Len(inbox) \in Nat \ {0} /\ Len(Tail(inbox)) = Len(inbox) - 1
         /\ \A i \in 1 .. Len(inbox) - 1 : Tail(inbox)[i] = inbox[i + 1]
BY HeadTailProperties, LenProperties, ElementOfSeq, EmptySeq

\* A line that a timeout cuts keeps its answer, and becomes no "ok".
LEMMA LateFacts ==
  ASSUME inbox \in Seq(Lines), NEW l \in Late
  PROVE  /\ l \in Seq(Lines) /\ Len(l) = Len(inbox)
         /\ \A i \in 1 .. Len(l) :
              /\ l[i].cseq = inbox[i].cseq
              /\ l[i].kind = "ok" => inbox[i].kind = "ok"
<1>1. CASE l = inbox
  BY <1>1
<1>2. CASE l # inbox
  <2>1. inbox # <<>> /\ \E k \in Cut(Head(inbox).kind) :
          l = <<Line(k, Head(inbox).cseq)>> \o Tail(inbox)
    BY <1>2 DEF Late
  <2>2. PICK k \in Cut(Head(inbox).kind) :
          l = <<Line(k, Head(inbox).cseq)>> \o Tail(inbox)
    BY <2>1
  <2>3. /\ Head(inbox) \in Lines /\ Head(inbox) = inbox[1]
        /\ Tail(inbox) \in Seq(Lines)
        /\ Len(inbox) \in Nat \ {0} /\ Len(Tail(inbox)) = Len(inbox) - 1
        /\ \A i \in 1 .. Len(inbox) - 1 : Tail(inbox)[i] = inbox[i + 1]
    BY <2>1, TailFacts
  <2>4. /\ k \in HeaderKinds \cup {"ok", "error", "word", "blank"}
        /\ k = "ok" => Head(inbox).kind = "ok"
    BY <2>2, <2>3 DEF Cut, HeaderKinds, Lines
  <2> DEFINE h == Line(k, Head(inbox).cseq)
  <2>5. h \in Lines /\ h.kind = k /\ h.cseq = inbox[1].cseq
    BY <2>3, <2>4 DEF Line, Lines
  <2> HIDE DEF h
  <2>6. /\ <<h>> \in Seq(Lines) /\ Len(<<h>>) = 1 /\ <<h>>[1] = h
    BY <2>5
  <2>7. /\ l \in Seq(Lines) /\ Len(l) = Len(inbox)
        /\ l[1] = h /\ \A i \in 2 .. Len(l) : l[i] = Tail(inbox)[i - 1]
    BY <2>2, <2>3, <2>6, ConcatProperties DEF h
  <2>8. \A i \in 2 .. Len(l) : l[i] = inbox[i]
    BY <2>3, <2>7
  <2>9. ASSUME NEW i \in 1 .. Len(l)
        PROVE  l[i].cseq = inbox[i].cseq /\ (l[i].kind = "ok" => inbox[i].kind = "ok")
    <3>1. CASE i = 1
      BY <2>3, <2>4, <2>5, <2>7, <3>1
    <3>2. CASE i # 1
      BY <2>7, <2>3, <2>8, <3>2
    <3> QED BY <3>1, <3>2
  <2> QED BY <2>7, <2>9
<1> QED BY <1>1, <1>2

\* An answer is a status and what belongs to it, all of one request.
LEMMA AnswerFacts ==
  ASSUME NEW status \in {"ok", "error", "word"}, NEW hs \in HeaderLists, NEW n \in Nat
  PROVE  /\ Answer(status, hs, n) \in Seq(Lines)
         /\ \A i \in 1 .. Len(Answer(status, hs, n)) :
              /\ Answer(status, hs, n)[i].cseq = n
              /\ Answer(status, hs, n)[i].kind = "ok" => i = 1
<1>1. hs \in Seq(HeaderKinds \cup {"word"}) /\ Len(hs) \in Nat
  BY ConstantsAssumption, LenProperties DEF ConstantsAssumption
<1> DEFINE a == Answer(status, hs, n)
           kind(i) == IF i = 1 THEN status
                      ELSE IF i = Len(hs) + 2 THEN "blank" ELSE hs[i - 1]
<1>2. ASSUME NEW i \in 1 .. Len(hs) + 2
      PROVE  /\ kind(i) \in HeaderKinds \cup {"ok", "error", "word", "blank"}
             /\ kind(i) = "ok" => i = 1
  <2>1. i # 1 /\ i # Len(hs) + 2 => i - 1 \in 1 .. Len(hs)
    BY <1>1
  <2>2. i # 1 /\ i # Len(hs) + 2 => hs[i - 1] \in HeaderKinds \cup {"word"}
    BY <1>1, <2>1, ElementOfSeq
  <2> QED BY <2>2 DEF HeaderKinds
<1>3. a = [i \in 1 .. Len(hs) + 2 |-> Line(kind(i), n)]
  BY DEF Answer
<1> HIDE DEF kind, a
<1>4. \A i \in 1 .. Len(hs) + 2 : Line(kind(i), n) \in Lines
  BY <1>2 DEF Line, Lines
<1>5. a \in Seq(Lines) /\ Len(a) = Len(hs) + 2
  BY <1>1, <1>3, <1>4
<1>6. \A i \in 1 .. Len(a) : a[i].cseq = n /\ a[i].kind = kind(i)
  BY <1>3, <1>5 DEF Line
<1> QED BY <1>2, <1>5, <1>6 DEF a

\* What Setup looks up is of an answer it has read.
LEMMA ValueFacts ==
  ASSUME NEW hs \in SUBSET Lines
  PROVE  /\ Value(hs) \in Nat
         /\ Value(hs) # None => \E h \in hs : Value(hs) = h.cseq
BY DEF Value, Lines, None

-----------------------------------------------------------------------------
(* The steps.                                                              *)

\* The client begins in the invariant.
LEMMA InitEstablishes == Init => IInv
<1> SUFFICES ASSUME Init PROVE IInv
  OBVIOUS
<1>1. TypeOK
  <2>1. inbox \in Seq(Lines) /\ pending \in Seq(Nat) /\ Len(inbox) = 0
    BY DEF Init
  <2> QED
    BY <2>1 DEF Init, TypeOK, Pcs, Cmds, None, NoExtraHeaders
<1> QED
  BY <1>1 DEF Init, IInv, LinkHeld, Counted, Named, HeadersHeld, OnlyOwnOk,
     Shaking, Asking, InSession, Handshake

\* The handshake begins with nothing of an earlier connection in the socket.
LEMMA ConnectKeeps == IInv /\ Connect => IInv'
<1> SUFFICES ASSUME IInv, Connect PROVE IInv'
  OBVIOUS
<1>1. /\ pc = "closed" /\ link = "none" /\ inbox = <<>> /\ pending = <<>>
      /\ exthds = NoExtraHeaders /\ pc' = "send" /\ cmd' = "ANNOUNCE"
      /\ base' = cseq /\ link' \in {"open", "refused", "none"}
      /\ exthds' = [h \in ExtraHeaders |-> exthds[h] + 1]
      /\ UNCHANGED <<inbox, pending, cseq, session, server_port, rkd, volumes>>
      /\ connects' = connects + 1
  BY DEF IInv, LinkHeld, HeadersHeld, Connect, Request, Sockets
<1>2. TypeOK'
  BY <1>1 DEF IInv, TypeOK, Pcs, Cmds, Handshake
<1>3. LinkHeld' /\ Named' /\ OnlyOwnOk'
  BY <1>1 DEF LinkHeld, Named, OnlyOwnOk, Shaking, Asking, InSession, Handshake
<1>4. Counted'
  BY <1>1 DEF IInv, TypeOK, Counted, Nth, Shaking, Asking, InSession
<1>5. HeadersHeld'
  BY <1>1 DEF HeadersHeld, NoExtraHeaders, ExtraHeaders, Shaking, Asking
<1> QED
  BY <1>2, <1>3, <1>4, <1>5 DEF IInv

\* A new volume begins a request.
LEMMA UpdateVolumeKeeps == IInv /\ UpdateVolume => IInv'
<1> SUFFICES ASSUME IInv, UpdateVolume PROVE IInv'
  OBVIOUS
<1>1. /\ pc \in {"session", "closed"} /\ pc' = "send" /\ cmd' = "SET_PARAMETER"
      /\ volumes' = volumes + 1
      /\ UNCHANGED <<link, inbox, pending, cseq, session, server_port, exthds,
                     rkd, base, connects>>
  BY DEF UpdateVolume, Request, members
<1>2. TypeOK'
  BY <1>1 DEF IInv, TypeOK, Pcs, Cmds
<1>3. link = "none" <=> pc = "closed"
  BY <1>1 DEF IInv, LinkHeld
<1> QED
  BY <1>1, <1>2, <1>3 DEF IInv, LinkHeld, Counted, Named, HeadersHeld, OnlyOwnOk,
     Shaking, Asking, InSession, Handshake

\* A request is written only when no "ok" is unread.
LEMMA SendKeeps == IInv /\ Send => IInv'
<1> SUFFICES ASSUME IInv, Send PROVE IInv'
  OBVIOUS
<1>1. /\ pc = "send" /\ pc' = "status" /\ cseq' = cseq + 1
      /\ pending' = IF link = "open" THEN Append(pending, cseq') ELSE pending
      /\ UNCHANGED <<cmd, link, inbox, session, server_port, exthds, rkd, base,
                     connects, volumes>>
      /\ cseq \in Nat /\ pending \in Seq(Nat) /\ base \in Nat
  BY DEF Send, members, counters, IInv, TypeOK
<1>2. /\ pending' \in Seq(Nat)
      /\ \A i \in 1 .. Len(pending') :
           pending'[i] = cseq' \/ (i \in 1 .. Len(pending) /\ pending'[i] = pending[i])
      /\ pending = <<>> => Len(pending') <= 1
      /\ link # "open" => pending' = pending
  BY <1>1, AppendProperties, LenProperties
<1>3. TypeOK'
  BY <1>1, <1>2 DEF IInv, TypeOK, Pcs
<1>4. LinkHeld' /\ Named' /\ HeadersHeld'
  BY <1>1, <1>2 DEF IInv, LinkHeld, Named, HeadersHeld, Shaking, Asking, InSession
<1>5. Counted'
  BY <1>1 DEF IInv, Counted, Shaking, Asking, InSession, Nth
<1>6. OnlyOwnOk'
  BY <1>1, <1>2 DEF IInv, OnlyOwnOk, Counted, Shaking, Asking, InSession, Handshake
<1> QED
  BY <1>3, <1>4, <1>5, <1>6 DEF IInv

\* The status that is taken is the request's own, and all of the rest is too.
LEMMA StatusOkKeeps == IInv /\ StatusOk => IInv' /\ (cmd \in Handshake => Head(inbox).cseq = cseq)
<1> SUFFICES ASSUME IInv, StatusOk
             PROVE  IInv' /\ (cmd \in Handshake => Head(inbox).cseq = cseq)
  OBVIOUS
<1>1. /\ pc = "status" /\ pc' = "headers" /\ inbox # <<>>
      /\ Head(inbox).kind = "ok" /\ inbox' = Tail(inbox) /\ rkd' = {}
      /\ UNCHANGED <<cmd, link, pending, cseq, session, server_port, exthds,
                     base, connects, volumes>>
      /\ inbox \in Seq(Lines)
  BY DEF StatusOk, StatusIs, members, counters, IInv, TypeOK
<1>2. /\ Head(inbox) = inbox[1] /\ Len(inbox) \in Nat \ {0}
      /\ inbox' \in Seq(Lines) /\ Len(inbox') = Len(inbox) - 1
      /\ \A i \in 1 .. Len(inbox') : i + 1 \in 1 .. Len(inbox) /\ inbox'[i] = inbox[i + 1]
  BY <1>1, TailFacts
<1>3. TypeOK'
  BY <1>1, <1>2 DEF IInv, TypeOK, Pcs
<1>4. LinkHeld' /\ Counted' /\ Named' /\ HeadersHeld'
  BY <1>1 DEF IInv, TypeOK, LinkHeld, Counted, Named, HeadersHeld, Shaking, Asking,
     InSession
<1>5. ASSUME cmd \in Handshake
      PROVE  /\ pending = <<>> /\ Head(inbox).cseq = cseq
             /\ \A j \in 1 .. Len(inbox) : /\ inbox[j].cseq = cseq
                                           /\ inbox[j].kind = "ok" => j = 1
  BY <1>1, <1>2, <1>5 DEF IInv, OnlyOwnOk, Shaking, Asking
<1>6. OnlyOwnOk'
  <2>1. CASE cmd \in Handshake
    <3>1. \A i \in 1 .. Len(inbox') : inbox'[i].cseq = cseq /\ inbox'[i].kind # "ok"
      BY <1>2, <1>5, <2>1
    <3> QED
      BY <1>1, <1>5, <2>1, <3>1
      DEF OnlyOwnOk, Shaking, Asking, InSession, Handshake
  <2>2. CASE cmd \notin Handshake
    <3>1. InSession => \A i \in 1 .. Len(inbox') : inbox'[i].cseq > base + 2
      BY <1>2 DEF IInv, OnlyOwnOk
    <3> QED
      BY <1>1, <2>2, <3>1
      DEF IInv, OnlyOwnOk, Shaking, Asking, InSession, Handshake
  <2> QED BY <2>1, <2>2
<1> QED
  BY <1>3, <1>4, <1>5, <1>6 DEF IInv

\* What the socket holds while a session lasts, or is closed, or has failed.
LEMMA FailedKeeps ==
  ASSUME IInv, Failed, pc \in {"status", "headers"},
         inbox' \in Seq(Lines), Len(inbox') <= Len(inbox),
         link \in {"none", "refused"} => inbox' = <<>>,
         InSession => \A i \in 1 .. Len(inbox') : inbox'[i].cseq > base + 2,
         rkd' \subseteq Lines, UNCHANGED <<link, pending, cseq, counters>>
  PROVE  IInv'
<1>1. /\ pc' = IF cmd = "SET_PARAMETER" THEN Back ELSE "close"
      /\ UNCHANGED <<cmd, link, pending, cseq, session, server_port, exthds, base,
                     connects, volumes>>
      /\ link = "refused" => cmd = "ANNOUNCE"
      /\ cmd # "TEARDOWN"
  BY DEF Failed, members, counters, IInv, LinkHeld, Asking
<1>2. TypeOK'
  BY <1>1 DEF IInv, TypeOK, Back, Pcs
<1>3. /\ pc' \in {"closed", "session", "close"}
      /\ pc' = "closed" => link = "none" /\ cmd = "SET_PARAMETER" /\ Asking
      /\ pc' = "session" => InSession /\ link \in {"open", "eof"}
  BY <1>1 DEF Back, IInv, TypeOK, InSession, Asking
<1>4. LinkHeld'
  BY <1>1, <1>3 DEF IInv, LinkHeld, Asking
<1>5. Counted' /\ Named' /\ HeadersHeld'
  BY <1>1, <1>3 DEF IInv, Counted, Named, HeadersHeld, Shaking, Asking, InSession
<1>6. OnlyOwnOk'
  BY <1>1, <1>3 DEF IInv, OnlyOwnOk, Shaking, Asking, InSession
<1> QED
  BY <1>2, <1>4, <1>5, <1>6 DEF IInv

\* A refusal ends the request.
LEMMA StatusNotOkKeeps == IInv /\ StatusNotOk => IInv'
<1> SUFFICES ASSUME IInv, StatusNotOk PROVE IInv'
  OBVIOUS
<1>1. /\ pc = "status" /\ inbox # <<>> /\ inbox' = Tail(inbox) /\ Failed
      /\ inbox \in Seq(Lines) /\ rkd \subseteq Lines
      /\ UNCHANGED <<link, pending, cseq, rkd, counters>>
  BY DEF StatusNotOk, StatusIs, IInv, TypeOK
<1>2. /\ inbox' \in Seq(Lines) /\ Len(inbox') <= Len(inbox)
      /\ \A i \in 1 .. Len(inbox') : i + 1 \in 1 .. Len(inbox) /\ inbox'[i] = inbox[i + 1]
  BY <1>1, TailFacts
<1>3. InSession => \A i \in 1 .. Len(inbox') : inbox'[i].cseq > base + 2
  BY <1>2 DEF IInv, OnlyOwnOk
<1>4. link \notin {"none", "refused"}
  BY <1>1 DEF IInv, LinkHeld
<1> QED
  BY <1>1, <1>2, <1>3, <1>4, FailedKeeps

\* So does an answer that does not come in time.
LEMMA NoStatusKeeps == IInv /\ NoStatus => IInv'
<1> SUFFICES ASSUME IInv, NoStatus PROVE IInv'
  OBVIOUS
<1>1. /\ pc = "status" /\ inbox' \in Late /\ Failed
      /\ inbox \in Seq(Lines) /\ rkd \subseteq Lines
      /\ UNCHANGED <<link, pending, cseq, rkd, counters>>
  BY DEF NoStatus, IInv, TypeOK
<1>2. /\ inbox' \in Seq(Lines) /\ Len(inbox') = Len(inbox) /\ Len(inbox) \in Nat
      /\ \A i \in 1 .. Len(inbox') : inbox'[i].cseq = inbox[i].cseq
  BY <1>1, LateFacts, LenProperties
<1>3. InSession => \A i \in 1 .. Len(inbox') : inbox'[i].cseq > base + 2
  BY <1>2 DEF IInv, OnlyOwnOk
<1>4. link \in {"none", "refused"} => inbox' = <<>>
  BY <1>2, EmptySeq DEF IInv, LinkHeld
<1> QED
  BY <1>1, <1>2, <1>3, <1>4, FailedKeeps

\* And a header that is none.
LEMMA BadHeaderKeeps == IInv /\ BadHeader => IInv'
<1> SUFFICES ASSUME IInv, BadHeader PROVE IInv'
  OBVIOUS
<1>1. /\ pc = "headers" /\ inbox # <<>> /\ inbox' = Tail(inbox) /\ Failed
      /\ inbox \in Seq(Lines) /\ rkd' \subseteq Lines
      /\ UNCHANGED <<link, pending, cseq, counters>>
  BY DEF BadHeader, IInv, TypeOK
<1>2. /\ inbox' \in Seq(Lines) /\ Len(inbox') <= Len(inbox)
      /\ \A i \in 1 .. Len(inbox') : i + 1 \in 1 .. Len(inbox) /\ inbox'[i] = inbox[i + 1]
  BY <1>1, TailFacts
<1>3. InSession => \A i \in 1 .. Len(inbox') : inbox'[i].cseq > base + 2
  BY <1>2 DEF IInv, OnlyOwnOk
<1>4. link \notin {"none", "refused"}
  BY <1>1 DEF IInv, LinkHeld
<1> QED
  BY <1>1, <1>2, <1>3, <1>4, FailedKeeps

\* The headers Setup gathers are of its own answer.
LEMMA HeaderKeeps == IInv /\ Header => IInv'
<1> SUFFICES ASSUME IInv, Header PROVE IInv'
  OBVIOUS
<1>1. /\ pc = "headers" /\ inbox # <<>> /\ inbox' = Tail(inbox)
      /\ rkd' = rkd \cup {Head(inbox)} /\ inbox \in Seq(Lines)
      /\ UNCHANGED <<pc, cmd, link, pending, cseq, session, server_port, exthds,
                     base, connects, volumes>>
  BY DEF Header, members, counters, IInv, TypeOK
<1>2. /\ Head(inbox) = inbox[1] /\ Head(inbox) \in Lines
      /\ inbox' \in Seq(Lines) /\ 1 \in 1 .. Len(inbox)
      /\ \A i \in 1 .. Len(inbox') : i + 1 \in 1 .. Len(inbox) /\ inbox'[i] = inbox[i + 1]
  BY <1>1, TailFacts
<1>3. TypeOK'
  BY <1>1, <1>2 DEF IInv, TypeOK
<1>4. LinkHeld' /\ Counted' /\ Named' /\ HeadersHeld'
  BY <1>1 DEF IInv, LinkHeld, Counted, Named, HeadersHeld, Shaking, Asking, InSession
<1>5. OnlyOwnOk'
  BY <1>1, <1>2 DEF IInv, OnlyOwnOk, Shaking, Asking, InSession, Handshake
<1> QED
  BY <1>3, <1>4, <1>5 DEF IInv

\* What Setup takes from its own answer is of this connection.
LEMMA SetupFacts ==
  ASSUME IInv, Setup, cmd = "SETUP", pc = "headers"
  PROVE  /\ session' \in Nat /\ server_port' \in Nat
         /\ \/ pc' = "close" /\ cmd' = cmd
            \/ /\ pc' = "send" /\ cmd' = "RECORD"
               /\ session' = base + 2 /\ server_port' = base + 2
<1> DEFINE transport == Gathered("Transport") \cup Gathered("NoPort")
<1>1. /\ session' = Value(Gathered("Session"))
      /\ server_port' = IF session' = None \/ transport = {} THEN server_port
                        ELSE Value(Gathered("Transport"))
      /\ \/ pc' = "close" /\ cmd' = cmd
         \/ /\ pc' = "send" /\ cmd' = "RECORD"
            /\ session' # None /\ transport # {} /\ server_port' # None
  BY DEF Setup, Request
<1>2. /\ \A h \in rkd : h.cseq = base + 2
      /\ rkd \subseteq Lines /\ server_port \in Nat
  BY DEF IInv, TypeOK, OnlyOwnOk, Counted, Nth, Shaking, Asking, Handshake
<1> HIDE DEF transport
<1>3. ASSUME NEW kind
      PROVE  /\ Value(Gathered(kind)) \in Nat
             /\ Value(Gathered(kind)) # None => Value(Gathered(kind)) = base + 2
  <2>1. Gathered(kind) \subseteq rkd
    BY DEF Gathered
  <2> QED
    BY <1>2, <2>1, ValueFacts
<1> QED
  BY <1>1, <1>2, <1>3

\* The types of what the end of an answer changes.
LEMMA AnsweredTypes ==
  ASSUME TypeOK, pc' \in Pcs, cmd' \in Cmds, inbox' \in Seq(Lines),
         session' \in Nat, server_port' \in Nat, exthds' \in [ExtraHeaders -> Nat],
         UNCHANGED <<link, pending, cseq, rkd, base, connects, volumes>>
  PROVE  TypeOK'
BY DEF TypeOK

\* The blank line, a late line or the end of the connection ends an answer.
LEMMA HeadersEndKeeps == IInv /\ HeadersEnd => IInv'
<1> SUFFICES ASSUME IInv, HeadersEnd PROVE IInv'
  OBVIOUS
<1>1. /\ pc = "headers" /\ Answered /\ inbox \in Seq(Lines)
      /\ UNCHANGED <<link, pending, cseq, rkd, base, connects, volumes>>
      /\ link \in {"open", "eof"} /\ cmd \in Cmds \ {"TEARDOWN"}
      /\ cseq \in Nat /\ base \in Nat
  BY DEF HeadersEnd, counters, IInv, TypeOK, LinkHeld, Asking
<1>2. /\ inbox' \in Seq(Lines)
      /\ \A i \in 1 .. Len(inbox') : \E j \in 1 .. Len(inbox) :
           /\ inbox'[i].cseq = inbox[j].cseq
           /\ inbox'[i].kind = "ok" => inbox[j].kind = "ok"
  <2>1. CASE inbox # <<>> /\ inbox' = Tail(inbox)
    <3>1. /\ Tail(inbox) \in Seq(Lines)
          /\ \A i \in 1 .. Len(Tail(inbox)) :
               i + 1 \in 1 .. Len(inbox) /\ Tail(inbox)[i] = inbox[i + 1]
      BY <1>1, <2>1, TailFacts
    <3> QED
      BY <2>1, <3>1
  <2>2. CASE inbox' \in Late
    BY <1>1, <2>2, LateFacts
  <2> QED
    BY <2>1, <2>2 DEF HeadersEnd
<1>0. /\ TypeOK /\ cmd \in Cmds /\ session \in Nat /\ server_port \in Nat
      /\ exthds \in [ExtraHeaders -> Nat] /\ inbox' \in Seq(Lines)
      /\ {"send", "close", "stream", "session"} \subseteq Pcs
      /\ {"SETUP", "RECORD"} \subseteq Cmds
  BY <1>2 DEF IInv, TypeOK, Pcs, Cmds, Handshake
<1>3. CASE cmd = "ANNOUNCE"
  <2>1. /\ exthds' = [exthds EXCEPT !["Apple-Challenge"] = @ - 1]
        /\ pc' = "send" /\ cmd' = "SETUP" /\ UNCHANGED <<session, server_port>>
    BY <1>1, <1>3 DEF Answered, Request
  <2>2. /\ exthds \in [ExtraHeaders -> Nat] /\ exthds["Client-Instance"] = 1
        /\ exthds["Apple-Challenge"] = 1
    BY <1>1, <1>3 DEF IInv, TypeOK, HeadersHeld, Shaking, Asking, Handshake
  <2>3. /\ exthds' \in [ExtraHeaders -> Nat] /\ exthds'["Client-Instance"] = 1
        /\ exthds'["Apple-Challenge"] = 0
    BY <2>1, <2>2 DEF ExtraHeaders
  <2>4. TypeOK'
    BY <1>0, <1>1, <2>1, <2>3, AnsweredTypes
  <2>5. LinkHeld' /\ Counted' /\ Named' /\ HeadersHeld'
    BY <1>1, <1>3, <2>1, <2>3
    DEF IInv, LinkHeld, Counted, Nth, Named, HeadersHeld, Shaking, Asking, InSession,
        Handshake
  <2>6. OnlyOwnOk'
    BY <1>1, <1>2, <1>3, <2>1
    DEF IInv, OnlyOwnOk, Shaking, Asking, InSession, Handshake
  <2> QED BY <2>4, <2>5, <2>6 DEF IInv
<1>4. CASE cmd = "SETUP"
  <2>1. Setup /\ UNCHANGED exthds
    BY <1>1, <1>4 DEF Answered
  <2>2. /\ session' \in Nat /\ server_port' \in Nat
        /\ \/ pc' = "close" /\ cmd' = cmd
           \/ /\ pc' = "send" /\ cmd' = "RECORD"
              /\ session' = base + 2 /\ server_port' = base + 2
    BY <1>1, <1>4, <2>1, SetupFacts
  <2>3. TypeOK'
    BY <1>0, <1>1, <2>1, <2>2, AnsweredTypes
  <2>4. LinkHeld' /\ Counted' /\ Named' /\ HeadersHeld'
    BY <1>1, <1>4, <2>1, <2>2
    DEF IInv, LinkHeld, Counted, Nth, Named, HeadersHeld, Shaking, Asking, InSession,
        Handshake
  <2>5. OnlyOwnOk'
    BY <1>1, <1>2, <1>4, <2>2
    DEF IInv, OnlyOwnOk, Shaking, Asking, InSession, Handshake
  <2> QED BY <2>3, <2>4, <2>5 DEF IInv
<1>5. CASE cmd = "RECORD"
  <2>1. pc' = "stream" /\ UNCHANGED <<cmd, session, server_port, exthds>>
    BY <1>1, <1>5 DEF Answered, members
  <2>2. TypeOK'
    BY <1>0, <1>1, <2>1, AnsweredTypes
  <2>3. LinkHeld' /\ Counted' /\ Named' /\ HeadersHeld'
    BY <1>1, <1>5, <2>1
    DEF IInv, LinkHeld, Counted, Nth, Named, HeadersHeld, Shaking, Asking, InSession,
        Handshake
  <2>4. OnlyOwnOk'
    BY <1>1, <1>2, <1>5, <2>1
    DEF IInv, OnlyOwnOk, Shaking, Asking, InSession, Handshake
  <2> QED BY <2>2, <2>3, <2>4 DEF IInv
<1>6. CASE cmd = "SET_PARAMETER"
  <2>1. pc' = "session" /\ UNCHANGED <<cmd, session, server_port, exthds>>
    BY <1>1, <1>6 DEF Answered, Back, members
  <2>2. TypeOK'
    BY <1>0, <1>1, <2>1, AnsweredTypes
  <2>3. LinkHeld' /\ Counted' /\ Named' /\ HeadersHeld'
    BY <1>1, <1>6, <2>1
    DEF IInv, LinkHeld, Counted, Nth, Named, HeadersHeld, Shaking, Asking, InSession,
        Handshake
  <2>4. OnlyOwnOk'
    BY <1>1, <1>2, <1>6, <2>1
    DEF IInv, OnlyOwnOk, Shaking, Asking, InSession, Handshake
  <2> QED BY <2>2, <2>3, <2>4 DEF IInv
<1> QED
  BY <1>1, <1>3, <1>4, <1>5, <1>6 DEF Cmds, Handshake

\* Connecting the audio stream, or failing to.
LEMMA StreamConnectKeeps == IInv /\ StreamConnect => IInv'
<1> SUFFICES ASSUME IInv, StreamConnect PROVE IInv'
  OBVIOUS
<1>1. /\ pc = "stream" /\ pc' \in {"session", "close"}
      /\ UNCHANGED <<cmd, link, inbox, pending, cseq, session, server_port, exthds,
                     rkd, base, connects, volumes>>
  BY DEF StreamConnect, members, counters
<1>2. TypeOK'
  BY <1>1 DEF IInv, TypeOK, Pcs
<1>3. LinkHeld' /\ Counted' /\ Named' /\ HeadersHeld'
  BY <1>1 DEF IInv, TypeOK, LinkHeld, Counted, Named, HeadersHeld, Shaking, Asking,
     InSession
<1>4. OnlyOwnOk'
  BY <1>1 DEF IInv, TypeOK, Counted, OnlyOwnOk, Shaking, Asking, InSession
<1> QED
  BY <1>2, <1>3, <1>4 DEF IInv

\* Close leaves nothing in the socket and no extra headers.
LEMMA CloseKeeps == IInv /\ Close => IInv'
<1> SUFFICES ASSUME IInv, Close PROVE IInv'
  OBVIOUS
<1>1. /\ cseq' = cseq + 1 /\ cmd' = "TEARDOWN" /\ link' = "none" /\ pc' = "closed"
      /\ inbox' = <<>> /\ pending' = <<>> /\ exthds' = NoExtraHeaders
      /\ UNCHANGED <<session, server_port, rkd, base, connects, volumes>>
  BY DEF Close, counters
<1>2. inbox' \in Seq(Lines) /\ pending' \in Seq(Nat)
  BY <1>1
<1>3. TypeOK'
  BY <1>1, <1>2 DEF IInv, TypeOK, Pcs, Cmds, NoExtraHeaders
<1> QED
  BY <1>1, <1>3 DEF IInv, LinkHeld, Counted, Named, HeadersHeld, OnlyOwnOk, Shaking,
     Asking, InSession, Handshake

\* The process ends.
LEMMA DiesKeeps == IInv /\ StatusNull => IInv'
<1> SUFFICES ASSUME IInv, StatusNull PROVE IInv'
  OBVIOUS
<1>1. /\ pc' = "died" /\ inbox' \in Seq(Lines)
      /\ UNCHANGED <<cmd, link, pending, cseq, session, server_port, exthds, rkd,
                     base, connects, volumes>>
      /\ link \in {"open", "eof"}
  BY TailFacts
  DEF StatusNull, StatusIs, members, counters, IInv, TypeOK, LinkHeld
<1>2. TypeOK'
  BY <1>1 DEF IInv, TypeOK, Pcs
<1> QED
  BY <1>1, <1>2 DEF IInv, LinkHeld, Counted, Named, HeadersHeld, OnlyOwnOk, Shaking,
     Asking, InSession

\* The AirPort answers only the requests it has received, in their order.
LEMMA AirPortAnswersKeeps == IInv /\ AirPortAnswers => IInv'
<1> SUFFICES ASSUME IInv, AirPortAnswers PROVE IInv'
  OBVIOUS
<1>1. PICK status \in {"ok", "error", "word"}, hs \in HeaderLists :
        inbox' = inbox \o Answer(status, hs, Head(pending))
  BY DEF AirPortAnswers
<1>2. /\ link = "open" /\ pending # <<>> /\ pending' = Tail(pending)
      /\ UNCHANGED <<pc, cmd, link, cseq, session, server_port, exthds, rkd, base,
                     connects, volumes>>
      /\ inbox \in Seq(Lines) /\ pending \in Seq(Nat) /\ Len(inbox) \in Nat
  BY LenProperties DEF AirPortAnswers, members, counters, IInv, TypeOK
<1> DEFINE n == Head(pending)
           a == Answer(status, hs, n)
<1>3. /\ n \in Nat /\ n = pending[1] /\ pending' \in Seq(Nat)
      /\ Len(pending) \in Nat \ {0} /\ Len(pending') = Len(pending) - 1
      /\ \A i \in 1 .. Len(pending') : pending'[i] = pending[i + 1]
  BY <1>2, HeadTailProperties, LenProperties, ElementOfSeq, EmptySeq
<1>4. /\ a \in Seq(Lines) /\ Len(a) \in Nat
      /\ \A i \in 1 .. Len(a) : a[i].cseq = n /\ (a[i].kind = "ok" => i = 1)
  BY <1>3, AnswerFacts, LenProperties
<1> HIDE DEF a, n
<1>5. /\ inbox' \in Seq(Lines) /\ Len(inbox') = Len(inbox) + Len(a)
      /\ \A i \in 1 .. Len(inbox) : inbox'[i] = inbox[i]
      /\ \A i \in Len(inbox) + 1 .. Len(inbox') :
           inbox'[i] = a[i - Len(inbox)] /\ i - Len(inbox) \in 1 .. Len(a)
  BY <1>1, <1>2, <1>4, ConcatProperties DEF a, n
<1>6. TypeOK'
  BY <1>2, <1>3, <1>5 DEF IInv, TypeOK
<1>7. LinkHeld' /\ Counted' /\ Named' /\ HeadersHeld'
  BY <1>2 DEF IInv, LinkHeld, Counted, Named, HeadersHeld, Shaking, Asking, InSession
<1>8. OnlyOwnOk'
  <2>1. CASE Shaking /\ pc = "status"
    <3>1. /\ Len(pending) = 1 /\ n = cseq /\ pending' = <<>>
          /\ \A i \in 1 .. Len(inbox) : inbox[i].kind # "ok"
      BY <1>2, <1>3, <2>1, EmptySeq DEF IInv, OnlyOwnOk
    <3>2. ASSUME NEW i \in 1 .. Len(inbox'), inbox'[i].kind = "ok"
          PROVE  i = Len(inbox) + 1
      <4>1. i \in Len(inbox) + 1 .. Len(inbox')
        <5>1. i \notin 1 .. Len(inbox)
          BY <1>5, <3>1, <3>2
        <5>2. Len(inbox) \in Nat /\ Len(inbox') \in Nat
          BY <1>2, <1>4, <1>5
        <5> QED
          BY <3>2, <5>1, <5>2
      <4>2. /\ inbox'[i] = a[i - Len(inbox)] /\ i - Len(inbox) \in 1 .. Len(a)
        BY <1>5, <4>1
      <4>3. i - Len(inbox) = 1
        BY <1>4, <3>2, <4>2
      <4> QED
        BY <1>2, <3>2, <4>3
    <3>3. \A j \in Len(inbox) + 1 .. Len(inbox') : inbox'[j].cseq = cseq
      BY <1>4, <1>5, <3>1
    <3>4. Len(pending') <= 1 /\ \A i \in 1 .. Len(pending') : pending'[i] = cseq'
      BY <3>1
    <3>5. ASSUME NEW i \in 1 .. Len(inbox'), inbox'[i].kind = "ok"
          PROVE  \A j \in i .. Len(inbox') :
                   inbox'[j].cseq = cseq' /\ (inbox'[j].kind = "ok" => j = i)
      <4>1. i = Len(inbox) + 1
        BY <3>2, <3>5
      <4>2. ASSUME NEW j \in i .. Len(inbox')
            PROVE  inbox'[j].cseq = cseq' /\ (inbox'[j].kind = "ok" => j = i)
        <5>1. j \in Len(inbox) + 1 .. Len(inbox') /\ j \in 1 .. Len(inbox')
          BY <1>2, <4>1
        <5> QED
          BY <1>2, <3>2, <3>3, <4>1, <5>1
      <4> QED
        BY <4>2
    <3> QED
      <4>1. /\ pc' = "status" /\ ~InSession'
        BY <1>2, <2>1 DEF Shaking, InSession, Handshake
      <4>2. \A i \in 1 .. Len(inbox') : inbox'[i].kind = "ok" =>
              /\ pending' = <<>>
              /\ \A j \in i .. Len(inbox') : /\ inbox'[j].cseq = cseq'
                                             /\ inbox'[j].kind = "ok" => j = i
        BY <3>1, <3>5
      <4> QED
        BY <3>4, <4>1, <4>2 DEF OnlyOwnOk
  <2>2. CASE Shaking /\ pc # "status"
    BY <1>2, <2>2 DEF IInv, OnlyOwnOk, Shaking, Asking
  <2>3. CASE InSession
    <3>0. 1 \in 1 .. Len(pending)
      BY <1>3
    <3>1. n > base + 2 /\ \A i \in 1 .. Len(inbox) : inbox[i].cseq > base + 2
      BY <1>3, <2>3, <3>0 DEF IInv, OnlyOwnOk
    <3>2. ASSUME NEW i \in 1 .. Len(inbox') PROVE inbox'[i].cseq > base + 2
      <4>1. CASE i \in 1 .. Len(inbox)
        BY <1>5, <3>1, <4>1
      <4>2. CASE i \notin 1 .. Len(inbox)
        <5>1. i \in Len(inbox) + 1 .. Len(inbox')
          BY <1>2, <4>2
        <5> QED
          BY <1>4, <1>5, <3>1, <5>1
      <4> QED BY <4>1, <4>2
    <3>3. ASSUME NEW i \in 1 .. Len(pending') PROVE pending'[i] > base + 2
      <4>1. \A j \in 1 .. Len(pending) : pending[j] > base + 2
        BY <2>3 DEF IInv, OnlyOwnOk
      <4>2. i + 1 \in 1 .. Len(pending) /\ pending'[i] = pending[i + 1]
        BY <1>3
      <4> QED
        BY <4>1, <4>2
    <3>4. ~Shaking' /\ pc' # "stream" /\ ~(pc' = "headers" /\ cmd' = "SETUP")
      BY <1>2, <2>3 DEF Shaking, Asking, InSession, Handshake
    <3> QED
      BY <1>2, <3>2, <3>3, <3>4 DEF OnlyOwnOk
  <2>4. CASE ~Shaking /\ ~InSession
    BY <1>2, <2>4 DEF IInv, OnlyOwnOk, LinkHeld, Shaking, Asking, InSession, Handshake
  <2> QED
    BY <2>1, <2>2, <2>3, <2>4
<1> QED
  BY <1>6, <1>7, <1>8 DEF IInv

\* The AirPort may close the connection at any time.
LEMMA AirPortHangsUpKeeps == IInv /\ AirPortHangsUp => IInv'
<1> SUFFICES ASSUME IInv, AirPortHangsUp PROVE IInv'
  OBVIOUS
<1>1. /\ link = "open" /\ link' = "eof"
      /\ UNCHANGED <<pc, cmd, inbox, pending, cseq, session, server_port, exthds,
                     rkd, base, connects, volumes>>
  BY DEF AirPortHangsUp, members, counters
<1>2. TypeOK'
  BY <1>1 DEF IInv, TypeOK
<1>3. LinkHeld' /\ Counted' /\ Named' /\ HeadersHeld'
  BY <1>1 DEF IInv, LinkHeld, Counted, Named, HeadersHeld, Shaking, Asking, InSession
<1>4. OnlyOwnOk'
  BY <1>1 DEF IInv, OnlyOwnOk, Shaking, Asking, InSession
<1> QED
  BY <1>2, <1>3, <1>4 DEF IInv

\* Every step keeps the invariant.
LEMMA StepKeeps == IInv /\ [Next]_vars => IInv'
<1> SUFFICES ASSUME IInv, [Next]_vars PROVE IInv'
  OBVIOUS
<1>1. CASE Next
  BY <1>1, ConnectKeeps, UpdateVolumeKeeps, SendKeeps, StatusOkKeeps,
     StatusNotOkKeeps, NoStatusKeeps, HeaderKeeps, BadHeaderKeeps, HeadersEndKeeps,
     StreamConnectKeeps, CloseKeeps, DiesKeeps, AirPortAnswersKeeps,
     AirPortHangsUpKeeps
  DEF Next, Client
<1>2. CASE UNCHANGED vars
  <2>1. UNCHANGED <<pc, cmd, link, inbox, pending, cseq, session, server_port,
                    exthds, rkd, base, connects, volumes>>
    BY <1>2 DEF vars, members, counters
  <2>2. TypeOK'
    BY <2>1 DEF IInv, TypeOK
  <2>3. LinkHeld' /\ Counted' /\ Named' /\ HeadersHeld'
    BY <2>1 DEF IInv, LinkHeld, Counted, Named, HeadersHeld, Shaking, Asking,
       InSession
  <2>4. OnlyOwnOk'
    BY <2>1 DEF IInv, OnlyOwnOk, Shaking, Asking, InSession
  <2> QED BY <2>2, <2>3, <2>4 DEF IInv
<1> QED BY <1>1, <1>2

-----------------------------------------------------------------------------
(* The theorems.                                                           *)

\* The invariant of the requests and answers of RTSPClient holds always.
THEOREM Inductive == Spec => []IInv
BY InitEstablishes, StepKeeps, PTL DEF Spec

\* The members of RTSPClient and the lines of the socket keep their types.
THEOREM TypeCorrect == Spec => []TypeOK
<1>1. IInv => TypeOK
  BY DEF IInv
<1> QED BY <1>1, Inductive, PTL

\* ANNOUNCE, SETUP and RECORD succeed by the AirPort's answer to each of
\* them, whatever it answers, delays or leaves out.
THEOREM OwnAnswers == Spec => AnswersMatch
<1>1. IInv /\ [Next]_vars =>
        [StatusOk /\ cmd \in Handshake => Head(inbox).cseq = cseq]_vars
  BY StatusOkKeeps
<1> QED BY <1>1, Inductive, PTL DEF Spec, AnswersMatch

\* When RAOPClient::Connect has succeeded, session and server_port are of
\* this connection, and nothing of ANNOUNCE or SETUP is left unread.
THEOREM OwnSession == Spec => []SessionIsOwn
<1>1. IInv => SessionIsOwn
  BY DEF IInv, Named, OnlyOwnOk, InSession, SessionIsOwn
<1> QED BY <1>1, Inductive, PTL

\* The extra headers of a request are those of its own connection.
THEOREM OneChallenge == Spec => []ChallengeOnce
<1>1. IInv => ChallengeOnce
  BY DEF IInv, HeadersHeld, Shaking, Asking, ChallengeOnce
<1> QED BY <1>1, Inductive, PTL
=============================================================================
