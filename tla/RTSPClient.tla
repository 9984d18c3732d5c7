----------------------------- MODULE RTSPClient -----------------------------
(***************************************************************************)
(* The control connection to the AirPort: RAOPClient::Connect, Close and   *)
(* UpdateVolume over the requests of RTSPClient.                           *)
(*                                                                         *)
(* ExecRequest writes a request and reads an answer line by line: a status *)
(* line, headers, a blank line.  It gives up waiting for a line after a    *)
(* timeout, matches no answer to its request (the CSeq that comes back is  *)
(* not looked at) and leaves in the socket what it has not read.  The      *)
(* AirPort, which is external, answers the requests of a connection in     *)
(* their order, late or never, with whatever status and headers, and may   *)
(* hang up.  A line that a timeout finds missing is in inbox already: it   *)
(* was sent and arrives later.                                             *)
(*                                                                         *)
(* A line is reduced to what the client makes of it: "ok" has 200 for its  *)
(* second word, "error" another word, "word" no second word and no colon;  *)
(* "blank" is empty; the headers have a colon ("NoPort" is a Transport     *)
(* without server_port).  No header has 200 for its second word.           *)
(***************************************************************************)
EXTENDS Integers, Sequences

CONSTANTS
  HeaderLists,  \* the headers that the AirPort's answers may have
  MaxConnects,  \* bound: calls of RAOPClient::Connect
  MaxVolumes    \* bound: volume commands

HeaderKinds == {"Session", "Transport", "NoPort", "Audio-Jack-Status", "other"}

ASSUME ConstantsAssumption ==
  /\ HeaderLists \subseteq Seq(HeaderKinds \cup {"word"})
  /\ MaxConnects \in Nat /\ MaxVolumes \in Nat

VARIABLES
  pc, cmd,      \* where the client is, and in which request
  link,         \* what rtsp.fd is connected to
  inbox,        \* lines the AirPort has sent and the client has not read
  pending,      \* CSeq of the requests the AirPort has not answered
  cseq, session, server_port, \* members of RTSPClient
  exthds,       \* and how often each header is among its extra ones
  rkd,          \* the headers Setup gathers
  base,         \* cseq when RAOPClient::Connect was called
  connects, volumes

members == <<session, server_port, exthds>>
counters == <<base, connects, volumes>>
vars == <<pc, cmd, link, inbox, pending, cseq, members, rkd, counters>>

None == 0
ExtraHeaders == {"Client-Instance", "Apple-Challenge"}
NoExtraHeaders == [h \in ExtraHeaders |-> 0]
Line(kind, n) == [kind |-> kind, cseq |-> n]

Init ==
  /\ pc = "closed" /\ cmd = "TEARDOWN" /\ link = "none"
  /\ inbox = <<>> /\ pending = <<>>
  /\ cseq = 0 /\ session = None /\ server_port = None
  /\ exthds = NoExtraHeaders
  /\ rkd = {} /\ base = 0 /\ connects = 0 /\ volumes = 0

-----------------------------------------------------------------------------
(* RAOPClient::Connect, as far as its first request.  The result of        *)
(* rtsp.Connect is not looked at: fd may be -1 or an unconnected socket.   *)

Request(c) == pc' = "send" /\ cmd' = c

\* What TCPSocket's Open, Connect and ConnectByHost leave in rtsp.fd: a
\* connection; a socket that both calls of connect were refused; -1.
Sockets == {"open", "refused", "none"}

Connect ==
  /\ pc = "closed" /\ connects < MaxConnects
  /\ connects' = connects + 1 /\ base' = cseq
  /\ exthds' = [h \in ExtraHeaders |-> exthds[h] + 1]
  /\ link' \in Sockets
  /\ Request("ANNOUNCE")
  /\ UNCHANGED <<inbox, pending, cseq, session, server_port, rkd, volumes>>

\* UpdateVolume: whether or not there is a session.
UpdateVolume ==
  /\ pc \in {"session", "closed"} /\ volumes < MaxVolumes
  /\ volumes' = volumes + 1
  /\ Request("SET_PARAMETER")
  /\ UNCHANGED <<link, inbox, pending, cseq, members, rkd, base, connects>>

-----------------------------------------------------------------------------
(* ExecRequest.                                                            *)

(* A socket that was refused takes nothing: write fails with EPIPE         *)
(* (SIGPIPE is ignored since OpenDBConnection called mysql_init), its      *)
(* result is not looked at, and no status line comes.                      *)
Send ==
  /\ pc = "send"
  /\ cseq' = cseq + 1
  /\ pending' = IF link = "open" THEN Append(pending, cseq') ELSE pending
  /\ pc' = "status"
  /\ UNCHANGED <<cmd, link, inbox, members, rkd, counters>>

\* Where UpdateVolume returns to.
Back == IF link = "none" THEN "closed" ELSE "session"
\* Variant: AnnouceSDP's result is not looked at.
FailedAnnounceGoesOn ==
  /\ IF cmd = "ANNOUNCE" THEN Request("SETUP")
     ELSE /\ pc' = IF cmd = "SET_PARAMETER" THEN Back ELSE "close"
          /\ UNCHANGED cmd
  /\ UNCHANGED members

\* The callers of a request that failed.
Failed == /\ pc' = IF cmd = "SET_PARAMETER" THEN Back ELSE "close"
          /\ UNCHANGED <<cmd, members>>

StatusIs(kinds) == pc = "status" /\ inbox # <<>> /\ Head(inbox).kind \in kinds

StatusOk ==
  /\ StatusIs({"ok"})
  /\ inbox' = Tail(inbox) /\ rkd' = {}
  /\ pc' = "headers"
  /\ UNCHANGED <<cmd, link, pending, cseq, members, counters>>

\* Any other status; the headers after it are left in the socket.
StatusNotOk ==
  /\ StatusIs({"error", "blank"} \cup HeaderKinds)
  /\ inbox' = Tail(inbox)
  /\ Failed
  /\ UNCHANGED <<link, pending, cseq, rkd, counters>>

\* A null pointer is appended to the log message.
StatusNull ==
  /\ StatusIs({"word"})
  /\ inbox' = Tail(inbox)
  /\ pc' = "died"
  /\ UNCHANGED <<cmd, link, pending, cseq, members, rkd, counters>>

(* What a line is that has lost its beginning, when the timeout falls      *)
(* within it: read_line forgets what it has read of it.                    *)
Cut(kind) ==
  CASE kind = "ok" -> {"ok", "error", "word", "blank"}
    [] kind \in {"blank", "word"} -> {kind, "blank"}
    [] kind = "error" -> {"error", "word", "blank"}
    [] OTHER -> {"other", "error", "word", "blank"}
Late == {inbox} \cup
        IF inbox = <<>> THEN {}
        ELSE {<<Line(k, Head(inbox).cseq)>> \o Tail(inbox) : k \in Cut(Head(inbox).kind)}

\* Variant: the client waits without a timeout.
NoStatusWaits ==
  /\ pc = "status" /\ inbox = <<>> /\ link # "open"
  /\ inbox' \in Late
  /\ Failed
  /\ UNCHANGED <<link, pending, cseq, rkd, counters>>

\* The status line does not come in time, or the AirPort has hung up.
NoStatus ==
  /\ pc = "status"
  /\ inbox' \in Late
  /\ Failed
  /\ UNCHANGED <<link, pending, cseq, rkd, counters>>

Header ==
  /\ pc = "headers" /\ inbox # <<>> /\ Head(inbox).kind \in HeaderKinds
  /\ rkd' = rkd \cup {Head(inbox)} /\ inbox' = Tail(inbox)
  /\ UNCHANGED <<pc, cmd, link, pending, cseq, members, counters>>

BadHeader ==
  /\ pc = "headers" /\ inbox # <<>> /\ Head(inbox).kind \in {"ok", "error", "word"}
  /\ rkd' = {} /\ inbox' = Tail(inbox)
  /\ Failed
  /\ UNCHANGED <<link, pending, cseq, counters>>

Gathered(kind) == {h \in rkd : h.kind = kind}
\* Variant: what is missing has the value -1.
ValueOrError(hs) == IF hs = {} THEN -1 ELSE (CHOOSE h \in hs : TRUE).cseq
Value(hs) == IF hs = {} THEN None ELSE (CHOOSE h \in hs : TRUE).cseq

\* Variant: a session that the answer does not name is kept.
SetupKeepsSession ==
  LET transport == Gathered("Transport") \cup Gathered("NoPort")
  IN /\ session' = IF Gathered("Session") = {} THEN session
                   ELSE Value(Gathered("Session"))
     /\ server_port' = IF session' = None \/ transport = {} THEN server_port
                       ELSE Value(Gathered("Transport"))
     /\ IF /\ session' # None /\ transport # {} /\ server_port' # None
           /\ Gathered("Audio-Jack-Status") # {}
        THEN Request("RECORD") ELSE pc' = "close" /\ UNCHANGED cmd

(* Setup and what Connect looks up in its headers.  The session and the    *)
(* port are the ones of the answer, named here by its CSeq; the port is    *)
(* looked for only when there are a session and a transport.               *)
Setup ==
  LET transport == Gathered("Transport") \cup Gathered("NoPort")
  IN /\ session' = Value(Gathered("Session"))
     /\ server_port' = IF session' = None \/ transport = {} THEN server_port
                       ELSE Value(Gathered("Transport"))
     /\ IF /\ session' # None /\ transport # {} /\ server_port' # None
           /\ Gathered("Audio-Jack-Status") # {}
        THEN Request("RECORD") ELSE pc' = "close" /\ UNCHANGED cmd

\* Variant: the challenge is not taken back.
AnsweredKeepsChallenge ==
  CASE cmd = "ANNOUNCE" ->
         Request("SETUP") /\ UNCHANGED members
    [] cmd = "SETUP" -> Setup /\ UNCHANGED exthds
    [] cmd = "RECORD" -> pc' = "stream" /\ UNCHANGED <<cmd, members>>
    [] OTHER -> pc' = Back /\ UNCHANGED <<cmd, members>>

\* The callers of a request that was answered: the next of the handshake.
Answered ==
  CASE cmd = "ANNOUNCE" ->
         /\ exthds' = [exthds EXCEPT !["Apple-Challenge"] = @ - 1]
         /\ Request("SETUP") /\ UNCHANGED <<session, server_port>>
    [] cmd = "SETUP" -> Setup /\ UNCHANGED exthds
    [] cmd = "RECORD" -> pc' = "stream" /\ UNCHANGED <<cmd, members>>
    [] OTHER -> pc' = Back /\ UNCHANGED <<cmd, members>>

(* The headers end with the blank line, and with a line that does not come *)
(* in time or a connection that has ended all the same.                    *)
HeadersEnd ==
  /\ pc = "headers"
  /\ \/ inbox # <<>> /\ Head(inbox).kind = "blank" /\ inbox' = Tail(inbox)
     \/ inbox' \in Late
  /\ Answered
  /\ UNCHANGED <<link, pending, cseq, rkd, counters>>

-----------------------------------------------------------------------------
(* StreamConnect, RAOPClient::Close and the end of the process.            *)

StreamConnect ==
  /\ pc = "stream"
  /\ pc' \in {"session", "close"}
  /\ UNCHANGED <<cmd, link, inbox, pending, cseq, members, rkd, counters>>

(* Teardown waits for no answer; the session, the port and cseq are kept.  *)
Close ==
  /\ pc \in {"session", "close"}
  /\ cseq' = cseq + 1 /\ cmd' = "TEARDOWN"
  /\ link' = "none" /\ inbox' = <<>> /\ pending' = <<>>
  /\ exthds' = NoExtraHeaders
  /\ pc' = "closed"
  /\ UNCHANGED <<session, server_port, rkd, counters>>

-----------------------------------------------------------------------------
(* The AirPort.                                                            *)

Answer(status, headers, n) ==
  [i \in 1 .. Len(headers) + 2 |->
     Line(IF i = 1 THEN status
          ELSE IF i = Len(headers) + 2 THEN "blank" ELSE headers[i - 1], n)]

AirPortAnswers ==
  /\ link = "open" /\ pending # <<>>
  /\ \E status \in {"ok", "error", "word"}, headers \in HeaderLists :
       inbox' = inbox \o Answer(status, headers, Head(pending))
  /\ pending' = Tail(pending)
  /\ UNCHANGED <<pc, cmd, link, cseq, members, rkd, counters>>

AirPortHangsUp ==
  /\ link = "open"
  /\ link' = "eof"
  /\ UNCHANGED <<pc, cmd, inbox, pending, cseq, members, rkd, counters>>

Client ==
  \/ Send \/ StatusOk \/ StatusNotOk \/ StatusNull \/ NoStatus
  \/ Header \/ BadHeader \/ HeadersEnd \/ StreamConnect
  \/ (pc = "close" /\ Close)

Next ==
  \/ Connect \/ UpdateVolume \/ Close \/ Client
  \/ AirPortAnswers \/ AirPortHangsUp

Spec == Init /\ [][Next]_vars

\* The thread runs; the AirPort owes it nothing.
FairSpec == Spec /\ WF_vars(Client)

-----------------------------------------------------------------------------
(* Properties.                                                             *)

Pcs == {"closed", "send", "status", "headers", "stream", "session", "close", "died"}
Handshake == {"ANNOUNCE", "SETUP", "RECORD"}
Cmds == Handshake \cup {"SET_PARAMETER", "TEARDOWN"}
Lines == [kind : HeaderKinds \cup {"ok", "error", "word", "blank"}, cseq : Nat]

TypeOK ==
  /\ pc \in Pcs /\ cmd \in Cmds
  /\ link \in {"none", "open", "refused", "eof"}
  /\ inbox \in Seq(Lines) /\ pending \in Seq(Nat)
  /\ cseq \in Nat /\ session \in Nat /\ server_port \in Nat
  /\ exthds \in [ExtraHeaders -> Nat]
  /\ rkd \subseteq Lines
  /\ base \in Nat /\ connects \in Nat /\ volumes \in Nat

(* A request of the handshake succeeds by its own answer, although no CSeq *)
(* is compared and late lines of earlier requests may wait in the socket.  *)
AnswersMatch ==
  [][StatusOk /\ cmd \in Handshake => Head(inbox).cseq = cseq]_vars

(* A session begins with the session and the port that the AirPort gave on *)
(* this connection, never with those that an earlier one has left in the   *)
(* members, and with nothing of ANNOUNCE or SETUP still unread.            *)
SessionIsOwn ==
  pc = "session" =>
    /\ session = base + 2 /\ server_port = base + 2
    /\ \A i \in 1 .. Len(inbox) : inbox[i].cseq > base + 2

(* The challenge goes out with each ANNOUNCE, once, and with nothing else; *)
(* Client-Instance goes once with every request: failed handshakes leave   *)
(* nothing behind for the next.                                            *)
ChallengeOnce ==
  pc = "send" /\ cmd \in Handshake =>
    /\ exthds["Client-Instance"] = 1
    /\ exthds["Apple-Challenge"] = IF cmd = "ANNOUNCE" THEN 1 ELSE 0

(* RAOPClient::Connect returns, and so does a volume command, whatever the *)
(* AirPort does or leaves undone.                                          *)
RequestsReturn ==
  pc \notin {"closed", "session", "died"} ~> pc \in {"closed", "session", "died"}

-----------------------------------------------------------------------------
(* The inductive invariant.                                                *)

Asking == pc \in {"send", "status", "headers"}
Shaking == Asking /\ cmd \in Handshake
InSession == pc = "session" \/ (Asking /\ cmd = "SET_PARAMETER" /\ link # "none")

\* Which connection each place of the code has.
LinkHeld ==
  /\ link \in {"none", "refused"} => inbox = <<>> /\ pending = <<>>
  /\ pc = "closed" => link = "none"
  /\ Asking => cmd # "TEARDOWN"
  /\ link = "refused" => pc \in {"send", "status", "close"} /\ cmd = "ANNOUNCE"
  /\ \/ pc \in {"headers", "stream", "session"}
     \/ Asking /\ cmd \in {"SETUP", "RECORD"}
     => link \in {"open", "eof"}

\* The number of requests since the connection was opened.
Nth(c) == IF c = "ANNOUNCE" THEN 0 ELSE IF c = "SETUP" THEN 1 ELSE 2
Counted ==
  /\ Shaking => cseq = base + Nth(cmd) + (IF pc = "send" THEN 0 ELSE 1)
  /\ pc = "stream" => cseq = base + 3
  /\ InSession => cseq >= base + 3

Named ==
  \/ InSession \/ pc = "stream" \/ (Shaking /\ cmd = "RECORD")
  => session = base + 2 /\ server_port = base + 2

HeadersHeld ==
  /\ pc = "closed" \/ (Asking /\ link = "none" /\ cmd = "SET_PARAMETER")
       => exthds = NoExtraHeaders
  /\ Shaking => /\ exthds["Client-Instance"] = 1
                /\ exthds["Apple-Challenge"] = IF cmd = "ANNOUNCE" THEN 1 ELSE 0

(* An unread "ok" answers the request that waits for one; what follows it  *)
(* is of the same answer.                                                  *)
OnlyOwnOk ==
  /\ Shaking /\ pc = "send" =>
       pending = <<>> /\ \A i \in 1 .. Len(inbox) : inbox[i].kind # "ok"
  /\ Shaking /\ pc = "status" =>
       /\ Len(pending) <= 1
       /\ \A i \in 1 .. Len(pending) : pending[i] = cseq
       /\ \A i \in 1 .. Len(inbox) : inbox[i].kind = "ok" =>
            /\ pending = <<>>
            /\ \A j \in i .. Len(inbox) : /\ inbox[j].cseq = cseq
                                          /\ inbox[j].kind = "ok" => j = i
  /\ (Shaking /\ pc = "headers") \/ pc = "stream" =>
       /\ pending = <<>>
       /\ \A i \in 1 .. Len(inbox) : inbox[i].cseq = cseq /\ inbox[i].kind # "ok"
  /\ pc = "headers" /\ cmd = "SETUP" => \A h \in rkd : h.cseq = cseq
  /\ InSession =>
       /\ \A i \in 1 .. Len(inbox) : inbox[i].cseq > base + 2
       /\ \A i \in 1 .. Len(pending) : pending[i] > base + 2

(* What keeps requests and answers in step without comparing the CSeq.     *)
IInv == TypeOK /\ LinkHeld /\ Counted /\ Named /\ HeadersHeld /\ OnlyOwnOk
=============================================================================
