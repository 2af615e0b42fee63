------------------------ MODULE RelayServerInvariant ------------------------
(***************************************************************************)
(* What every reachable state of RelayServer satisfies, for every number   *)
(* of connections, mailboxes and requests, every quota and every           *)
(* interleaving of handlers, clients and failures: the sessions keep their *)
(* books, and every frame is in one place.                                 *)
(*                                                                         *)
(* What a session has handed to a client and what it still has to write    *)
(* form one sequence, Pipe(c).  A finished write moves its boundary; only  *)
(* a write to a client that is gone takes an element out of it.  Frames    *)
(* are followed from the broker's queues into the pipes.                   *)
(***************************************************************************)
EXTENDS RelayServer, TLAPS

Pipe(c) == inbox[c] \o writeQueue[c]

Reply == [box : MailboxID \cup {Empty}, frame : Frame \cup {Empty}]

Types ==
    /\ DOMAIN queues \subseteq MailboxID
    /\ \A m \in DOMAIN queues : queues[m] \in Seq(Frame)
    /\ reply \in Frame \cup {Empty}
    /\ socket \in [Conn -> {"none", "backlog", "open", "closed"}]
    /\ auth \in [Conn -> BOOLEAN]
    /\ reading \in [Conn -> {"off", "armed", "ready"}]
    /\ writeQueue \in [Conn -> Seq(Reply)]
    /\ inFlight \in [Conn -> Seq(Reply)]
    /\ inbox \in [Conn -> Seq(Reply)]
    /\ up \in [Conn -> BOOLEAN]
    /\ sent \in [Conn -> Seq(Request)]
    /\ taken \in [Conn -> Nat]

\* A session takes what was sent, and a read that has completed has found
\* something to take.
Counted(c) ==
    /\ taken[c] <= Len(sent[c]) /\ Len(sent[c]) <= MaxRequests
    /\ reading[c] = "ready" => taken[c] < Len(sent[c])

\* Before it is accepted a connection has no session.
Untouched(c) ==
    socket[c] \in {"none", "backlog"} =>
        /\ inbox[c] = <<>> /\ writeQueue[c] = <<>> /\ inFlight[c] = <<>>
        /\ taken[c] = 0 /\ ~auth[c] /\ reading[c] = "off"

\* Authentication takes a valid proof of work; a session whose first frame is
\* anything else reads no further.
Gate(c) ==
    /\ auth[c] => \E i \in 1 .. taken[c] : HandleAuthResponse(sent[c][i])
    /\ ~auth[c] => /\ Pipe(c) \in {<<>>, <<Challenge>>}
                   /\ taken[c] > 0 => reading[c] = "off"

\* What is being written is the front of the queue.
Front(c) == inFlight[c] # <<>> => writeQueue[c] # <<>> /\ inFlight[c] = <<Head(writeQueue[c])>>

SessionOf(c) == Counted(c) /\ Untouched(c) /\ Gate(c) /\ Front(c)

SessionInv == Types /\ \A c \in Conn : SessionOf(c)

\* Frame f was taken from an authenticated session and pushed to mailbox m.
Origin(f, m) ==
    f[2] <= taken[f[1]] /\ auth[f[1]] /\ sent[f[1]][f[2]].box = m

\* What is stored, and what is on its way, is what was pushed to the mailbox.
OriginInv ==
    /\ \A m \in DOMAIN queues : \A i \in DOMAIN queues[m] : Origin(queues[m][i], m)
    /\ \A c \in Conn : \A i \in DOMAIN Pipe(c) :
           LET a == Pipe(c)[i]
           IN  a.frame # Empty => /\ Origin(a.frame, a.box)
                                  /\ \E k \in Polls(c) : sent[c][k].box = a.box

\* A frame has one place.
UniqueInv ==
    /\ \A m, n \in DOMAIN queues : \A i \in DOMAIN queues[m], j \in DOMAIN queues[n] :
           queues[m][i] = queues[n][j] => m = n /\ i = j
    /\ \A c, d \in Conn : \A i \in DOMAIN Pipe(c), j \in DOMAIN Pipe(d) :
           Pipe(c)[i].frame # Empty /\ Pipe(c)[i].frame = Pipe(d)[j].frame => c = d /\ i = j
    /\ \A m \in DOMAIN queues, c \in Conn : \A i \in DOMAIN queues[m], j \in DOMAIN Pipe(c) :
           queues[m][i] # Pipe(c)[j].frame

-----------------------------------------------------------------------------
(* Sequences. *)

\* A finished write moves the boundary between what c has and what it will get.
LEMMA MoveBoundary ==
    ASSUME NEW s \in Seq(Reply), NEW t \in Seq(Reply), t # <<>>
    PROVE  Append(s, Head(t)) \o Tail(t) = s \o t
  OBVIOUS

\* A lost write takes one element out.
LEMMA DropElement ==
    ASSUME NEW s \in Seq(Reply), NEW t \in Seq(Reply), t # <<>>
    PROVE  /\ s \o Tail(t) \in Seq(Reply)
           /\ Len(s \o Tail(t)) = Len(s \o t) - 1
           /\ \A j \in 1 .. Len(s \o t) - 1 :
                  (s \o Tail(t))[j] = (s \o t)[IF j <= Len(s) THEN j ELSE j + 1]
  OBVIOUS

LEMMA SeqFacts ==
    ASSUME NEW s \in Seq(Reply)
    PROVE  /\ DOMAIN s = 1 .. Len(s) /\ Len(s) \in Nat
           /\ \A i \in DOMAIN s : s[i] \in Reply
  OBVIOUS

LEMMA ConcatType ==
    ASSUME NEW s \in Seq(Reply), NEW t \in Seq(Reply)
    PROVE  s \o t \in Seq(Reply)
  OBVIOUS

LEMMA PrefixIndex ==
    ASSUME NEW s \in Seq(Reply), NEW t \in Seq(Reply), NEW i \in 1 .. Len(s)
    PROVE  i \in DOMAIN (s \o t) /\ (s \o t)[i] = s[i]
  OBVIOUS

LEMMA LastDropped ==
    ASSUME NEW s \in Seq(Reply), NEW t \in Seq(Reply), t # <<>>, Len(s \o t) <= 1
    PROVE  s \o Tail(t) = <<>>
<1>1. Len(s \o t) = Len(s) + Len(t) /\ Len(s) \in Nat /\ Len(t) \in Nat /\ Len(t) > 0
  OBVIOUS
<1>2. Len(s) + Len(t) <= 1
  BY <1>1, Zenon
<1>3. \A a, b \in Nat : b > 0 /\ a + b <= 1 => a = 0 /\ b = 1
  OBVIOUS
<1>4. Len(s) = 0 /\ Len(t) = 1
  BY <1>1, <1>2, <1>3, Zenon
<1>5. s = <<>> /\ Tail(t) = <<>>
  BY <1>4
<1> QED
  BY <1>5

LEMMA AppendToPipe ==
    ASSUME NEW s \in Seq(Reply), NEW t \in Seq(Reply), NEW x \in Reply
    PROVE  s \o Append(t, x) = Append(s \o t, x)
  OBVIOUS

LEMMA AppendIndex ==
    ASSUME NEW S, NEW s \in Seq(S), NEW x \in S
    PROVE  /\ Append(s, x) \in Seq(S) /\ Len(Append(s, x)) = Len(s) + 1
           /\ DOMAIN Append(s, x) = 1 .. Len(s) + 1 /\ DOMAIN s = 1 .. Len(s)
           /\ Len(s) \in Nat
           /\ \A i \in 1 .. Len(s) : Append(s, x)[i] = s[i]
           /\ Append(s, x)[Len(s) + 1] = x
  OBVIOUS

\* ProcessWriteQueue starts the write of the front when none is in progress.
LEMMA PendingFront ==
    ASSUME NEW pending \in Seq(Reply), NEW q \in Seq(Reply), NEW x \in Reply,
           pending # <<>> => q # <<>> /\ pending = <<Head(q)>>
    PROVE  /\ Pending(pending, Append(q, x)) = <<Head(Append(q, x))>>
           /\ Append(q, x) # <<>>
           /\ Pending(pending, Append(q, x)) \in Seq(Reply)
<1>1. Append(q, x) # <<>> /\ Append(q, x) \in Seq(Reply) /\ Head(Append(q, x)) \in Reply
  OBVIOUS
<1>2. q # <<>> => Head(Append(q, x)) = Head(q)
  OBVIOUS
<1> QED
  BY <1>1, <1>2 DEF Pending

LEMMA NextPending ==
    ASSUME NEW pending \in Seq(Reply), NEW q \in Seq(Reply),
           pending # <<>>, q # <<>>, pending = <<Head(q)>>
    PROVE  /\ Tail(pending) = <<>>
           /\ Tail(q) \in Seq(Reply)
           /\ Pending(Tail(pending), Tail(q)) \in Seq(Reply)
           /\ Pending(Tail(pending), Tail(q)) # <<>> =>
                  Tail(q) # <<>> /\ Pending(Tail(pending), Tail(q)) = <<Head(Tail(q))>>
<1>1. Tail(pending) = <<>> /\ Tail(q) \in Seq(Reply)
  OBVIOUS
<1>2. Tail(q) # <<>> => <<Head(Tail(q))>> \in Seq(Reply)
  BY <1>1
<1>3. <<>> \in Seq(Reply)
  OBVIOUS
<1> QED
  BY <1>1, <1>2, <1>3, Zenon DEF Pending

-----------------------------------------------------------------------------
(* Sessions. *)

\* A handler or a client touches one connection.
Actions(c) ==
    \/ ClientConnect(c) \/ ClientLeave(c) \/ (\E r \in Requests : ClientSend(c, r))
    \/ HandleAccept(c) \/ AcceptFails(c)
    \/ ReadCompletes(c) \/ ReadFails(c) \/ HandleRead(c)
    \/ WriteDone(c) \/ WriteFails(c)

Same(d) ==
    /\ socket'[d] = socket[d] /\ auth'[d] = auth[d] /\ reading'[d] = reading[d]
    /\ writeQueue'[d] = writeQueue[d] /\ inFlight'[d] = inFlight[d]
    /\ inbox'[d] = inbox[d] /\ up'[d] = up[d] /\ sent'[d] = sent[d] /\ taken'[d] = taken[d]

LEMMA Local ==
    ASSUME Types, NEW c \in Conn, Actions(c)
    PROVE  \A d \in Conn \ {c} : Same(d)
<1> USE DEF Types, Same
<1>1. CASE ClientConnect(c) \/ ClientLeave(c) \/ (\E r \in Requests : ClientSend(c, r))
  BY <1>1, Zenon DEF ClientConnect, ClientLeave, ClientSend, session
<1>2. CASE HandleAccept(c)
  BY <1>2 DEF HandleAccept, DoWrite, session, client
<1>3. CASE AcceptFails(c) \/ ReadCompletes(c) \/ ReadFails(c)
  BY <1>3, Zenon DEF AcceptFails, ReadCompletes, ReadFails, Release, session, client
<1>4. CASE HandleRead(c)
  BY <1>4, Zenon DEF HandleRead, Dispatch, DoWrite, client
<1>5. CASE WriteDone(c) \/ WriteFails(c)
  BY <1>5 DEF WriteDone, WriteFails, Release, client
<1> QED
  BY <1>1, <1>2, <1>3, <1>4, <1>5, Zenon DEF Actions

LEMMA SameSession ==
    ASSUME NEW d \in Conn, Same(d), SessionOf(d)
    PROVE  SessionOf(d)'
  BY Zenon DEF Same, SessionOf, Counted, Untouched, Gate, Front, Pipe

\* What a push does to the hash map.
LEMMA PushEffect ==
    ASSUME Types, NEW m \in MailboxID, NEW f \in Frame, Broker!ProcessPush(m, f)
    PROVE  /\ reply' = reply
           /\ DOMAIN queues' = DOMAIN queues \cup {m}
           /\ \A x \in DOMAIN queues' : queues'[x] \in Seq(Frame)
           /\ \A x \in DOMAIN queues : x # m => queues'[x] = queues[x]
           /\ Broker!Queue(m) \in Seq(Frame)
           /\ m \in DOMAIN queues => Broker!Queue(m) = queues[m]
           /\ queues'[m] = IF Len(Broker!Queue(m)) >= MaxMessages
                            THEN Broker!Queue(m) ELSE Append(Broker!Queue(m), f)
<1>1. Broker!Queue(m) \in Seq(Frame)
  BY DEF Types, Broker!Queue
<1>2. Append(Broker!Queue(m), f) \in Seq(Frame)
  BY <1>1
<1>3. m \in DOMAIN queues => Broker!Queue(m) = queues[m]
  BY Zenon DEF Broker!Queue
<1> QED
  BY <1>1, <1>2, <1>3, Zenon DEF Types, Broker!ProcessPush, Broker!WithEntry

\* What a poll does to it.
LEMMA PollEffect ==
    ASSUME Types, NEW m \in MailboxID, Broker!ProcessPoll(m)
    PROVE  /\ DOMAIN queues' \subseteq DOMAIN queues
           /\ \A x \in DOMAIN queues' : queues'[x] \in Seq(Frame)
           /\ reply' \in Frame \cup {Empty}
           /\ \A x \in DOMAIN queues : x # m => x \in DOMAIN queues' /\ queues'[x] = queues[x]
           /\ reply' = Empty => queues' = queues
           /\ reply' # Empty => /\ m \in DOMAIN queues /\ queues[m] # <<>>
                                /\ queues[m] \in Seq(Frame)
                                /\ reply' = Head(queues[m])
                                /\ m \in DOMAIN queues' => queues'[m] = Tail(queues[m])
                                /\ m \notin DOMAIN queues' => Tail(queues[m]) = <<>>
<1>1. CASE Broker!Queue(m) = <<>>
  BY <1>1, Zenon DEF Types, Broker!ProcessPoll
<1>2. CASE Broker!Queue(m) # <<>>
  <2>1. m \in DOMAIN queues /\ Broker!Queue(m) = queues[m] /\ queues[m] \in Seq(Frame)
    BY <1>2, Zenon DEF Types, Broker!Queue
  <2>2. Tail(queues[m]) \in Seq(Frame) /\ Head(queues[m]) \in Frame
    BY <1>2, <2>1
  <2>3. Head(queues[m]) # Empty
    BY <2>2, RelayAssumption, Zenon
  <2>4. CASE Tail(queues[m]) = <<>>
    <3>1. reply' = Head(queues[m]) /\ queues' = [x \in DOMAIN queues \ {m} |-> queues[x]]
      BY <1>2, <2>1, <2>4, Zenon DEF Broker!ProcessPoll, Broker!WithoutEntry
    <3> QED
      BY <1>2, <2>1, <2>2, <2>3, <2>4, <3>1, Zenon DEF Types
  <2>5. CASE Tail(queues[m]) # <<>>
    <3>1. /\ reply' = Head(queues[m])
          /\ queues' = [x \in DOMAIN queues \cup {m} |->
                           IF x = m THEN Tail(queues[m]) ELSE queues[x]]
      BY <1>2, <2>1, <2>5, Zenon DEF Broker!ProcessPoll, Broker!WithEntry
    <3> QED
      BY <1>2, <2>1, <2>2, <2>3, <3>1, Zenon DEF Types
  <2> QED
    BY <2>4, <2>5, Zenon
<1> QED
  BY <1>1, <1>2, Zenon

\* What the read handler does with a frame.
Reject(c, r) ==
    /\ r.action = "MALFORMED" \/ (~auth[c] /\ ~HandleAuthResponse(r))
    /\ socket' = [socket EXCEPT ![c] = "closed"]
    /\ UNCHANGED <<broker, auth, writeQueue, inFlight>>
Admit(c, r) ==
    /\ ~auth[c] /\ HandleAuthResponse(r)
    /\ auth' = [auth EXCEPT ![c] = TRUE]
    /\ UNCHANGED <<broker, socket, writeQueue, inFlight>>
Push(c, r) ==
    /\ auth[c] /\ r.action \in {"PUSH", "ACK"}
    /\ Broker!ProcessPush(r.box, <<c, taken[c] + 1>>)
    /\ UNCHANGED <<writeQueue, inFlight, socket, auth>>
Poll(c, r) ==
    /\ auth[c] /\ r.action = "POLL"
    /\ Broker!ProcessPoll(r.box)
    /\ DoWrite(c, Answer(r.box, reply'))
    /\ UNCHANGED <<socket, auth>>
Ignore(c, r) ==
    /\ auth[c] /\ r.action \in {"AUTH_CHALLENGE", "AUTH_RESPONSE"}
    /\ UNCHANGED <<broker, writeQueue, inFlight, socket, auth>>

LEMMA ReadCases ==
    ASSUME SessionInv, NEW c \in Conn, HandleRead(c), NEW r, r = sent[c][taken[c] + 1]
    PROVE  /\ reading[c] = "ready"
           /\ taken[c] \in Nat /\ taken[c] + 1 \in 1 .. Len(sent[c])
           /\ <<c, taken[c] + 1>> \in Frame
           /\ r \in Request
           /\ r.action \in {"PUSH", "ACK", "POLL"} => r.box \in MailboxID
           /\ taken' = [taken EXCEPT ![c] = taken[c] + 1]
           /\ reading' = [reading EXCEPT ![c] = IF socket'[c] = "open" THEN "armed" ELSE "off"]
           /\ UNCHANGED client
           /\ Reject(c, r) \/ Admit(c, r) \/ Push(c, r) \/ Poll(c, r) \/ Ignore(c, r)
<1>1. reading[c] = "ready" /\ taken[c] \in Nat /\ sent[c] \in Seq(Request)
  BY Zenon DEF HandleRead, SessionInv, Types
<1>2. taken[c] < Len(sent[c]) /\ Len(sent[c]) <= MaxRequests
  BY <1>1, Zenon DEF SessionInv, SessionOf, Counted
<1>3. taken[c] + 1 \in 1 .. Len(sent[c]) /\ taken[c] + 1 \in 1 .. MaxRequests
  BY <1>1, <1>2, RelayAssumption
<1>4. r \in Request
  BY <1>1, <1>3
<1>5. r.action \in {"PUSH", "ACK", "POLL"} => r.box \in MailboxID
  BY <1>4, Zenon DEF Request
<1>6. Reject(c, r) \/ Admit(c, r) \/ Push(c, r) \/ Poll(c, r) \/ Ignore(c, r)
  BY Zenon DEF HandleRead, Dispatch, Reject, Admit, Push, Poll, Ignore
<1> QED
  BY <1>1, <1>3, <1>4, <1>5, <1>6, Zenon DEF HandleRead, Frame, SessionInv, Types

\* The answer to a poll joins the end of the session's sequence.
LEMMA PollWrites ==
    ASSUME SessionInv, NEW c \in Conn, NEW r \in Request, r.box \in MailboxID,
           Poll(c, r), UNCHANGED client
    PROVE  /\ Answer(r.box, reply') \in Reply
           /\ writeQueue' \in [Conn -> Seq(Reply)] /\ inFlight' \in [Conn -> Seq(Reply)]
           /\ writeQueue'[c] = Append(writeQueue[c], Answer(r.box, reply'))
           /\ writeQueue'[c] # <<>> /\ inFlight'[c] = <<Head(writeQueue'[c])>>
           /\ Pipe(c)' = Append(Pipe(c), Answer(r.box, reply'))
<1> DEFINE a == Answer(r.box, reply')
<1>1. a \in Reply
  BY PollEffect, Zenon DEF SessionInv, Poll, Answer, Reply
<1>2. writeQueue[c] \in Seq(Reply) /\ inFlight[c] \in Seq(Reply) /\ inbox[c] \in Seq(Reply)
  BY Zenon DEF SessionInv, Types
<1>3. inFlight[c] # <<>> => writeQueue[c] # <<>> /\ inFlight[c] = <<Head(writeQueue[c])>>
  BY Zenon DEF SessionInv, SessionOf, Front
<1> HIDE DEF a
<1>4. /\ Pending(inFlight[c], Append(writeQueue[c], a)) = <<Head(Append(writeQueue[c], a))>>
      /\ Append(writeQueue[c], a) # <<>> /\ Append(writeQueue[c], a) \in Seq(Reply)
      /\ Pending(inFlight[c], Append(writeQueue[c], a)) \in Seq(Reply)
  BY <1>1, <1>2, <1>3, PendingFront, AppendIndex, ZenonT(20)
<1>5. /\ writeQueue' = [writeQueue EXCEPT ![c] = Append(writeQueue[c], a)]
      /\ inFlight' = [inFlight EXCEPT ![c] = Pending(inFlight[c], Append(writeQueue[c], a))]
  BY Zenon DEF Poll, DoWrite, SessionInv, Types, a
<1>6. inbox[c] \o Append(writeQueue[c], a) = Append(inbox[c] \o writeQueue[c], a)
  BY <1>1, <1>2, AppendToPipe, Zenon
<1>7. inbox' = inbox
  BY Zenon DEF client
<1> QED
  BY <1>1, <1>2, <1>4, <1>5, <1>6, <1>7, Zenon DEF SessionInv, Types, Pipe, a

\* A finished write is handed to the client or lost with it.
LEMMA WriteEffect ==
    ASSUME SessionInv, NEW c \in Conn, WriteDone(c) \/ WriteFails(c)
    PROVE  /\ writeQueue' \in [Conn -> Seq(Reply)] /\ inFlight' \in [Conn -> Seq(Reply)]
           /\ inbox' \in [Conn -> Seq(Reply)]
           /\ socket' \in [Conn -> {"none", "backlog", "open", "closed"}]
           /\ socket'[c] \in {"open", "closed"}
           /\ writeQueue[c] # <<>>
           /\ Front(c)'
           /\ UNCHANGED <<broker, auth, reading, taken, up, sent>>
           /\ \/ socket[c] = "open" /\ up[c] /\ Pipe(c)' = Pipe(c)
              \/ /\ socket'[c] = "closed" \/ ~up[c]
                 /\ inbox'[c] = inbox[c]
                 /\ Pipe(c)' = inbox[c] \o Tail(writeQueue[c])
<1>1. /\ writeQueue[c] \in Seq(Reply) /\ inFlight[c] \in Seq(Reply) /\ inbox[c] \in Seq(Reply)
      /\ socket[c] \in {"none", "backlog", "open", "closed"}
  BY Zenon DEF SessionInv, Types
<1>2. inFlight[c] # <<>>
  BY Zenon DEF WriteDone, WriteFails
<1>3. writeQueue[c] # <<>> /\ inFlight[c] = <<Head(writeQueue[c])>>
  BY <1>2, Zenon DEF SessionInv, SessionOf, Front
<1>4. socket[c] \in {"open", "closed"}
  BY <1>1, <1>2, Zenon DEF SessionInv, SessionOf, Untouched
<1>5. /\ Tail(inFlight[c]) = <<>>
      /\ Tail(writeQueue[c]) \in Seq(Reply) /\ Head(writeQueue[c]) \in Reply
      /\ Head(inFlight[c]) = Head(writeQueue[c])
      /\ Pending(Tail(inFlight[c]), Tail(writeQueue[c])) \in Seq(Reply)
      /\ Pending(Tail(inFlight[c]), Tail(writeQueue[c])) # <<>> =>
             /\ Tail(writeQueue[c]) # <<>>
             /\ Pending(Tail(inFlight[c]), Tail(writeQueue[c])) = <<Head(Tail(writeQueue[c]))>>
  <2>1. Tail(writeQueue[c]) \in Seq(Reply) /\ Head(writeQueue[c]) \in Reply
    BY <1>1, <1>3
  <2>2. Head(inFlight[c]) = Head(writeQueue[c])
    BY <1>3
  <2> QED
    BY <1>1, <1>2, <1>3, <2>1, <2>2, NextPending, Zenon
<1>6. CASE WriteDone(c)
  <2>1. /\ writeQueue' = [writeQueue EXCEPT ![c] = Tail(writeQueue[c])]
        /\ inFlight' = [inFlight EXCEPT ![c] = Pending(Tail(inFlight[c]), Tail(writeQueue[c]))]
        /\ inbox' = [inbox EXCEPT ![c] = IF up[c] THEN Append(inbox[c], Head(inFlight[c]))
                                                  ELSE inbox[c]]
        /\ socket' = [socket EXCEPT ![c] = socket'[c]]
        /\ socket[c] = "open" /\ socket'[c] \in {"open", "closed"}
        /\ UNCHANGED <<broker, auth, reading, taken, up, sent>>
    BY <1>4, <1>6, Zenon DEF WriteDone, Release, SessionInv, Types
  <2>2. Front(c)'
    BY <1>5, <2>1, Zenon DEF Front, SessionInv, Types
  <2>3. Append(inbox[c], Head(writeQueue[c])) \in Seq(Reply)
    BY <1>1, <1>5
  <2>4. Append(inbox[c], Head(writeQueue[c])) \o Tail(writeQueue[c]) = inbox[c] \o writeQueue[c]
    BY <1>1, <1>3, MoveBoundary, Zenon
  <2> QED
    BY <1>1, <1>3, <1>5, <2>1, <2>2, <2>3, <2>4, Zenon DEF SessionInv, Types, Pipe
<1>7. CASE WriteFails(c)
  <2>1. /\ writeQueue' = [writeQueue EXCEPT ![c] = Tail(writeQueue[c])]
        /\ inFlight' = [inFlight EXCEPT ![c] = Tail(inFlight[c])]
        /\ socket' = [socket EXCEPT ![c] = "closed"]
        /\ inbox' = inbox
        /\ UNCHANGED <<broker, auth, reading, taken, up, sent>>
    BY <1>7, Zenon DEF WriteFails, client
  <2>2. Front(c)'
    BY <1>5, <2>1, Zenon DEF Front, SessionInv, Types
  <2> QED
    BY <1>3, <1>5, <2>1, <2>2, SMTT(30) DEF SessionInv, Types, Pipe
<1> QED
  BY <1>6, <1>7, Zenon

LEMMA SessionInit == Init => SessionInv
<1> SUFFICES ASSUME Init PROVE SessionInv
  BY Zenon
<1>1. Types
  BY DEF Init, Broker!StoreInit, Types
<1>2. ASSUME NEW c \in Conn PROVE SessionOf(c)
  <2>1. Pipe(c) = <<>>
    BY DEF Init, Pipe
  <2> QED
    BY <2>1, RelayAssumption DEF Init, SessionOf, Counted, Untouched, Gate, Front
<1> QED
  BY <1>1, <1>2, Zenon DEF SessionInv

LEMMA ClientSession ==
    ASSUME SessionInv, NEW c \in Conn,
           ClientConnect(c) \/ ClientLeave(c) \/ (\E r \in Requests : ClientSend(c, r))
    PROVE  Types' /\ SessionOf(c)'
<1>1. CASE ClientConnect(c)
  BY <1>1, Zenon
     DEF ClientConnect, SessionInv, Types, SessionOf, Counted, Untouched, Gate, Front, Pipe,
              broker, session
<1>2. CASE ClientLeave(c)
  BY <1>2, Zenon
     DEF ClientLeave, SessionInv, Types, SessionOf, Counted, Untouched, Gate, Front, Pipe,
              broker, session
<1>3. ASSUME NEW r \in Requests, ClientSend(c, r) PROVE Types' /\ SessionOf(c)'
  <2>1. /\ sent' = [sent EXCEPT ![c] = Append(sent[c], r)] /\ Len(sent[c]) < MaxRequests
        /\ UNCHANGED <<broker, socket, session, up, inbox>>
    BY <1>3, Zenon DEF ClientSend
  <2>2. sent[c] \in Seq(Request) /\ r \in Request
    BY RelayAssumption, Zenon DEF SessionInv, Types
  <2>3. /\ Append(sent[c], r) \in Seq(Request) /\ Len(Append(sent[c], r)) = Len(sent[c]) + 1
        /\ Len(sent[c]) \in Nat
        /\ \A i \in 1 .. Len(sent[c]) : Append(sent[c], r)[i] = sent[c][i]
    BY <2>2, AppendIndex
  <2>4. Types'
    BY <2>1, <2>3, Zenon DEF SessionInv, Types, broker, session
  <2>5. sent'[c] = Append(sent[c], r) /\ taken[c] \in Nat /\ taken[c] <= Len(sent[c])
    BY <2>1, Zenon DEF SessionInv, Types, SessionOf, Counted
  <2>6. \A i \in 1 .. taken[c] : sent'[c][i] = sent[c][i]
    BY <2>3, <2>5
  <2>7. Counted(c)'
    BY <2>1, <2>3, <2>5, RelayAssumption DEF SessionInv, SessionOf, Counted, session
  <2>8. Gate(c)'
    BY <2>1, <2>6, Zenon DEF SessionInv, SessionOf, Gate, Pipe, session
  <2>9. Untouched(c)' /\ Front(c)'
    BY <2>1, Zenon DEF SessionInv, SessionOf, Untouched, Front, session
  <2> QED
    BY <2>4, <2>7, <2>8, <2>9, Zenon DEF SessionOf
<1> QED
  BY <1>1, <1>2, <1>3, Zenon

LEMMA AcceptEffect ==
    ASSUME SessionInv, NEW c \in Conn, HandleAccept(c), ~quota
    PROVE  /\ writeQueue' = [writeQueue EXCEPT ![c] = <<Challenge>>]
           /\ inFlight' = [inFlight EXCEPT ![c] = <<Challenge>>]
           /\ socket' = [socket EXCEPT ![c] = "open"]
           /\ reading' = [reading EXCEPT ![c] = "armed"]
           /\ UNCHANGED <<broker, auth, taken, client>>
           /\ inbox[c] = <<>> /\ writeQueue[c] = <<>> /\ taken[c] = 0 /\ ~auth[c]
           /\ Challenge \in Reply
           /\ Pipe(c) = <<>> /\ Pipe(c)' = <<Challenge>>
<1>1. /\ inbox[c] = <<>> /\ writeQueue[c] = <<>> /\ inFlight[c] = <<>>
      /\ taken[c] = 0 /\ ~auth[c]
  BY Zenon DEF HandleAccept, SessionInv, SessionOf, Untouched
<1>2. Append(<<>>, Challenge) = <<Challenge>> /\ Pending(<<>>, <<Challenge>>) = <<Challenge>>
  BY DEF Pending
<1>3. /\ writeQueue' = [writeQueue EXCEPT ![c] = Append(writeQueue[c], Challenge)]
      /\ inFlight' = [inFlight EXCEPT ![c] = Pending(inFlight[c], Append(writeQueue[c], Challenge))]
      /\ socket' = [socket EXCEPT ![c] = "open"]
      /\ reading' = [reading EXCEPT ![c] = "armed"]
      /\ UNCHANGED <<broker, auth, taken, client>>
  BY Zenon DEF HandleAccept, DoWrite, SessionInv, Types
<1>4. Challenge \in Reply
  BY Zenon DEF Challenge, Reply
<1>5. writeQueue'[c] = <<Challenge>> /\ inbox'[c] = <<>>
  BY <1>1, <1>2, <1>3, Zenon DEF SessionInv, Types, client
<1>6. <<>> \o <<Challenge>> = <<Challenge>> /\ <<>> \o <<>> = <<>>
  BY <1>4
<1>7. Pipe(c) = <<>> /\ Pipe(c)' = <<Challenge>>
  BY <1>1, <1>5, <1>6, Zenon DEF Pipe
<1>8. /\ writeQueue' = [writeQueue EXCEPT ![c] = <<Challenge>>]
      /\ inFlight' = [inFlight EXCEPT ![c] = <<Challenge>>]
  BY <1>1, <1>2, <1>3, Zenon
<1> QED
  BY <1>1, <1>3, <1>4, <1>7, <1>8, Zenon

LEMMA AcceptSession ==
    ASSUME SessionInv, NEW c \in Conn, HandleAccept(c) \/ AcceptFails(c)
    PROVE  Types' /\ SessionOf(c)'
<1>1. CASE HandleAccept(c) /\ ~quota
  <2>1. Types'
    <3>1. <<Challenge>> \in Seq(Reply)
      BY <1>1, AcceptEffect
    <3>2. /\ writeQueue' = [writeQueue EXCEPT ![c] = <<Challenge>>]
          /\ inFlight' = [inFlight EXCEPT ![c] = <<Challenge>>]
          /\ socket' = [socket EXCEPT ![c] = "open"]
          /\ reading' = [reading EXCEPT ![c] = "armed"]
          /\ UNCHANGED <<queues, reply, auth, taken, up, sent, inbox>>
      BY <1>1, AcceptEffect, Zenon DEF broker, client
    <3> QED
      BY <3>1, <3>2, Zenon DEF SessionInv, Types
  <2>2. Counted(c)' /\ Untouched(c)'
    BY <1>1, AcceptEffect, Zenon DEF SessionInv, Types, SessionOf, Counted, Untouched, client
  <2>3. Gate(c)'
    <3>1. ~auth'[c] /\ taken'[c] = 0 /\ Pipe(c)' = <<Challenge>>
      BY <1>1, AcceptEffect, Zenon
    <3>2. ~(taken'[c] > 0)
      BY <3>1
    <3> QED
      BY <3>1, <3>2, Zenon DEF Gate
  <2>4. Front(c)'
    BY <1>1, AcceptEffect DEF SessionInv, Types, Front
  <2> QED
    BY <2>1, <2>2, <2>3, <2>4, Zenon DEF SessionOf
<1>2. CASE ~(HandleAccept(c) /\ ~quota)
  <2>1. socket' = [socket EXCEPT ![c] = "closed"] /\ UNCHANGED <<broker, session, client>>
    BY <1>2, Zenon DEF HandleAccept, AcceptFails
  <2> QED
    BY <2>1, Zenon DEF SessionInv, Types, SessionOf, Counted, Untouched, Gate, Front, Pipe,
                broker, session, client
<1> QED
  BY <1>1, <1>2, Zenon

LEMMA ReadArmsSession ==
    ASSUME SessionInv, NEW c \in Conn, ReadCompletes(c) \/ ReadFails(c)
    PROVE  Types' /\ SessionOf(c)'
<1>1. CASE ReadCompletes(c)
  <2>1. /\ reading' = [reading EXCEPT ![c] = "ready"]
        /\ socket[c] = "open" /\ reading[c] = "armed" /\ taken[c] < Len(sent[c])
        /\ UNCHANGED <<broker, socket, auth, writeQueue, inFlight, taken, client>>
    BY <1>1, Zenon DEF ReadCompletes
  <2>2. ~auth[c] => ~(taken[c] > 0)
    BY <2>1, Zenon DEF SessionInv, SessionOf, Gate
  <2> QED
    BY <2>1, <2>2, Zenon DEF SessionInv, Types, SessionOf, Counted, Untouched, Gate, Front, Pipe,
                      broker, client
<1>2. CASE ReadFails(c)
  <2>1. /\ reading' = [reading EXCEPT ![c] = "off"] /\ reading[c] = "armed"
        /\ socket' = [socket EXCEPT ![c] = IF inFlight[c] = <<>> THEN "closed" ELSE socket[c]]
        /\ UNCHANGED <<broker, auth, writeQueue, inFlight, taken, client>>
    BY <1>2, Zenon DEF ReadFails, Release, SessionInv, Types
  <2>2. socket[c] \notin {"none", "backlog"}
    BY <2>1, Zenon DEF SessionInv, SessionOf, Untouched
  <2> QED
    BY <2>1, <2>2, Zenon DEF SessionInv, Types, SessionOf, Counted, Untouched, Gate, Front, Pipe,
                      broker, client
<1> QED
  BY <1>1, <1>2, Zenon

LEMMA ReadSession ==
    ASSUME SessionInv, NEW c \in Conn, HandleRead(c)
    PROVE  Types' /\ SessionOf(c)'
<1> DEFINE r == sent[c][taken[c] + 1]
<1>1. /\ reading[c] = "ready"
      /\ taken[c] \in Nat /\ taken[c] + 1 \in 1 .. Len(sent[c]) /\ Len(sent[c]) \in Nat
      /\ <<c, taken[c] + 1>> \in Frame
      /\ r \in Request
      /\ r.action \in {"PUSH", "ACK", "POLL"} => r.box \in MailboxID
      /\ taken' = [taken EXCEPT ![c] = taken[c] + 1]
      /\ reading' = [reading EXCEPT ![c] = IF socket'[c] = "open" THEN "armed" ELSE "off"]
      /\ UNCHANGED client
      /\ Reject(c, r) \/ Admit(c, r) \/ Push(c, r) \/ Poll(c, r) \/ Ignore(c, r)
  BY ReadCases DEF SessionInv, Types
<1> HIDE DEF r
<1>2. /\ taken' \in [Conn -> Nat] /\ taken'[c] = taken[c] + 1
      /\ reading' \in [Conn -> {"off", "armed", "ready"}] /\ reading'[c] \in {"off", "armed"}
      /\ reading'[c] = "armed" => socket'[c] = "open"
      /\ UNCHANGED <<inbox, up, sent>>
  BY <1>1 DEF SessionInv, Types, client
<1>3. Counted(c)'
  BY <1>1, <1>2 DEF SessionInv, SessionOf, Counted
<1>4. socket[c] \in {"open", "closed"}
  BY <1>1, Zenon DEF SessionInv, Types, SessionOf, Untouched
<1>5. \A i \in 1 .. taken[c] : i \in 1 .. taken'[c]
  BY <1>1, <1>2
<1>6. auth[c] => \E i \in 1 .. taken'[c] : HandleAuthResponse(sent'[c][i])
  BY <1>2, <1>5, Zenon DEF SessionInv, SessionOf, Gate
<1>7. CASE Reject(c, r) \/ Admit(c, r)
  <2>1. Types'
    BY <1>2, <1>7, Zenon DEF Reject, Admit, SessionInv, Types, broker
  <2>2. Untouched(c)' /\ Front(c)'
    BY <1>4, <1>2, <1>7, Zenon DEF Reject, Admit, SessionInv, Types, SessionOf, Untouched, Front
  <2>3. Pipe(c)' = Pipe(c)
    BY <1>2, <1>7, Zenon DEF Reject, Admit, Pipe
  <2>4. Gate(c)'
    <3>1. CASE Reject(c, r)
      <4>1. socket'[c] = "closed" /\ auth' = auth
        BY <3>1, Zenon DEF Reject, SessionInv, Types
      <4> QED
        BY <1>2, <1>6, <2>3, <4>1, Zenon DEF Gate, SessionInv, SessionOf
    <3>2. CASE Admit(c, r)
      <4>1. HandleAuthResponse(sent'[c][taken[c] + 1]) /\ auth'[c]
        BY <1>2, <3>2, Zenon DEF Admit, r, SessionInv, Types
      <4>2. taken[c] + 1 \in 1 .. taken'[c]
        BY <1>1, <1>2
      <4> QED
        BY <4>1, <4>2, Zenon DEF Gate
    <3> QED
      BY <1>7, <3>1, <3>2, Zenon
  <2> QED
    BY <1>3, <2>1, <2>2, <2>4, Zenon DEF SessionOf
<1>8. CASE Push(c, r)
  <2>1. /\ r.box \in MailboxID /\ Broker!ProcessPush(r.box, <<c, taken[c] + 1>>)
        /\ UNCHANGED <<writeQueue, inFlight, socket, auth>> /\ auth[c]
    BY <1>1, <1>8, Zenon DEF Push
  <2>2. Types'
    <3>1. /\ reply' = reply /\ DOMAIN queues' = DOMAIN queues \cup {r.box}
          /\ \A x \in DOMAIN queues' : queues'[x] \in Seq(Frame)
      BY <1>1, <2>1, PushEffect, Zenon DEF SessionInv
    <3> QED
      BY <1>2, <2>1, <3>1, Zenon DEF SessionInv, Types
  <2>3. Untouched(c)' /\ Front(c)' /\ Gate(c)'
    BY <1>2, <1>4, <1>6, <2>1, Zenon DEF SessionInv, SessionOf, Untouched, Front, Gate
  <2> QED
    BY <1>3, <2>2, <2>3, Zenon DEF SessionOf
<1>9. CASE Poll(c, r)
  <2>1. /\ r.box \in MailboxID /\ Broker!ProcessPoll(r.box) /\ r \in Request
        /\ UNCHANGED <<socket, auth>> /\ auth[c]
    BY <1>1, <1>9, Zenon DEF Poll
  <2>2. /\ writeQueue' \in [Conn -> Seq(Reply)] /\ inFlight' \in [Conn -> Seq(Reply)]
        /\ writeQueue'[c] # <<>> /\ inFlight'[c] = <<Head(writeQueue'[c])>>
    BY <1>1, <1>9, <2>1, PollWrites, Zenon
  <2>3. Types'
    BY <1>2, <2>1, <2>2, PollEffect, Zenon DEF SessionInv, Types
  <2>4. Untouched(c)' /\ Front(c)' /\ Gate(c)'
    BY <1>4, <1>6, <2>1, <2>2, Zenon DEF Untouched, Front, Gate
  <2> QED
    BY <1>3, <2>3, <2>4, Zenon DEF SessionOf
<1>10. CASE Ignore(c, r)
  <2>1. Types'
    BY <1>2, <1>10, Zenon DEF Ignore, SessionInv, Types, broker
  <2>2. Untouched(c)' /\ Front(c)' /\ Gate(c)'
    BY <1>2, <1>4, <1>6, <1>10, Zenon DEF Ignore, SessionInv, SessionOf, Untouched, Front, Gate
  <2> QED
    BY <1>3, <2>1, <2>2, Zenon DEF SessionOf
<1> QED
  BY <1>1, <1>7, <1>8, <1>9, <1>10, Zenon

LEMMA WriteSession ==
    ASSUME SessionInv, NEW c \in Conn, WriteDone(c) \/ WriteFails(c)
    PROVE  Types' /\ SessionOf(c)'
<1>1. Types'
  BY WriteEffect, Zenon DEF SessionInv, Types, broker
<1>2. Counted(c)' /\ Untouched(c)' /\ Front(c)'
  BY WriteEffect, Zenon DEF SessionInv, SessionOf, Counted, Untouched
<1>3. Gate(c)'
  <2>1. CASE auth[c]
    BY <2>1, WriteEffect, Zenon DEF SessionInv, SessionOf, Gate
  <2>2. CASE ~auth[c]
    <3>1. inbox[c] \in Seq(Reply) /\ writeQueue[c] \in Seq(Reply) /\ writeQueue[c] # <<>>
      BY WriteEffect, Zenon DEF SessionInv, Types
    <3>2. inbox[c] \o writeQueue[c] \in {<<>>, <<Challenge>>}
      BY <2>2, Zenon DEF SessionInv, SessionOf, Gate, Pipe
    <3>3. inbox[c] \o Tail(writeQueue[c]) = <<>>
      <4>1. Len(<<>>) <= 1 /\ Len(<<Challenge>>) <= 1
        OBVIOUS
      <4>2. Len(inbox[c] \o writeQueue[c]) <= 1
        BY <3>2, <4>1, Zenon
      <4> QED
        BY <3>1, <4>2, LastDropped, Zenon
    <3>4. Pipe(c)' \in {<<>>, <<Challenge>>}
      BY <3>2, <3>3, WriteEffect, Zenon DEF Pipe
    <3> QED
      BY <2>2, <3>4, WriteEffect, Zenon DEF SessionInv, SessionOf, Gate
  <2> QED
    BY <2>1, <2>2, Zenon
<1> QED
  BY <1>1, <1>2, <1>3, Zenon DEF SessionOf

LEMMA NextCases ==
    ASSUME [Next]_vars
    PROVE  \/ \E c \in Conn : Actions(c)
           \/ UNCHANGED <<broker, socket, session, client>>
  BY Zenon DEF Next, Actions, MemoryChanges, CheckMemory, vars

LEMMA SessionStep == SessionInv /\ [Next]_vars => SessionInv'
<1> SUFFICES ASSUME SessionInv, [Next]_vars PROVE SessionInv'
  BY Zenon
<1>1. CASE UNCHANGED <<broker, socket, session, client>>
  BY <1>1, Zenon DEF SessionInv, Types, SessionOf, Counted, Untouched, Gate, Front, Pipe,
              broker, session, client
<1>2. ASSUME NEW c \in Conn, Actions(c) PROVE SessionInv'
  <2>1. Types' /\ SessionOf(c)'
    BY <1>2, ClientSession, AcceptSession, ReadArmsSession, ReadSession, WriteSession, Zenon
       DEF Actions
  <2>2. \A d \in Conn \ {c} : SessionOf(d)'
    BY <1>2, Local, SameSession, Zenon DEF SessionInv
  <2> QED
    BY <2>1, <2>2, Zenon DEF SessionInv
<1> QED
  BY <1>1, <1>2, NextCases, Zenon

\* Every variable of the relay keeps its type, and every session keeps its
\* books, through any interleaving of handlers, clients and failures.
THEOREM SessionsSound == Spec => []SessionInv
  BY SessionInit, SessionStep, PTL DEF Spec

\* ProcessWriteQueue never lets asio write from a buffer that is popped or
\* overtaken before the write is finished.
THEOREM WritesFromFrontHolds == Spec => []WritesFromFront
<1>1. SessionInv => WritesFromFront
  BY Zenon DEF SessionInv, SessionOf, Front, WritesFromFront
<1> QED
  BY <1>1, SessionsSound, PTL

-----------------------------------------------------------------------------
(* What no step takes back. *)

Grows(d) ==
    /\ taken[d] \in Nat /\ taken'[d] \in Nat /\ taken[d] <= taken'[d]
    /\ \A i \in 1 .. taken[d] : sent'[d][i] = sent[d][i]
    /\ auth[d] => auth'[d]
    /\ socket[d] = "closed" => socket'[d] = "closed"
    /\ ~up[d] /\ taken[d] > 0 => ~up'[d]

LEMMA StepGrows ==
    ASSUME SessionInv, [Next]_vars, NEW d \in Conn
    PROVE  Grows(d)
<1> USE DEF Grows
<1>1. /\ taken[d] \in Nat /\ sent[d] \in Seq(Request) /\ taken[d] <= Len(sent[d])
      /\ taken'[d] \in Nat
  BY SessionStep, Zenon DEF SessionInv, Types, SessionOf, Counted
<1>2. CASE UNCHANGED <<broker, socket, session, client>>
  BY <1>1, <1>2 DEF session, client
<1>3. ASSUME NEW c \in Conn, Actions(c) PROVE Grows(d)
  <2>1. CASE c # d
    BY <1>1, <1>3, <2>1, Local DEF Same, SessionInv
  <2>2. CASE c = d
    <3>1. CASE ClientConnect(d)
      <4>1. taken[d] = 0
        BY <3>1, Zenon DEF ClientConnect, SessionInv, SessionOf, Untouched
      <4> QED
        BY <1>1, <3>1, <4>1 DEF ClientConnect, session
    <3>2. CASE ClientLeave(d)
      BY <1>1, <3>2 DEF ClientLeave, session, SessionInv, Types
    <3>3. ASSUME NEW r \in Requests, ClientSend(d, r) PROVE Grows(d)
      <4>1. sent'[d] = Append(sent[d], r) /\ r \in Request
        BY <3>3, RelayAssumption, Zenon DEF ClientSend, SessionInv, Types
      <4>2. \A i \in 1 .. Len(sent[d]) : sent'[d][i] = sent[d][i]
        BY <1>1, <4>1, AppendIndex
      <4>3. \A i \in 1 .. taken[d] : sent'[d][i] = sent[d][i]
        BY <1>1, <4>2
      <4> QED
        BY <1>1, <3>3, <4>3 DEF ClientSend, session
    <3>4. CASE HandleAccept(d) \/ AcceptFails(d)
      <4>1. /\ UNCHANGED <<taken, auth, sent, up>>
            /\ socket[d] = "backlog"
        BY <3>4, Zenon DEF HandleAccept, AcceptFails, session, client
      <4> QED
        BY <1>1, <4>1
    <3>5. CASE ReadCompletes(d) \/ ReadFails(d)
      BY <1>1, <3>5 DEF ReadCompletes, ReadFails, Release, client, SessionInv, Types
    <3>6. CASE HandleRead(d)
      <4>1. taken'[d] = taken[d] + 1 /\ UNCHANGED client
        BY <3>6, Zenon DEF HandleRead, SessionInv, Types
      <4>2. /\ auth[d] => auth'[d]
            /\ socket[d] = "closed" => socket'[d] = "closed"
        BY <3>6, Zenon DEF HandleRead, SessionInv, Types
      <4> QED
        BY <1>1, <4>1, <4>2 DEF client
    <3>7. CASE WriteDone(d)
      BY <1>1, <3>7 DEF WriteDone
    <3>8. CASE WriteFails(d)
      BY <1>1, <3>8 DEF WriteFails, client, SessionInv, Types
    <3> QED
      BY <1>3, <2>2, <3>1, <3>2, <3>3, <3>4, <3>5, <3>6, <3>7, <3>8, Zenon DEF Actions
  <2> QED
    BY <2>1, <2>2, Zenon
<1> QED
  BY <1>2, <1>3, NextCases, Zenon

\* A step that leaves the broker alone and is not a poll: the sequence of a
\* session begins with the challenge, stays, or loses an element that was
\* being written to a client that is gone.
Dropped(d) ==
    /\ socket'[d] = "closed" \/ ~up'[d]
    /\ writeQueue[d] # <<>> /\ inbox'[d] = inbox[d]
    /\ Pipe(d)' = inbox[d] \o Tail(writeQueue[d])
Opened(d) ==
    /\ Pipe(d) = <<>> /\ Pipe(d)' = <<Challenge>> /\ inbox'[d] = inbox[d] /\ taken'[d] = 0
Advanced(d) ==
    /\ Pipe(d)' = Pipe(d)
    /\ inbox'[d] = inbox[d] \/ (socket[d] = "open" /\ up[d])

Settled(d) == Dropped(d) \/ Opened(d) \/ Advanced(d)

\* Connection c has a request r taken that the other variables do not show.
Took(c, r) ==
    /\ r = sent[c][taken[c] + 1] /\ r \in Request
    /\ taken[c] \in Nat /\ taken' = [taken EXCEPT ![c] = taken[c] + 1]
    /\ <<c, taken[c] + 1>> \in Frame
    /\ UNCHANGED <<inbox, up, sent>>

\* The three ways in which a step concerns frames.
Quiet == UNCHANGED queues /\ \A d \in Conn : Settled(d)
PushStep(c, r) == /\ Took(c, r) /\ Push(c, r) /\ r.box \in MailboxID
                  /\ \A d \in Conn : Pipe(d)' = Pipe(d)
PollStep(c, r) == /\ Took(c, r) /\ Poll(c, r) /\ r.box \in MailboxID
                  /\ \A d \in Conn \ {c} : Pipe(d)' = Pipe(d)
                  /\ Answer(r.box, reply') \in Reply
                  /\ Pipe(c)' = Append(Pipe(c), Answer(r.box, reply'))

LEMMA SameSettled ==
    ASSUME NEW d \in Conn, Same(d)
    PROVE  Settled(d) /\ Pipe(d)' = Pipe(d)
  BY Zenon DEF Same, Settled, Advanced, Pipe

LEMMA StepShape ==
    ASSUME SessionInv, [Next]_vars
    PROVE  \/ Quiet
           \/ \E c \in Conn : \E r \in Request : PushStep(c, r) \/ PollStep(c, r)
<1>1. CASE UNCHANGED <<broker, socket, session, client>>
  <2>1. \A d \in Conn : Same(d)
    BY <1>1, Zenon DEF Same, session, client
  <2> QED
    BY <1>1, <2>1, SameSettled, Zenon DEF Quiet, broker
<1>2. ASSUME NEW c \in Conn, Actions(c)
      PROVE  Quiet \/ \E r \in Request : PushStep(c, r) \/ PollStep(c, r)
  <2>1. \A d \in Conn \ {c} : Settled(d) /\ Pipe(d)' = Pipe(d)
    BY <1>2, Local, SameSettled, Zenon DEF SessionInv
  <2>2. CASE ClientConnect(c) \/ ClientLeave(c) \/ (\E r \in Requests : ClientSend(c, r))
    <3>1. UNCHANGED <<queues, inbox, writeQueue>>
      BY <2>2, Zenon DEF ClientConnect, ClientLeave, ClientSend, broker, session
    <3> QED
      BY <2>1, <3>1, Zenon DEF Quiet, Settled, Advanced, Pipe
  <2>3. CASE (HandleAccept(c) \/ AcceptFails(c)) /\ ~(HandleAccept(c) /\ ~quota)
    <3>1. UNCHANGED <<queues, inbox, writeQueue>>
      BY <2>3, Zenon DEF HandleAccept, AcceptFails, broker, session, client
    <3> QED
      BY <2>1, <3>1, Zenon DEF Quiet, Settled, Advanced, Pipe
  <2>4. CASE HandleAccept(c) /\ ~quota
    <3>1. queues' = queues /\ Opened(c)
      BY <2>4, AcceptEffect, Zenon DEF Opened, broker, client
    <3> QED
      BY <2>1, <3>1, Zenon DEF Quiet, Settled
  <2>5. CASE ReadCompletes(c) \/ ReadFails(c)
    <3>1. UNCHANGED <<queues, inbox, writeQueue>>
      BY <2>5, Zenon DEF ReadCompletes, ReadFails, broker, client
    <3> QED
      BY <2>1, <3>1, Zenon DEF Quiet, Settled, Advanced, Pipe
  <2>6. CASE HandleRead(c)
    <3> DEFINE r == sent[c][taken[c] + 1]
    <3>1. /\ Took(c, r)
          /\ r.action \in {"PUSH", "ACK", "POLL"} => r.box \in MailboxID
          /\ UNCHANGED client
          /\ Reject(c, r) \/ Admit(c, r) \/ Push(c, r) \/ Poll(c, r) \/ Ignore(c, r)
      BY <2>6, ReadCases, Zenon DEF Took, client
    <3> HIDE DEF r
    <3>2. CASE Reject(c, r) \/ Admit(c, r) \/ Ignore(c, r)
      <4>1. UNCHANGED <<queues, inbox, writeQueue>>
        BY <3>1, <3>2, Zenon DEF Reject, Admit, Ignore, broker, client
      <4> QED
        BY <2>1, <4>1, Zenon DEF Quiet, Settled, Advanced, Pipe
    <3>3. CASE Push(c, r)
      <4>1. Pipe(c)' = Pipe(c)
        BY <3>1, <3>3, Zenon DEF Push, Pipe, client
      <4>2. r.box \in MailboxID /\ r \in Request
        BY <3>1, <3>3, Zenon DEF Push, Took
      <4> QED
        BY <2>1, <3>1, <3>3, <4>1, <4>2, Zenon DEF PushStep
    <3>4. CASE Poll(c, r)
      <4>1. r.box \in MailboxID /\ r \in Request
        BY <3>1, <3>4, Zenon DEF Poll, Took
      <4>2. /\ Answer(r.box, reply') \in Reply
            /\ Pipe(c)' = Append(Pipe(c), Answer(r.box, reply'))
        BY <3>1, <3>4, <4>1, PollWrites, Zenon
      <4> QED
        BY <2>1, <3>1, <3>4, <4>1, <4>2, Zenon DEF PollStep
    <3> QED
      BY <3>1, <3>2, <3>3, <3>4, Zenon
  <2>7. CASE WriteDone(c) \/ WriteFails(c)
    <3>1. queues' = queues /\ (Dropped(c) \/ Advanced(c))
      BY <2>7, WriteEffect, Zenon DEF Dropped, Advanced, broker
    <3> QED
      BY <2>1, <3>1, Zenon DEF Quiet, Settled
  <2> QED
    BY <1>2, <2>2, <2>3, <2>4, <2>5, <2>6, <2>7, Zenon DEF Actions
<1> QED
  BY <1>1, <1>2, NextCases, Zenon

-----------------------------------------------------------------------------
(* Frames. *)

LEMMA PipeType ==
    ASSUME Types, NEW d \in Conn
    PROVE  /\ Pipe(d) \in Seq(Reply) /\ DOMAIN Pipe(d) = 1 .. Len(Pipe(d)) /\ Len(Pipe(d)) \in Nat
           /\ \A i \in DOMAIN Pipe(d) : Pipe(d)[i] \in Reply /\ Pipe(d)[i].frame \in Frame \cup {Empty}
<1>1. inbox[d] \in Seq(Reply) /\ writeQueue[d] \in Seq(Reply)
  BY Zenon DEF Types
<1>2. Pipe(d) \in Seq(Reply)
  BY <1>1, ConcatType, Zenon DEF Pipe
<1>3. /\ DOMAIN Pipe(d) = 1 .. Len(Pipe(d)) /\ Len(Pipe(d)) \in Nat
      /\ \A i \in DOMAIN Pipe(d) : Pipe(d)[i] \in Reply
  BY <1>2, SeqFacts, Zenon
<1> QED
  BY <1>2, <1>3, Zenon DEF Reply

\* Where the j-th element of a sequence was before the step.
From(d, j) == IF Dropped(d) /\ j > Len(inbox[d]) THEN j + 1 ELSE j

LEMMA SettledEntry ==
    ASSUME SessionInv, NEW d \in Conn, Settled(d), NEW j \in DOMAIN Pipe(d)', Pipe(d)'[j].frame # Empty
    PROVE  j \in Nat /\ From(d, j) \in DOMAIN Pipe(d) /\ Pipe(d)'[j] = Pipe(d)[From(d, j)]
<1>1. inbox[d] \in Seq(Reply) /\ writeQueue[d] \in Seq(Reply)
  BY Zenon DEF SessionInv, Types
<1>2. Pipe(d) = inbox[d] \o writeQueue[d] /\ Pipe(d) \in Seq(Reply)
      /\ DOMAIN Pipe(d) = 1 .. Len(Pipe(d)) /\ Len(Pipe(d)) \in Nat
  BY PipeType, Zenon DEF Pipe, SessionInv
<1>3. CASE Dropped(d)
  <2>1. /\ Pipe(d)' = inbox[d] \o Tail(writeQueue[d]) /\ writeQueue[d] # <<>>
    BY <1>3, Zenon DEF Dropped
  <2>2. /\ inbox[d] \o Tail(writeQueue[d]) \in Seq(Reply)
        /\ Len(inbox[d] \o Tail(writeQueue[d])) = Len(inbox[d] \o writeQueue[d]) - 1
        /\ \A k \in 1 .. Len(inbox[d] \o writeQueue[d]) - 1 :
               (inbox[d] \o Tail(writeQueue[d]))[k]
                   = (inbox[d] \o writeQueue[d])[IF k <= Len(inbox[d]) THEN k ELSE k + 1]
    BY <1>1, <2>1, DropElement, Zenon
  <2>3. DOMAIN Pipe(d)' = 1 .. Len(Pipe(d)) - 1
    <3>1. DOMAIN (inbox[d] \o Tail(writeQueue[d])) = 1 .. Len(inbox[d] \o Tail(writeQueue[d]))
      BY <2>2, SeqFacts, Zenon
    <3> QED
      BY <1>2, <2>1, <2>2, <3>1, Zenon
  <2>4. j \in 1 .. Len(Pipe(d)) - 1 /\ Len(inbox[d]) \in Nat
    BY <1>1, <2>3
  <2>5. From(d, j) = IF j <= Len(inbox[d]) THEN j ELSE j + 1
    BY <1>3, <2>4 DEF From
  <2>6. From(d, j) \in 1 .. Len(Pipe(d)) /\ j \in Nat
    <3> DEFINE n == Len(Pipe(d))
               k == Len(inbox[d])
    <3>1. n \in Nat /\ k \in Nat /\ j \in 1 .. n - 1
      BY <1>2, <2>4, Zenon
    <3>2. From(d, j) = IF j <= k THEN j ELSE j + 1
      BY <2>5, Zenon
    <3> HIDE DEF n, k
    <3>3. From(d, j) \in 1 .. n /\ j \in Nat
      BY <3>1, <3>2
    <3> QED
      BY <3>3, Zenon DEF n
  <2> QED
    BY <1>2, <2>1, <2>2, <2>4, <2>5, <2>6, Zenon
<1>4. CASE ~Dropped(d) /\ Opened(d)
  <2>1. Pipe(d)' = <<Challenge>> /\ Challenge.frame = Empty
    BY <1>4, Zenon DEF Opened, Challenge
  <2>2. j = 1 /\ Pipe(d)'[1] = Challenge
    BY <2>1
  <2> QED
    BY <2>1, <2>2, Zenon
<1>5. CASE ~Dropped(d) /\ Advanced(d)
  <2>1. Pipe(d)' = Pipe(d) /\ From(d, j) = j
    BY <1>5, Zenon DEF Advanced, From
  <2>2. j \in 1 .. Len(Pipe(d))
    BY <1>2, <2>1, Zenon
  <2>3. \A n \in Nat : \A i \in 1 .. n : i \in Nat
    OBVIOUS
  <2> QED
    BY <1>2, <2>1, <2>2, <2>3, Zenon
<1> QED
  BY <1>3, <1>4, <1>5, Zenon DEF Settled

LEMMA FromInjective ==
    ASSUME SessionInv, NEW d \in Conn, NEW i \in Nat, NEW j \in Nat, From(d, i) = From(d, j)
    PROVE  i = j
<1>1. Len(inbox[d]) \in Nat
  BY DEF SessionInv, Types
<1> QED
  BY <1>1 DEF From

LEMMA PollsStay ==
    ASSUME SessionInv, [Next]_vars, NEW c \in Conn, NEW k \in Polls(c)
    PROVE  k \in Polls(c)' /\ sent'[c][k] = sent[c][k]
  BY StepGrows DEF Polls, Grows

\* The same after the step, for a frame and a mailbox that do not change.
OriginAfter(f, m) == f[2] <= taken'[f[1]] /\ auth'[f[1]] /\ sent'[f[1]][f[2]].box = m

LEMMA OriginStays ==
    ASSUME SessionInv, [Next]_vars, NEW f \in Frame, NEW m, Origin(f, m)
    PROVE  OriginAfter(f, m)
<1>1. f[1] \in Conn /\ f[2] \in 1 .. MaxRequests
  BY Zenon DEF Frame
<1>2. Grows(f[1])
  BY <1>1, StepGrows, Zenon
<1>3. f[2] \in 1 .. taken[f[1]] /\ f[2] \in Nat
  BY <1>1, <1>2, RelayAssumption DEF Origin, Grows
<1> QED
  BY <1>2, <1>3 DEF Origin, OriginAfter, Grows

\* A frame that is just being taken is not in the relay yet.
LEMMA Fresh ==
    ASSUME SessionInv, OriginInv, NEW c \in Conn, <<c, taken[c] + 1>> \in Frame
    PROVE  /\ \A m \in DOMAIN queues : \A i \in DOMAIN queues[m] : queues[m][i] # <<c, taken[c] + 1>>
           /\ \A d \in Conn : \A i \in DOMAIN Pipe(d) : Pipe(d)[i].frame # <<c, taken[c] + 1>>
<1>1. taken[c] \in Nat
  BY Zenon DEF SessionInv, Types
<1>2. \A m : ~Origin(<<c, taken[c] + 1>>, m)
  BY <1>1 DEF Origin
<1>3. \A m \in DOMAIN queues : \A i \in DOMAIN queues[m] : queues[m][i] # <<c, taken[c] + 1>>
  BY <1>2, Zenon DEF OriginInv
<1>4. ASSUME NEW d \in Conn, NEW i \in DOMAIN Pipe(d), Pipe(d)[i].frame = <<c, taken[c] + 1>>
      PROVE  FALSE
  <2>1. Pipe(d)[i].frame = Empty
    BY <1>2, <1>4, Zenon DEF OriginInv
  <2> QED
    BY <1>4, <2>1, RelayAssumption, Zenon
<1> QED
  BY <1>3, <1>4, Zenon

LEMMA FrameInit == Init => OriginInv /\ UniqueInv
<1> SUFFICES ASSUME Init PROVE OriginInv /\ UniqueInv
  BY Zenon
<1>1. DOMAIN queues = {}
  BY Zenon DEF Init, Broker!StoreInit
<1>2. \A c \in Conn : Pipe(c) = <<>>
  BY DEF Init, Pipe
<1>3. \A c \in Conn : DOMAIN Pipe(c) = {}
  BY <1>2
<1> QED
  BY <1>1, <1>3, Zenon DEF OriginInv, UniqueInv

\* Where the i-th frame of mailbox x was before the poll of mailbox m.
Behind(m, x, i) == IF reply' # Empty /\ x = m THEN i + 1 ELSE i

LEMMA PolledEntry ==
    ASSUME Types, NEW m \in MailboxID, Broker!ProcessPoll(m),
           NEW x \in DOMAIN queues', NEW i \in DOMAIN queues'[x]
    PROVE  /\ x \in DOMAIN queues /\ i \in Nat \ {0}
           /\ Behind(m, x, i) \in DOMAIN queues[x]
           /\ queues'[x][i] = queues[x][Behind(m, x, i)]
<1>1. x \in DOMAIN queues /\ queues'[x] \in Seq(Frame) /\ queues[x] \in Seq(Frame)
  BY PollEffect, Zenon DEF Types
<1>2. i \in Nat \ {0}
  BY <1>1
<1>3. CASE reply' # Empty /\ x = m
  <2>1. queues'[x] = Tail(queues[x]) /\ queues[x] # <<>>
    BY <1>3, PollEffect, Zenon
  <2>2. i + 1 \in DOMAIN queues[x] /\ Tail(queues[x])[i] = queues[x][i + 1]
    BY <1>1, <2>1
  <2> QED
    BY <1>1, <1>2, <1>3, <2>1, <2>2, Zenon DEF Behind
<1>4. CASE ~(reply' # Empty /\ x = m)
  <2>1. queues'[x] = queues[x]
    BY <1>1, <1>4, PollEffect, Zenon
  <2> QED
    BY <1>1, <1>2, <1>4, <2>1, Zenon DEF Behind
<1> QED
  BY <1>3, <1>4, Zenon

LEMMA PolledFrame ==
    ASSUME Types, NEW m \in MailboxID, Broker!ProcessPoll(m), reply' # Empty
    PROVE  /\ m \in DOMAIN queues /\ 1 \in DOMAIN queues[m] /\ reply' = queues[m][1]
           /\ reply' \in Frame
<1>1. m \in DOMAIN queues /\ queues[m] # <<>> /\ queues[m] \in Seq(Frame) /\ reply' = Head(queues[m])
  BY PollEffect, Zenon
<1> QED
  BY <1>1

\* Where the frames of mailbox x come from when f is pushed to mailbox m.
LEMMA PushedEntry ==
    ASSUME Types, NEW m \in MailboxID, NEW f \in Frame, Broker!ProcessPush(m, f),
           NEW x \in DOMAIN queues', NEW i \in DOMAIN queues'[x]
    PROVE  /\ i \in Nat
           /\ \/ x \in DOMAIN queues /\ i \in DOMAIN queues[x] /\ queues'[x][i] = queues[x][i]
              \/ x = m /\ queues'[x][i] = f /\ i = Len(Broker!Queue(m)) + 1
<1>1. /\ queues'[x] \in Seq(Frame) /\ Broker!Queue(m) \in Seq(Frame)
      /\ DOMAIN queues' = DOMAIN queues \cup {m}
  BY PushEffect, Zenon
<1>2. i \in Nat
  BY <1>1
<1>3. CASE x # m
  BY <1>1, <1>2, <1>3, PushEffect, Zenon
<1>4. CASE x = m /\ Len(Broker!Queue(m)) >= MaxMessages
  <2>1. queues'[m] = Broker!Queue(m)
    BY <1>4, PushEffect, Zenon
  <2>2. m \in DOMAIN queues /\ Broker!Queue(m) = queues[m]
    <3>1. Broker!Queue(m) # <<>>
      BY <1>1, <1>4, <2>1
    <3> QED
      BY <3>1, Zenon DEF Broker!Queue
  <2> QED
    BY <1>2, <1>4, <2>1, <2>2, Zenon
<1>5. CASE x = m /\ ~(Len(Broker!Queue(m)) >= MaxMessages)
  <2> DEFINE q == Broker!Queue(m)
  <2>1. queues'[m] = Append(q, f)
    BY <1>5, PushEffect, Zenon
  <2>2. q \in Seq(Frame)
    BY <1>1, Zenon
  <2> HIDE DEF q
  <2>3. /\ DOMAIN Append(q, f) = 1 .. Len(q) + 1 /\ DOMAIN q = 1 .. Len(q) /\ Len(q) \in Nat
        /\ \A j \in 1 .. Len(q) : Append(q, f)[j] = q[j]
        /\ Append(q, f)[Len(q) + 1] = f
    BY <2>2, AppendIndex
  <2>4. i \in 1 .. Len(q) \/ i = Len(q) + 1
    BY <1>5, <2>1, <2>3
  <2>5. CASE i \in 1 .. Len(q)
    <3>1. m \in DOMAIN queues /\ q = queues[m]
      <4>1. q # <<>>
        BY <2>2, <2>5
      <4> QED
        BY <4>1, Zenon DEF Broker!Queue, q
    <3> QED
      BY <1>2, <1>5, <2>1, <2>3, <2>5, <3>1, Zenon
  <2>6. CASE i = Len(q) + 1
    BY <1>2, <1>5, <2>1, <2>3, <2>6, Zenon DEF q
  <2> QED
    BY <2>4, <2>5, <2>6, Zenon
<1> QED
  BY <1>3, <1>4, <1>5, Zenon

\* The answer to a poll at the end of the sequence of the session.
LEMMA AnsweredEntry ==
    ASSUME SessionInv, NEW c \in Conn, NEW r \in Request, PollStep(c, r),
           NEW d \in Conn, NEW j \in DOMAIN Pipe(d)'
    PROVE  /\ j \in Nat
           /\ \/ j \in DOMAIN Pipe(d) /\ Pipe(d)'[j] = Pipe(d)[j]
              \/ d = c /\ j = Len(Pipe(c)) + 1 /\ Pipe(d)'[j] = Answer(r.box, reply')
<1>1. /\ Pipe(d) \in Seq(Reply) /\ DOMAIN Pipe(d) = 1 .. Len(Pipe(d)) /\ Len(Pipe(d)) \in Nat
  BY PipeType, Zenon DEF SessionInv
<1>2. CASE d # c
  <2>1. Pipe(d)' = Pipe(d)
    BY <1>2, Zenon DEF PollStep
  <2>2. \A n \in Nat : \A i \in 1 .. n : i \in Nat
    OBVIOUS
  <2> QED
    BY <1>1, <2>1, <2>2, Zenon
<1>3. CASE d = c
  <2> DEFINE a == Answer(r.box, reply')
  <2>1. Pipe(d)' = Append(Pipe(d), a) /\ a \in Reply
    BY <1>3, Zenon DEF PollStep
  <2> HIDE DEF a
  <2> DEFINE s == Pipe(d)
  <2>2. s \in Seq(Reply) /\ Pipe(d)' = Append(s, a)
    BY <1>1, <2>1, Zenon
  <2> HIDE DEF s
  <2>3. /\ DOMAIN Append(s, a) = 1 .. Len(s) + 1 /\ DOMAIN s = 1 .. Len(s) /\ Len(s) \in Nat
        /\ \A i \in 1 .. Len(s) : Append(s, a)[i] = s[i]
        /\ Append(s, a)[Len(s) + 1] = a
    BY <2>1, <2>2, AppendIndex
  <2>4. j \in 1 .. Len(s) + 1
    BY <2>2, <2>3, Zenon
  <2>5. j \in Nat /\ (j \in 1 .. Len(s) \/ j = Len(s) + 1)
    BY <2>3, <2>4
  <2> QED
    BY <1>3, <2>2, <2>3, <2>5, Zenon DEF s, a
<1> QED
  BY <1>2, <1>3, Zenon

LEMMA OriginStep ==
    ASSUME SessionInv, OriginInv, [Next]_vars
    PROVE  OriginInv'
<1>1. \A m \in DOMAIN queues : \A i \in DOMAIN queues[m] :
          queues[m][i] \in Frame /\ OriginAfter(queues[m][i], m)
  <2>1. \A m \in DOMAIN queues : \A i \in DOMAIN queues[m] : queues[m][i] \in Frame
    BY DEF SessionInv, Types
  <2> QED
    BY <2>1, OriginStays, Zenon DEF OriginInv
<1>2. ASSUME NEW d \in Conn, NEW i \in DOMAIN Pipe(d), Pipe(d)[i].frame # Empty
      PROVE  /\ OriginAfter(Pipe(d)[i].frame, Pipe(d)[i].box)
             /\ \E k \in Polls(d)' : sent'[d][k].box = Pipe(d)[i].box
  <2>1. Pipe(d)[i].frame \in Frame
    BY <1>2, PipeType, Zenon DEF SessionInv
  <2>2. Origin(Pipe(d)[i].frame, Pipe(d)[i].box) /\ \E k \in Polls(d) : sent[d][k].box = Pipe(d)[i].box
    BY <1>2, Zenon DEF OriginInv
  <2> QED
    BY <2>1, <2>2, OriginStays, PollsStay, Zenon
<1>3. CASE Quiet
  <2>1. \A m \in DOMAIN queues' : \A i \in DOMAIN queues'[m] : OriginAfter(queues'[m][i], m)
    BY <1>1, <1>3, Zenon DEF Quiet
  <2>2. ASSUME NEW d \in Conn, NEW j \in DOMAIN Pipe(d)', Pipe(d)'[j].frame # Empty
        PROVE  /\ OriginAfter(Pipe(d)'[j].frame, Pipe(d)'[j].box)
               /\ \E k \in Polls(d)' : sent'[d][k].box = Pipe(d)'[j].box
    <3>1. From(d, j) \in DOMAIN Pipe(d) /\ Pipe(d)'[j] = Pipe(d)[From(d, j)]
      BY <1>3, <2>2, SettledEntry, Zenon DEF Quiet
    <3> QED
      BY <1>2, <2>2, <3>1, Zenon
  <2> QED
    BY <2>1, <2>2, Zenon DEF OriginInv, Origin, OriginAfter
<1>4. ASSUME NEW c \in Conn, NEW r \in Request, PushStep(c, r) PROVE OriginInv'
  <2>1. /\ Broker!ProcessPush(r.box, <<c, taken[c] + 1>>) /\ r.box \in MailboxID
        /\ <<c, taken[c] + 1>> \in Frame /\ auth[c] /\ auth' = auth
        /\ taken[c] \in Nat /\ taken'[c] = taken[c] + 1 /\ sent' = sent
        /\ r = sent[c][taken[c] + 1]
    BY <1>4, Zenon DEF PushStep, Took, Push, SessionInv, Types
  <2>2. OriginAfter(<<c, taken[c] + 1>>, r.box)
    BY <2>1, SMTT(60) DEF OriginAfter
  <2>3. \A m \in DOMAIN queues' : \A i \in DOMAIN queues'[m] : OriginAfter(queues'[m][i], m)
    BY <1>1, <2>1, <2>2, PushedEntry DEF SessionInv
  <2>4. \A d \in Conn : Pipe(d)' = Pipe(d)
    BY <1>4, Zenon DEF PushStep
  <2> QED
    BY <1>2, <2>3, <2>4, SMTT(60) DEF OriginInv, Origin, OriginAfter
<1>5. ASSUME NEW c \in Conn, NEW r \in Request, PollStep(c, r) PROVE OriginInv'
  <2>1. /\ Broker!ProcessPoll(r.box) /\ r.box \in MailboxID /\ r.action = "POLL"
        /\ taken[c] \in Nat /\ taken'[c] = taken[c] + 1 /\ sent' = sent
        /\ r = sent[c][taken[c] + 1]
    BY <1>5, Zenon DEF PollStep, Took, Poll, SessionInv, Types
  <2>2. taken[c] + 1 \in Polls(c)' /\ sent'[c][taken[c] + 1].box = r.box
    BY <2>1, SMTT(60) DEF Polls
  <2>3. \A m \in DOMAIN queues' : \A i \in DOMAIN queues'[m] : OriginAfter(queues'[m][i], m)
    BY <1>1, <2>1, PolledEntry DEF SessionInv
  <2>4. reply' # Empty => OriginAfter(reply', r.box)
    BY <1>1, <2>1, PolledFrame, Zenon DEF SessionInv
  <2>5. Answer(r.box, reply').box = r.box /\ Answer(r.box, reply').frame = reply'
    BY Zenon DEF Answer
  <2>6. ASSUME NEW d \in Conn, NEW j \in DOMAIN Pipe(d)', Pipe(d)'[j].frame # Empty
        PROVE  /\ OriginAfter(Pipe(d)'[j].frame, Pipe(d)'[j].box)
               /\ \E k \in Polls(d)' : sent'[d][k].box = Pipe(d)'[j].box
    <3>1. CASE j \in DOMAIN Pipe(d) /\ Pipe(d)'[j] = Pipe(d)[j]
      BY <1>2, <2>6, <3>1, Zenon
    <3>2. CASE d = c /\ Pipe(d)'[j] = Answer(r.box, reply')
      BY <2>2, <2>4, <2>5, <2>6, <3>2, Zenon
    <3> QED
      BY <1>5, <3>1, <3>2, AnsweredEntry
  <2> QED
    BY <2>3, <2>6, Zenon DEF OriginInv, Origin, OriginAfter
<1> QED
  BY <1>3, <1>4, <1>5, StepShape, Zenon

LEMMA UniqueQuiet ==
    ASSUME SessionInv, UniqueInv, Quiet
    PROVE  UniqueInv'
<1>1. \A m, n \in DOMAIN queues' : \A i \in DOMAIN queues'[m], j \in DOMAIN queues'[n] :
          queues'[m][i] = queues'[n][j] => m = n /\ i = j
  BY DEF Quiet, UniqueInv
<1>2. ASSUME NEW c \in Conn, NEW d \in Conn, NEW i \in DOMAIN Pipe(c)', NEW j \in DOMAIN Pipe(d)',
             Pipe(c)'[i].frame # Empty, Pipe(c)'[i].frame = Pipe(d)'[j].frame
      PROVE  c = d /\ i = j
  <2>1. i \in Nat /\ From(c, i) \in DOMAIN Pipe(c) /\ Pipe(c)'[i] = Pipe(c)[From(c, i)]
    BY <1>2, SettledEntry, Zenon DEF Quiet
  <2>2. j \in Nat /\ From(d, j) \in DOMAIN Pipe(d) /\ Pipe(d)'[j] = Pipe(d)[From(d, j)]
    BY <1>2, SettledEntry, Zenon DEF Quiet
  <2>3. c = d /\ From(c, i) = From(d, j)
    BY <1>2, <2>1, <2>2 DEF UniqueInv
  <2> QED
    BY <2>1, <2>2, <2>3, FromInjective, Zenon
<1>3. ASSUME NEW m \in DOMAIN queues', NEW c \in Conn,
             NEW i \in DOMAIN queues'[m], NEW j \in DOMAIN Pipe(c)'
      PROVE  queues'[m][i] # Pipe(c)'[j].frame
  <2>1. m \in DOMAIN queues /\ i \in DOMAIN queues[m] /\ queues'[m][i] = queues[m][i]
    BY Zenon DEF Quiet
  <2>2. queues[m][i] \in Frame
    BY <2>1 DEF SessionInv, Types
  <2>3. CASE Pipe(c)'[j].frame = Empty
    BY <2>1, <2>2, <2>3, RelayAssumption, Zenon
  <2>4. CASE Pipe(c)'[j].frame # Empty
    <3>1. From(c, j) \in DOMAIN Pipe(c) /\ Pipe(c)'[j] = Pipe(c)[From(c, j)]
      BY <2>4, SettledEntry, Zenon DEF Quiet
    <3> QED
      BY <2>1, <3>1 DEF UniqueInv
  <2> QED
    BY <2>3, <2>4, Zenon
<1> QED
  BY <1>1, <1>2, <1>3, SMTT(60) DEF UniqueInv

LEMMA UniquePush ==
    ASSUME SessionInv, OriginInv, UniqueInv, NEW c \in Conn, NEW r \in Request, PushStep(c, r)
    PROVE  UniqueInv'
<1> DEFINE f == <<c, taken[c] + 1>>
<1>1. Broker!ProcessPush(r.box, f) /\ r.box \in MailboxID /\ f \in Frame /\ Types
  BY Zenon DEF PushStep, Took, Push, SessionInv
<1>2. /\ \A m \in DOMAIN queues : \A i \in DOMAIN queues[m] : queues[m][i] # f
      /\ \A d \in Conn : \A i \in DOMAIN Pipe(d) : Pipe(d)[i].frame # f
  BY <1>1, Fresh, Zenon
<1> HIDE DEF f
<1>3. \A d \in Conn : Pipe(d)' = Pipe(d)
  BY Zenon DEF PushStep
<1>4. ASSUME NEW x \in DOMAIN queues', NEW i \in DOMAIN queues'[x]
      PROVE  \/ x \in DOMAIN queues /\ i \in DOMAIN queues[x] /\ queues'[x][i] = queues[x][i]
             \/ x = r.box /\ queues'[x][i] = f /\ i = Len(Broker!Queue(r.box)) + 1
  BY <1>1, PushedEntry
<1>5. ASSUME NEW m \in DOMAIN queues', NEW n \in DOMAIN queues',
             NEW i \in DOMAIN queues'[m], NEW j \in DOMAIN queues'[n], queues'[m][i] = queues'[n][j]
      PROVE  m = n /\ i = j
  BY <1>2, <1>4, <1>5 DEF UniqueInv
<1>6. ASSUME NEW m \in DOMAIN queues', NEW d \in Conn,
             NEW i \in DOMAIN queues'[m], NEW j \in DOMAIN Pipe(d)'
      PROVE  queues'[m][i] # Pipe(d)'[j].frame
  BY <1>2, <1>3, <1>4 DEF UniqueInv
<1> QED
  BY <1>3, <1>5, <1>6 DEF UniqueInv

LEMMA UniquePoll ==
    ASSUME SessionInv, UniqueInv, NEW c \in Conn, NEW r \in Request, PollStep(c, r)
    PROVE  UniqueInv'
<1> DEFINE m == r.box
           f == reply'
<1>1. Broker!ProcessPoll(m) /\ m \in MailboxID /\ Types
  BY Zenon DEF PollStep, Poll, SessionInv
<1>2. f # Empty => m \in DOMAIN queues /\ 1 \in DOMAIN queues[m] /\ f = queues[m][1]
  BY <1>1, PolledFrame, Zenon
<1>3. ASSUME NEW x \in DOMAIN queues', NEW i \in DOMAIN queues'[x]
      PROVE  /\ x \in DOMAIN queues /\ i \in Nat \ {0}
             /\ Behind(m, x, i) \in DOMAIN queues[x]
             /\ queues'[x][i] = queues[x][Behind(m, x, i)]
  BY <1>1, PolledEntry
<1>4. ASSUME NEW d \in Conn, NEW j \in DOMAIN Pipe(d)'
      PROVE  \/ j \in DOMAIN Pipe(d) /\ Pipe(d)'[j] = Pipe(d)[j]
             \/ d = c /\ j = Len(Pipe(c)) + 1 /\ Pipe(d)'[j].frame = f
  BY AnsweredEntry DEF Answer
<1>5. \A x : \A i \in Nat \ {0} : Behind(m, x, i) = i \/ Behind(m, x, i) = i + 1
  BY Zenon DEF Behind
<1>6. \A x : \A i, j \in Nat : Behind(m, x, i) = Behind(m, x, j) => i = j
  BY DEF Behind
<1>7. \A i \in Nat \ {0} : f # Empty => Behind(m, m, i) # 1
  BY DEF Behind
<1> HIDE DEF m, f
<1>8. ASSUME NEW x \in DOMAIN queues', NEW y \in DOMAIN queues',
             NEW i \in DOMAIN queues'[x], NEW j \in DOMAIN queues'[y], queues'[x][i] = queues'[y][j]
      PROVE  x = y /\ i = j
  <2>1. x = y /\ Behind(m, x, i) = Behind(m, y, j)
    BY <1>3, <1>8 DEF UniqueInv
  <2>2. i \in Nat /\ j \in Nat
    BY <1>3, Zenon
  <2> QED
    BY <1>6, <2>1, <2>2, Zenon
<1>9. ASSUME f # Empty, NEW d \in Conn, NEW j \in DOMAIN Pipe(d)
      PROVE  Pipe(d)[j].frame # f
  BY <1>2, <1>9 DEF UniqueInv
<1>10. ASSUME NEW d \in Conn, NEW e \in Conn, NEW i \in DOMAIN Pipe(d)', NEW j \in DOMAIN Pipe(e)',
              Pipe(d)'[i].frame # Empty, Pipe(d)'[i].frame = Pipe(e)'[j].frame
       PROVE  d = e /\ i = j
  <2>1. CASE /\ i \in DOMAIN Pipe(d) /\ Pipe(d)'[i] = Pipe(d)[i]
             /\ j \in DOMAIN Pipe(e) /\ Pipe(e)'[j] = Pipe(e)[j]
    BY <1>10, <2>1 DEF UniqueInv
  <2>2. CASE /\ d = c /\ i = Len(Pipe(c)) + 1 /\ e = c /\ j = Len(Pipe(c)) + 1
    BY <2>2, Zenon
  <2>3. CASE \/ /\ i \in DOMAIN Pipe(d) /\ Pipe(d)'[i] = Pipe(d)[i] /\ Pipe(e)'[j].frame = f
             \/ /\ j \in DOMAIN Pipe(e) /\ Pipe(e)'[j] = Pipe(e)[j] /\ Pipe(d)'[i].frame = f
    BY <1>9, <1>10, <2>3, Zenon
  <2> QED
    BY <1>4, <2>1, <2>2, <2>3, Zenon
<1>11. ASSUME NEW x \in DOMAIN queues', NEW d \in Conn,
              NEW i \in DOMAIN queues'[x], NEW j \in DOMAIN Pipe(d)'
       PROVE  queues'[x][i] # Pipe(d)'[j].frame
  <2>1. /\ x \in DOMAIN queues /\ Behind(m, x, i) \in DOMAIN queues[x] /\ i \in Nat \ {0}
        /\ queues'[x][i] = queues[x][Behind(m, x, i)]
    BY <1>3, Zenon
  <2>2. CASE j \in DOMAIN Pipe(d) /\ Pipe(d)'[j] = Pipe(d)[j]
    BY <2>1, <2>2 DEF UniqueInv
  <2>3. CASE Pipe(d)'[j].frame = f /\ f = Empty
    <3>1. queues[x][Behind(m, x, i)] \in Frame
      BY <2>1 DEF SessionInv, Types
    <3> QED
      BY <2>1, <2>3, <3>1, RelayAssumption, Zenon
  <2>4. CASE Pipe(d)'[j].frame = f /\ f # Empty
    <3>1. m \in DOMAIN queues /\ 1 \in DOMAIN queues[m] /\ f = queues[m][1]
      BY <1>2, <2>4, Zenon
    <3>2. ~(x = m /\ Behind(m, x, i) = 1)
      BY <1>7, <2>1, <2>4, Zenon
    <3> QED
      BY <2>1, <2>4, <3>1, <3>2 DEF UniqueInv
  <2> QED
    BY <1>4, <2>2, <2>3, <2>4, Zenon
<1> QED
  BY <1>8, <1>10, <1>11, SMTT(60) DEF UniqueInv

LEMMA UniqueStep ==
    ASSUME SessionInv, OriginInv, UniqueInv, [Next]_vars
    PROVE  UniqueInv'
  BY StepShape, UniqueQuiet, UniquePush, UniquePoll, Zenon

FrameInv == SessionInv /\ OriginInv /\ UniqueInv

\* What is stored or on its way was taken from an authenticated session and
\* is in one place.
LEMMA FramesSound == Spec => []FrameInv
<1>1. Init => FrameInv
  BY SessionInit, FrameInit, Zenon DEF FrameInv
<1>2. FrameInv /\ [Next]_vars => FrameInv'
  BY SessionStep, OriginStep, UniqueStep, Zenon DEF FrameInv
<1> QED
  BY <1>1, <1>2, PTL DEF Spec

\* An element of Copies(f) is a place where f is.
LEMMA CopiesPlaces ==
    ASSUME NEW f
    PROVE  /\ \A x \in Copies(f) :
                  \/ \E m \in DOMAIN queues : \E i \in DOMAIN queues[m] :
                         queues[m][i] = f /\ x = <<"stored", m, i>>
                  \/ \E c \in Conn : \E i \in DOMAIN Pipe(c) :
                         Pipe(c)[i].frame = f /\ x = <<"sent", c, i>>
           /\ \A m \in DOMAIN queues : \A i \in DOMAIN queues[m] :
                  queues[m][i] = f => <<"stored", m, i>> \in Copies(f)
           /\ \A c \in Conn : \A i \in DOMAIN Pipe(c) :
                  Pipe(c)[i].frame = f => <<"sent", c, i>> \in Copies(f)
<1> DEFINE A(m) == {<<"stored", m, i>> : i \in Positions(queues[m], f)}
           B(c) == {<<"sent", c, i>> : i \in Carrying(Pipe(c), f)}
           U == UNION {A(m) : m \in DOMAIN queues}
           V == UNION {B(c) : c \in Conn}
<1>1. Copies(f) = U \cup V
  BY Zenon DEF Copies, Pipe
<1>2. \A m, x : x \in A(m) <=> \E i \in DOMAIN queues[m] : queues[m][i] = f /\ x = <<"stored", m, i>>
  BY Zenon DEF Positions
<1>3. \A c, x : x \in B(c) <=> \E i \in DOMAIN Pipe(c) : Pipe(c)[i].frame = f /\ x = <<"sent", c, i>>
  BY Zenon DEF Carrying
<1> HIDE DEF A, B
<1>4. \A x : x \in U <=> \E m \in DOMAIN queues : x \in A(m)
  BY Zenon
<1>5. \A x : x \in V <=> \E c \in Conn : x \in B(c)
  BY Zenon
<1> HIDE DEF U, V
<1>6. \A x \in Copies(f) :
          \/ \E m \in DOMAIN queues : \E i \in DOMAIN queues[m] : queues[m][i] = f /\ x = <<"stored", m, i>>
          \/ \E c \in Conn : \E i \in DOMAIN Pipe(c) : Pipe(c)[i].frame = f /\ x = <<"sent", c, i>>
  BY <1>1, <1>2, <1>3, <1>4, <1>5
<1>7. \A m \in DOMAIN queues : \A i \in DOMAIN queues[m] : queues[m][i] = f => <<"stored", m, i>> \in Copies(f)
  BY <1>1, <1>2, <1>4, Zenon
<1>8. \A c \in Conn : \A i \in DOMAIN Pipe(c) : Pipe(c)[i].frame = f => <<"sent", c, i>> \in Copies(f)
  BY <1>1, <1>3, <1>5, Zenon
<1> QED
  BY <1>6, <1>7, <1>8, Zenon

\* Whatever the sessions poll and however their writes interleave and fail, a
\* frame is never in two places.
THEOREM AtMostOnceHolds == Spec => []AtMostOnce
<1>1. FrameInv => AtMostOnce
  <2> SUFFICES ASSUME FrameInv, NEW f \in Frame, NEW x \in Copies(f), NEW y \in Copies(f)
               PROVE  x = y
    BY Zenon DEF AtMostOnce
  <2>1. f # Empty
    BY RelayAssumption, Zenon
  <2> QED
    BY <2>1, CopiesPlaces DEF FrameInv, UniqueInv
<1> QED
  BY <1>1, FramesSound, PTL

\* A connection that has presented no valid proof of work has been given the
\* challenge at most, and nothing it sent is in the relay or with a client.
THEOREM StrangersLockedOutHolds == Spec => []StrangersLockedOut
<1>1. FrameInv => StrangersLockedOut
  <2> SUFFICES ASSUME FrameInv, NEW c \in Conn,
                      \A i \in 1 .. taken[c] :
                          ~(sent[c][i].action = "AUTH_RESPONSE" /\ sent[c][i].valid)
               PROVE  /\ Pipe(c) \in {<<>>, <<Challenge>>}
                      /\ \A n \in 1 .. MaxRequests : Copies(<<c, n>>) = {}
    BY Zenon DEF StrangersLockedOut, Pipe
  <2>1. ~auth[c] /\ Pipe(c) \in {<<>>, <<Challenge>>}
    BY Zenon DEF FrameInv, SessionInv, SessionOf, Gate, HandleAuthResponse
  <2>2. ASSUME NEW n \in 1 .. MaxRequests PROVE Copies(<<c, n>>) = {}
    <3>1. <<c, n>> # Empty
      BY RelayAssumption DEF Frame
    <3>2. \A m : ~Origin(<<c, n>>, m)
      BY <2>1, Zenon DEF Origin
    <3> QED
      BY <3>1, <3>2, CopiesPlaces DEF FrameInv, OriginInv
  <2> QED
    BY <2>1, <2>2, Zenon
<1> QED
  BY <1>1, FramesSound, PTL
=============================================================================
