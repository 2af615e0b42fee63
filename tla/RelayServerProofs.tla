------------------------- MODULE RelayServerProofs --------------------------
(***************************************************************************)
(* What clients of RelayServer can rely on: no frame is lost while its     *)
(* readers stay connected, and answers come in the order of the polls.     *)
(***************************************************************************)
EXTENDS RelayServerInvariant, FiniteSetTheorems

-----------------------------------------------------------------------------
(* Nothing is lost but with a connection. *)

\* Where frame f is, and the connections that may have taken one of mailbox b
\* with them.
Somewhere(f) ==
    \/ \E m \in DOMAIN queues : \E i \in DOMAIN queues[m] : queues[m][i] = f
    \/ \E d \in Conn : \E i \in DOMAIN Pipe(d) : Pipe(d)[i].frame = f
Gone(b) ==
    \E d \in Conn : /\ socket[d] = "closed" \/ ~up[d]
                    /\ \E k \in Polls(d) : sent[d][k].box = b

KeptInv ==
    Cardinality(Frame) <= MaxMessages =>
        \A c \in Conn : \A n \in 1 .. taken[c] :
            auth[c] /\ sent[c][n].action \in {"PUSH", "ACK"} =>
                Somewhere(<<c, n>>) \/ Gone(sent[c][n].box)

\* A frame counts as taken from an authenticated session when it was before
\* the step, or when the step pushes it.
LEMMA TakenBefore ==
    ASSUME SessionInv, [Next]_vars, NEW c \in Conn, NEW n \in 1 .. taken'[c],
           auth'[c], sent'[c][n].action \in {"PUSH", "ACK"}
    PROVE  \/ n \in 1 .. taken[c] /\ auth[c] /\ sent'[c][n] = sent[c][n]
           \/ \E r \in Request : PushStep(c, r) /\ n = taken[c] + 1 /\ sent'[c][n] = r
<1>0. Grows(c) /\ taken[c] \in Nat /\ n \in Nat
  BY StepGrows DEF Grows
<1>1. ASSUME taken' = taken, auth' = auth
      PROVE  n \in 1 .. taken[c] /\ auth[c] /\ sent'[c][n] = sent[c][n]
  BY <1>0, <1>1, Zenon DEF Grows
<1>2. CASE UNCHANGED <<broker, socket, session, client>>
  BY <1>1, <1>2, Zenon DEF session
<1>3. ASSUME NEW d \in Conn, Actions(d), ~HandleRead(d)
      PROVE  taken' = taken /\ auth' = auth
  BY <1>3, Zenon DEF Actions, ClientConnect, ClientLeave, ClientSend, HandleAccept, AcceptFails,
              ReadCompletes, ReadFails, WriteDone, WriteFails, session
<1>4. ASSUME NEW d \in Conn, HandleRead(d), d # c
      PROVE  n \in 1 .. taken[c] /\ auth[c] /\ sent'[c][n] = sent[c][n]
  <2>1. Same(c)
    BY <1>4, Local, Zenon DEF Actions, SessionInv
  <2> QED
    BY <2>1, Zenon DEF Same
<1>5. ASSUME HandleRead(c)
      PROVE  \/ n \in 1 .. taken[c] /\ auth[c] /\ sent'[c][n] = sent[c][n]
             \/ \E r \in Request : PushStep(c, r) /\ n = taken[c] + 1 /\ sent'[c][n] = r
  <2> DEFINE r == sent[c][taken[c] + 1]
  <2>1. /\ reading[c] = "ready" /\ taken[c] \in Nat /\ <<c, taken[c] + 1>> \in Frame
        /\ r \in Request /\ (r.action \in {"PUSH", "ACK", "POLL"} => r.box \in MailboxID)
        /\ taken' = [taken EXCEPT ![c] = taken[c] + 1] /\ UNCHANGED <<inbox, up, sent>>
        /\ Reject(c, r) \/ Admit(c, r) \/ Push(c, r) \/ Poll(c, r) \/ Ignore(c, r)
    BY <1>5, ReadCases, Zenon DEF client
  <2> HIDE DEF r
  <2>2. taken'[c] = taken[c] + 1 /\ sent'[c][taken[c] + 1] = r
    BY <2>1, Zenon DEF SessionInv, Types, r
  <2>3. n \in 1 .. taken[c] \/ n = taken[c] + 1
    BY <1>0, <2>2
  <2>4. CASE n \in 1 .. taken[c]
    <3>1. taken[c] > 0
      BY <1>0, <2>4
    <3>2. auth[c]
      BY <2>1, <3>1, Zenon DEF SessionInv, SessionOf, Gate
    <3> QED
      BY <2>1, <2>4, <3>2, Zenon
  <2>5. CASE n = taken[c] + 1
    <3>1. r.action \in {"PUSH", "ACK"}
      BY <2>2, <2>5, Zenon
    <3>2. Push(c, r) \/ Reject(c, r)
      BY <2>1, <3>1, Zenon DEF Admit, Poll, Ignore, HandleAuthResponse
    <3>3. ~Reject(c, r)
      BY <3>1, <2>1, Zenon DEF Reject
    <3>4. Push(c, r) /\ Took(c, r) /\ r.box \in MailboxID
      BY <2>1, <3>1, <3>2, <3>3, Zenon DEF Took, r
    <3>5. \A d \in Conn : Pipe(d)' = Pipe(d)
      BY <2>1, <3>4, Zenon DEF Push, Pipe
    <3> QED
      BY <2>1, <2>2, <2>5, <3>4, <3>5 DEF PushStep
  <2> QED
    BY <2>3, <2>4, <2>5, Zenon
<1> QED
  BY <1>1, <1>2, <1>3, <1>4, <1>5, NextCases, Zenon

LEMMA GoneStays ==
    ASSUME SessionInv, [Next]_vars, NEW b, Gone(b)
    PROVE  \E d \in Conn : /\ socket'[d] = "closed" \/ ~up'[d]
                           /\ \E k \in Polls(d)' : sent'[d][k].box = b
<1>1. PICK d \in Conn : /\ socket[d] = "closed" \/ ~up[d]
                        /\ \E k \in Polls(d) : sent[d][k].box = b
  BY Zenon DEF Gone
<1>2. PICK k \in Polls(d) : sent[d][k].box = b
  BY <1>1, Zenon
<1>3. taken[d] > 0
  BY StepGrows DEF Polls, Grows
<1> QED
  BY <1>1, <1>2, <1>3, PollsStay, StepGrows DEF Grows

LEMMA PushForward ==
    ASSUME Types, NEW m \in MailboxID, NEW f \in Frame, Broker!ProcessPush(m, f),
           NEW x \in DOMAIN queues, NEW i \in DOMAIN queues[x]
    PROVE  x \in DOMAIN queues' /\ i \in DOMAIN queues'[x] /\ queues'[x][i] = queues[x][i]
<1>1. x \in DOMAIN queues' /\ (x # m => queues'[x] = queues[x])
  BY PushEffect, Zenon
<1>2. CASE x = m
  <2>1. /\ queues[m] \in Seq(Frame)
        /\ queues'[m] = queues[m] \/ queues'[m] = Append(queues[m], f)
    BY <1>2, PushEffect, Zenon DEF Types
  <2> DEFINE q == queues[m]
  <2>2. q \in Seq(Frame) /\ i \in DOMAIN q
    BY <1>2, <2>1, Zenon
  <2> HIDE DEF q
  <2>3. i \in DOMAIN Append(q, f) /\ Append(q, f)[i] = q[i]
    BY <2>2
  <2> QED
    BY <1>1, <1>2, <2>1, <2>2, <2>3, Zenon DEF q
<1> QED
  BY <1>1, <1>2, Zenon

LEMMA PollForward ==
    ASSUME Types, NEW m \in MailboxID, Broker!ProcessPoll(m),
           NEW x \in DOMAIN queues, NEW i \in DOMAIN queues[x]
    PROVE  \/ x \in DOMAIN queues' /\ \E j \in DOMAIN queues'[x] : queues'[x][j] = queues[x][i]
           \/ reply' = queues[x][i]
<1>1. CASE x # m \/ reply' = Empty
  <2>1. x \in DOMAIN queues' /\ queues'[x] = queues[x]
    BY <1>1, PollEffect, Zenon
  <2> QED
    BY <2>1, Zenon
<1>2. CASE x = m /\ reply' # Empty
  <2>1. /\ queues[x] # <<>> /\ queues[x] \in Seq(Frame) /\ reply' = Head(queues[x])
        /\ x \in DOMAIN queues' => queues'[x] = Tail(queues[x])
        /\ x \notin DOMAIN queues' => Tail(queues[x]) = <<>>
    BY <1>2, PollEffect, Zenon
  <2>2. CASE i = 1
    BY <2>1, <2>2
  <2>3. CASE i # 1
    <3>1. i - 1 \in DOMAIN Tail(queues[x]) /\ Tail(queues[x])[i - 1] = queues[x][i]
      BY <2>1, <2>3
    <3>2. x \in DOMAIN queues'
      BY <2>1, <3>1
    <3> QED
      BY <2>1, <3>1, <3>2, Zenon
  <2> QED
    BY <2>2, <2>3, Zenon
<1> QED
  BY <1>1, <1>2, Zenon

LEMMA KeptQuiet ==
    ASSUME SessionInv, OriginInv, [Next]_vars, Quiet,
           NEW f \in Frame, NEW b, Origin(f, b), Somewhere(f)
    PROVE  Somewhere(f)' \/ Gone(b)'
<1>1. CASE \E m \in DOMAIN queues : \E i \in DOMAIN queues[m] : queues[m][i] = f
  BY <1>1, Zenon DEF Quiet, Somewhere
<1>2. ASSUME NEW d \in Conn, NEW i \in DOMAIN Pipe(d), Pipe(d)[i].frame = f
      PROVE  Somewhere(f)' \/ Gone(b)'
  <2>1. CASE Advanced(d)
    <3>1. i \in DOMAIN Pipe(d)' /\ Pipe(d)'[i].frame = f
      BY <1>2, <2>1, Zenon DEF Advanced
    <3> QED
      BY <3>1, Zenon DEF Somewhere
  <2>2. CASE Opened(d)
    BY <2>2 DEF Opened
  <2>3. CASE Dropped(d)
    <3>1. inbox[d] \in Seq(Reply) /\ writeQueue[d] \in Seq(Reply) /\ Len(inbox[d]) \in Nat
      BY DEF SessionInv, Types
    <3>2. /\ Pipe(d) = inbox[d] \o writeQueue[d] /\ DOMAIN Pipe(d) = 1 .. Len(Pipe(d))
          /\ Len(Pipe(d)) \in Nat
      BY PipeType, Zenon DEF Pipe, SessionInv
    <3>3. /\ Pipe(d)' = inbox[d] \o Tail(writeQueue[d]) /\ writeQueue[d] # <<>>
          /\ socket'[d] = "closed" \/ ~up'[d]
      BY <2>3, Zenon DEF Dropped
    <3> DEFINE p == Pipe(d)
               q == inbox[d] \o Tail(writeQueue[d])
               k == Len(inbox[d])
    <3>4. /\ q \in Seq(Reply) /\ Len(q) = Len(p) - 1
          /\ \A j \in 1 .. Len(p) - 1 : q[j] = p[IF j <= k THEN j ELSE j + 1]
      <4>1. /\ q \in Seq(Reply) /\ Len(q) = Len(inbox[d] \o writeQueue[d]) - 1
            /\ \A j \in 1 .. Len(inbox[d] \o writeQueue[d]) - 1 :
                   q[j] = (inbox[d] \o writeQueue[d])[IF j <= k THEN j ELSE j + 1]
        BY <3>1, <3>3, DropElement, Zenon
      <4> QED
        BY <3>2, <4>1, Zenon
    <3>5. DOMAIN q = 1 .. Len(p) - 1
      BY <3>4, SeqFacts, Zenon
    <3>6. p[i].frame = f /\ i \in 1 .. Len(p) /\ Len(p) \in Nat /\ k \in Nat
      BY <1>2, <3>1, <3>2, Zenon
    <3>7. Pipe(d)' = q
      BY <3>3, Zenon
    <3> HIDE DEF p, q, k
    <3>8. CASE i <= k /\ i <= Len(p) - 1
      <4>1. i \in DOMAIN q /\ q[i] = p[i]
        BY <3>4, <3>5, <3>6, <3>8
      <4> QED
        BY <3>6, <3>7, <4>1, Zenon DEF Somewhere
    <3>9. CASE i > k + 1
      <4>1. i - 1 \in 1 .. Len(p) - 1 /\ ~(i - 1 <= k) /\ (i - 1) + 1 = i
        BY <3>6, <3>9
      <4>2. i - 1 \in DOMAIN q /\ q[i - 1] = p[i]
        BY <3>4, <3>5, <4>1, Zenon
      <4> QED
        BY <3>6, <3>7, <4>2, Zenon DEF Somewhere
    <3>10. \E n \in Polls(d) : sent[d][n].box = b
      <4>1. f # Empty
        BY RelayAssumption, Zenon
      <4>2. PICK n \in Polls(d) : /\ sent[d][n].box = Pipe(d)[i].box
                                  /\ Origin(f, Pipe(d)[i].box)
        BY <1>2, <4>1, Zenon DEF OriginInv
      <4> QED
        BY <4>2, Zenon DEF Origin
    <3>11. CASE i = k + 1 \/ i = Len(p)
      <4>1. \E n \in Polls(d)' : sent'[d][n].box = b
        BY <3>10, PollsStay, Zenon
      <4> QED
        BY <3>3, <4>1, Zenon DEF Gone
    <3> QED
      BY <3>6, <3>8, <3>9, <3>11
  <2> QED
    BY <2>1, <2>2, <2>3, Zenon DEF Quiet, Settled
<1> QED
  BY <1>1, <1>2, Zenon DEF Somewhere

LEMMA KeptPush ==
    ASSUME SessionInv, NEW c \in Conn, NEW r \in Request, PushStep(c, r), NEW f, Somewhere(f)
    PROVE  Somewhere(f)'
<1>1. Broker!ProcessPush(r.box, <<c, taken[c] + 1>>) /\ r.box \in MailboxID
      /\ <<c, taken[c] + 1>> \in Frame /\ Types
  BY Zenon DEF PushStep, Took, Push, SessionInv
<1>2. \A d \in Conn : Pipe(d)' = Pipe(d)
  BY Zenon DEF PushStep
<1>3. CASE \E m \in DOMAIN queues : \E i \in DOMAIN queues[m] : queues[m][i] = f
  BY <1>1, <1>3, PushForward, Zenon DEF Somewhere
<1>4. CASE \E d \in Conn : \E i \in DOMAIN Pipe(d) : Pipe(d)[i].frame = f
  BY <1>2, <1>4, Zenon DEF Somewhere
<1> QED
  BY <1>3, <1>4, Zenon DEF Somewhere

LEMMA KeptPoll ==
    ASSUME SessionInv, NEW c \in Conn, NEW r \in Request, PollStep(c, r), NEW f, Somewhere(f)
    PROVE  Somewhere(f)'
<1> DEFINE a == Answer(r.box, reply')
           p == Pipe(c)
<1>1. Broker!ProcessPoll(r.box) /\ r.box \in MailboxID /\ Types
  BY Zenon DEF PollStep, Poll, SessionInv
<1>2. /\ \A d \in Conn \ {c} : Pipe(d)' = Pipe(d)
      /\ a \in Reply /\ a.frame = reply' /\ p \in Seq(Reply) /\ Pipe(c)' = Append(p, a)
  BY PipeType, Zenon DEF PollStep, Answer, SessionInv
<1> HIDE DEF a, p
<1>3. /\ DOMAIN Append(p, a) = 1 .. Len(p) + 1 /\ DOMAIN p = 1 .. Len(p) /\ Len(p) \in Nat
      /\ \A i \in 1 .. Len(p) : Append(p, a)[i] = p[i]
      /\ Append(p, a)[Len(p) + 1] = a
  BY <1>2, AppendIndex
<1>4. Len(p) + 1 \in DOMAIN Append(p, a) /\ \A i \in DOMAIN p : i \in DOMAIN Append(p, a)
  BY <1>3
<1>5. CASE \E m \in DOMAIN queues : \E i \in DOMAIN queues[m] : queues[m][i] = f
  <2>1. CASE reply' = f
    BY <1>2, <1>3, <1>4, <2>1 DEF Somewhere
  <2>2. CASE reply' # f
    BY <1>1, <1>5, <2>2, PollForward, Zenon DEF Somewhere
  <2> QED
    BY <2>1, <2>2, Zenon
<1>6. ASSUME NEW d \in Conn, NEW i \in DOMAIN Pipe(d), Pipe(d)[i].frame = f PROVE Somewhere(f)'
  <2>1. i \in DOMAIN Pipe(d)' /\ Pipe(d)'[i] = Pipe(d)[i]
    BY <1>2, <1>3, <1>4, Zenon DEF p
  <2> QED
    BY <1>6, <2>1, Zenon DEF Somewhere
<1> QED
  BY <1>5, <1>6, Zenon DEF Somewhere

\* With room for every frame a push is never refused: the frames of a mailbox
\* are different from each other and from the new one.
LEMMA RoomForMore ==
    ASSUME Cardinality(Frame) <= MaxMessages, NEW q \in Seq(Frame), NEW f \in Frame,
           \A i, j \in DOMAIN q : q[i] = q[j] => i = j,
           \A i \in DOMAIN q : q[i] # f
    PROVE  ~(Len(q) >= MaxMessages)
<1>1. IsFiniteSet(Frame) /\ Cardinality(Frame) \in Nat
  <2>1. IsFiniteSet(1 .. MaxRequests)
    BY RelayAssumption, FS_Interval
  <2> QED
    BY <2>1, RelayAssumption, FS_Product, FS_CardinalityType, Zenon DEF Frame
<1> DEFINE T == Frame \ {f}
<1>2. IsFiniteSet(T) /\ Cardinality(T) = Cardinality(Frame) - 1
  BY <1>1, FS_RemoveElement, Zenon
<1>3. DOMAIN q = 1 .. Len(q) /\ Len(q) \in Nat /\ \A i \in DOMAIN q : q[i] \in Frame
  OBVIOUS
<1>4. IsFiniteSet(DOMAIN q) /\ Cardinality(DOMAIN q) = Len(q)
  <2>1. \A n \in Nat : IsFiniteSet(1 .. n) /\ Cardinality(1 .. n) = n
    BY FS_Interval
  <2> QED
    BY <1>3, <2>1, Zenon
<1>5. q \in [DOMAIN q -> T]
  BY <1>3
<1> HIDE DEF T
<1>6. ~(Cardinality(T) < Cardinality(DOMAIN q))
  BY <1>2, <1>4, <1>5, FS_PigeonHole
<1>7. MaxMessages \in Nat
  BY RelayAssumption, Zenon
<1> QED
  BY <1>1, <1>2, <1>3, <1>4, <1>6, <1>7, SMTT(30)

LEMMA PushStored ==
    ASSUME SessionInv, OriginInv, UniqueInv, Cardinality(Frame) <= MaxMessages,
           NEW c \in Conn, NEW r \in Request, PushStep(c, r), NEW f, f = <<c, taken[c] + 1>>
    PROVE  Somewhere(f)'
<1> DEFINE q == Broker!Queue(r.box)
<1>1. Broker!ProcessPush(r.box, f) /\ r.box \in MailboxID /\ f \in Frame /\ Types
  BY Zenon DEF PushStep, Took, Push, SessionInv
<1>2. /\ q \in Seq(Frame) /\ r.box \in DOMAIN queues'
      /\ queues'[r.box] = IF Len(q) >= MaxMessages THEN q ELSE Append(q, f)
  BY <1>1, PushEffect, Zenon
<1>3. q = <<>> \/ (r.box \in DOMAIN queues /\ q = queues[r.box])
  BY Zenon DEF Broker!Queue
<1>4. \A i, j \in DOMAIN q : q[i] = q[j] => i = j
  BY <1>3 DEF UniqueInv
<1>5. \A i \in DOMAIN q : q[i] # f
  BY <1>1, <1>3, Fresh
<1> HIDE DEF q
<1>6. queues'[r.box] = Append(q, f)
  BY <1>1, <1>2, <1>4, <1>5, RoomForMore, Zenon
<1>7. Len(q) + 1 \in DOMAIN Append(q, f) /\ Append(q, f)[Len(q) + 1] = f
  BY <1>1, <1>2
<1> QED
  BY <1>2, <1>6, <1>7, Zenon DEF Somewhere

LEMMA KeptStep ==
    ASSUME SessionInv, OriginInv, UniqueInv, KeptInv, [Next]_vars
    PROVE  KeptInv'
<1> SUFFICES ASSUME Cardinality(Frame) <= MaxMessages, NEW c \in Conn, NEW n \in 1 .. taken'[c],
                    auth'[c], sent'[c][n].action \in {"PUSH", "ACK"}, NEW b, b = sent'[c][n].box
             PROVE  Somewhere(<<c, n>>)' \/ Gone(b)'
  BY DEF KeptInv, Gone
<1>1. CASE n \in 1 .. taken[c] /\ auth[c] /\ sent'[c][n] = sent[c][n]
  <2>1. Somewhere(<<c, n>>) \/ Gone(b)
    BY <1>1, Zenon DEF KeptInv
  <2>2. CASE Gone(b)
    BY <2>2, GoneStays DEF Gone
  <2>3. CASE Somewhere(<<c, n>>)
    <3>1. taken[c] \in Nat /\ taken[c] <= Len(sent[c]) /\ Len(sent[c]) <= MaxRequests
          /\ Len(sent[c]) \in Nat
      BY DEF SessionInv, Types, SessionOf, Counted
    <3>2. <<c, n>> \in Frame
      BY <1>1, <3>1, RelayAssumption DEF Frame
    <3>3. Origin(<<c, n>>, b)
      BY <1>1, <3>1 DEF Origin
    <3> QED
      BY <2>3, <3>2, <3>3, StepShape, KeptQuiet, KeptPush, KeptPoll, Zenon
  <2> QED
    BY <2>1, <2>2, <2>3, Zenon
<1>2. ASSUME NEW r \in Request, PushStep(c, r), n = taken[c] + 1
      PROVE  Somewhere(<<c, n>>)'
  BY <1>2, PushStored, Zenon
<1> QED
  BY <1>1, <1>2, TakenBefore, Zenon

\* With room for every frame, what an authenticated session has pushed is in
\* the relay or with a client, or a connection that had polled for its mailbox
\* has ended.
THEOREM LostOnlyWithConnectionHolds == Spec => []LostOnlyWithConnection
<1>1. Init => FrameInv /\ KeptInv
  <2>1. Init => \A c \in Conn : 1 .. taken[c] = {}
    BY DEF Init
  <2> QED
    BY <2>1, SessionInit, FrameInit, Zenon DEF FrameInv, KeptInv
<1>2. FrameInv /\ KeptInv /\ [Next]_vars => (FrameInv /\ KeptInv)'
  BY SessionStep, OriginStep, UniqueStep, KeptStep, Zenon DEF FrameInv
<1>3. FrameInv /\ KeptInv => LostOnlyWithConnection
  <2> SUFFICES ASSUME KeptInv, Cardinality(Frame) <= MaxMessages, NEW c \in Conn,
                      NEW n \in 1 .. taken[c], auth[c], sent[c][n].action \in {"PUSH", "ACK"},
                      Copies(<<c, n>>) = {}
               PROVE  Gone(sent[c][n].box)
    BY Zenon DEF LostOnlyWithConnection, Gone
  <2>1. ~Somewhere(<<c, n>>)
    BY CopiesPlaces, Zenon DEF Somewhere
  <2> QED
    BY <2>1, Zenon DEF KeptInv
<1> QED
  BY <1>1, <1>2, <1>3, PTL DEF Spec

-----------------------------------------------------------------------------
(* Answers. *)

\* Sequence s begins with the challenge and goes on with the answers to the
\* polls of c, in their order.
Answers(c, s) ==
    /\ Len(s) <= 1 + Cardinality(Polls(c))
    /\ s # <<>> => s[1] = Challenge
    /\ \A k \in Polls(c) : 1 + Rank(c, k) <= Len(s) => s[1 + Rank(c, k)].box = sent[c][k].box

AnswersOf(c) ==
    /\ Answers(c, inbox[c])
    /\ socket[c] = "open" /\ up[c] =>
           Answers(c, Pipe(c)) /\ Len(Pipe(c)) = 1 + Cardinality(Polls(c))

LEMMA PollsFinite ==
    ASSUME NEW c \in Conn, taken[c] \in Nat
    PROVE  /\ IsFiniteSet(Polls(c)) /\ Cardinality(Polls(c)) \in Nat
           /\ \A k : IsFiniteSet({i \in Polls(c) : i <= k}) /\ Rank(c, k) \in Nat
           /\ \A k : Rank(c, k) <= Cardinality(Polls(c))
<1>1. IsFiniteSet(1 .. taken[c])
  BY FS_Interval
<1>2. IsFiniteSet(Polls(c))
  BY <1>1, FS_Subset, Zenon DEF Polls
<1> HIDE DEF Polls
<1>3. ASSUME NEW k
      PROVE  /\ IsFiniteSet({i \in Polls(c) : i <= k})
             /\ Cardinality({i \in Polls(c) : i <= k}) <= Cardinality(Polls(c))
  BY <1>2, FS_Subset, Zenon
<1> QED
  BY <1>2, <1>3, FS_CardinalityType, Zenon DEF Rank

LEMMA TakenSteps ==
    ASSUME SessionInv, [Next]_vars, NEW c \in Conn
    PROVE  taken'[c] = taken[c] \/ (HandleRead(c) /\ taken'[c] = taken[c] + 1)
<1>1. CASE UNCHANGED <<broker, socket, session, client>>
  BY <1>1, Zenon DEF session
<1>2. ASSUME NEW d \in Conn, Actions(d), d # c PROVE taken'[c] = taken[c]
  BY <1>2, Local, Zenon DEF Same, SessionInv
<1>3. ASSUME Actions(c), ~HandleRead(c) PROVE taken'[c] = taken[c]
  BY <1>3, Zenon DEF Actions, ClientConnect, ClientLeave, ClientSend, HandleAccept, AcceptFails,
              ReadCompletes, ReadFails, WriteDone, WriteFails, session
<1>4. ASSUME HandleRead(c) PROVE taken'[c] = taken[c] + 1
  BY <1>4, Zenon DEF HandleRead, SessionInv, Types
<1> QED
  BY <1>1, <1>2, <1>3, <1>4, NextCases, Zenon

\* A step adds at most one poll, the latest request, and leaves the ranks of
\* the earlier ones.
LEMMA PollsGrow ==
    ASSUME SessionInv, [Next]_vars, NEW c \in Conn, NEW n, n = taken[c] + 1
    PROVE  /\ \/ Polls(c)' = Polls(c)
              \/ /\ Polls(c)' = Polls(c) \cup {n} /\ n \notin Polls(c)
                 /\ Cardinality(Polls(c))' = Cardinality(Polls(c)) + 1
                 /\ Rank(c, n)' = Cardinality(Polls(c))'
                 /\ HandleRead(c) /\ sent'[c][n].action = "POLL"
           /\ Cardinality(Polls(c)) <= Cardinality(Polls(c))'
           /\ \A k \in Polls(c) : Rank(c, k)' = Rank(c, k)
<1>1. /\ taken[c] \in Nat /\ taken'[c] \in Nat
      /\ \A i \in 1 .. taken[c] : sent'[c][i] = sent[c][i]
  BY StepGrows, Zenon DEF Grows
<1>2. \A k \in Polls(c) : k \in 1 .. taken[c]
  BY Zenon DEF Polls
<1>3. IsFiniteSet(Polls(c)) /\ Cardinality(Polls(c)) \in Nat
  BY <1>1, PollsFinite, Zenon
<1>4. CASE Polls(c)' = Polls(c)
  BY <1>3, <1>4 DEF Rank
<1>5. CASE Polls(c)' # Polls(c)
  <2>1. HandleRead(c) /\ taken'[c] = n
    <3>1. taken'[c] = taken[c] => Polls(c)' = Polls(c)
      BY <1>1, Zenon DEF Polls
    <3> QED
      BY <1>5, <3>1, TakenSteps, Zenon
  <2>2. Polls(c)' = Polls(c) \cup {n} /\ sent'[c][n].action = "POLL"
    <3>1. \A i \in 1 .. n : i \in 1 .. taken[c] \/ i = n
      BY <1>1
    <3>2. \A i \in 1 .. taken[c] : i \in 1 .. n
      BY <1>1
    <3>3. n \in 1 .. n
      BY <1>1
    <3> QED
      BY <1>1, <1>5, <2>1, <3>1, <3>2, <3>3, Zenon DEF Polls
  <2>3. n \notin Polls(c)
    BY <1>1, <1>2
  <2>4. Cardinality(Polls(c))' = Cardinality(Polls(c)) + 1
    BY <1>3, <2>2, <2>3, FS_AddElement, Zenon
  <2>5. {i \in Polls(c)' : i <= n} = Polls(c)'
    BY <1>1, <1>2, <2>2
  <2>6. ASSUME NEW k \in Polls(c) PROVE {i \in Polls(c)' : i <= k} = {i \in Polls(c) : i <= k}
    <3>1. ~(n <= k)
      BY <1>1, <1>2
    <3> QED
      BY <2>2, <3>1, Zenon
  <2> QED
    BY <1>3, <2>1, <2>2, <2>3, <2>4, <2>5, <2>6, SMTT(30) DEF Rank
<1> QED
  BY <1>4, <1>5, Zenon

\* Answers that were in order stay so: a poll that has just been taken is
\* beyond what has been answered.
LEMMA AnswersStay ==
    ASSUME SessionInv, [Next]_vars, NEW c \in Conn, NEW s \in Seq(Reply), Answers(c, s)
    PROVE  Answers(c, s)'
<1>1. /\ Cardinality(Polls(c)) \in Nat /\ Cardinality(Polls(c))' \in Nat /\ Len(s) \in Nat
  <2>1. taken[c] \in Nat /\ taken'[c] \in Nat
    BY StepGrows, Zenon DEF Grows
  <2>2. Cardinality(Polls(c)) \in Nat
    BY <2>1, PollsFinite, Zenon
  <2>3. Cardinality(Polls(c)) <= Cardinality(Polls(c))' /\ Cardinality(Polls(c))' \in Nat
    BY <2>2, PollsGrow
  <2> QED
    BY <2>2, <2>3
<1>2. Len(s) <= 1 + Cardinality(Polls(c)) /\ Cardinality(Polls(c)) <= Cardinality(Polls(c))'
  BY PollsGrow, Zenon DEF Answers
<1>3. (Len(s) <= 1 + Cardinality(Polls(c)))'
  BY <1>1, <1>2
<1>4. ASSUME NEW k \in Polls(c)', 1 + Rank(c, k)' <= Len(s)
      PROVE  s[1 + Rank(c, k)'].box = sent'[c][k].box
  <2>1. CASE k \in Polls(c)
    BY <1>4, <2>1, PollsGrow, PollsStay, Zenon DEF Answers
  <2>2. CASE k \notin Polls(c)
    <3>1. k = taken[c] + 1 /\ Polls(c)' # Polls(c)
      BY <2>2, PollsGrow
    <3>2. Rank(c, k)' = Cardinality(Polls(c)) + 1
      BY <3>1, PollsGrow, Zenon
    <3> QED
      BY <1>1, <1>2, <1>4, <3>2, SMTT(30)
  <2> QED
    BY <2>1, <2>2, Zenon
<1> QED
  BY <1>3, <1>4, Zenon DEF Answers

LEMMA AnswersPrefix ==
    ASSUME SessionInv, NEW c \in Conn, NEW s \in Seq(Reply), NEW t \in Seq(Reply), Answers(c, s \o t)
    PROVE  Answers(c, s)
<1>1. Len(s \o t) = Len(s) + Len(t) /\ Len(s) \in Nat /\ Len(t) \in Nat
  OBVIOUS
<1>2. \A i \in 1 .. Len(s) : (s \o t)[i] = s[i]
  OBVIOUS
<1>3. s # <<>> => 1 \in 1 .. Len(s) /\ s \o t # <<>>
  OBVIOUS
<1>4. Cardinality(Polls(c)) \in Nat /\ \A k : Rank(c, k) \in Nat
  BY PollsFinite, Zenon DEF SessionInv, Types
<1> DEFINE u == s \o t
<1> HIDE DEF u
<1>5. /\ Len(u) = Len(s) + Len(t) /\ \A i \in 1 .. Len(s) : u[i] = s[i]
      /\ s # <<>> => 1 \in 1 .. Len(s) /\ u # <<>>
      /\ Answers(c, u)
  BY <1>1, <1>2, <1>3, Zenon DEF u
<1>6. ASSUME NEW k \in Polls(c), 1 + Rank(c, k) <= Len(s) PROVE s[1 + Rank(c, k)].box = sent[c][k].box
  <2>1. 1 + Rank(c, k) \in 1 .. Len(s) /\ 1 + Rank(c, k) <= Len(u)
    BY <1>1, <1>4, <1>5, <1>6, SMTT(30)
  <2> QED
    BY <1>5, <2>1, Zenon DEF Answers
<1>7. Len(s) <= 1 + Cardinality(Polls(c))
  BY <1>1, <1>4, <1>5 DEF Answers
<1>8. s # <<>> => s[1] = Challenge
  BY <1>5, Zenon DEF Answers
<1> QED
  BY <1>6, <1>7, <1>8, Zenon DEF Answers

\* A connection that is open on both sides was so before, or has just been
\* accepted; its polls are as they were, or it has just polled.
LEMMA OpenBefore ==
    ASSUME SessionInv, [Next]_vars, NEW c \in Conn, socket'[c] = "open", up'[c]
    PROVE  /\ \/ Opened(c) /\ Quiet
              \/ socket[c] = "open" /\ up[c]
           /\ Polls(c)' = Polls(c) \/ \E r \in Request : PollStep(c, r)
<1>1. \/ Opened(c) /\ Quiet
      \/ socket[c] = "open" /\ up[c]
  <2>1. CASE UNCHANGED <<broker, socket, session, client>>
    BY <2>1, Zenon DEF client
  <2>2. ASSUME NEW d \in Conn, Actions(d), d # c PROVE socket[c] = "open" /\ up[c]
    BY <2>2, Local DEF Same, SessionInv
  <2>3. ASSUME Actions(c), ~(HandleAccept(c) /\ ~quota) PROVE socket[c] = "open" /\ up[c]
    <3>1. CASE ClientConnect(c) \/ ClientLeave(c) \/ (\E r \in Requests : ClientSend(c, r))
      BY <3>1, Zenon DEF ClientConnect, ClientLeave, ClientSend, SessionInv, Types
    <3>2. CASE HandleAccept(c) \/ AcceptFails(c)
      BY <2>3, <3>2, Zenon DEF HandleAccept, AcceptFails, SessionInv, Types
    <3>3. CASE ReadCompletes(c) \/ ReadFails(c)
      BY <3>3, Zenon DEF ReadCompletes, ReadFails, Release, client, SessionInv, Types
    <3>4. CASE HandleRead(c)
      BY <3>4, Zenon DEF HandleRead, client, SessionInv, Types
    <3>5. CASE WriteDone(c) \/ WriteFails(c)
      BY <3>5, Zenon DEF WriteDone, WriteFails, client, SessionInv, Types
    <3> QED
      BY <2>3, <3>1, <3>2, <3>3, <3>4, <3>5, Zenon DEF Actions
  <2>4. ASSUME HandleAccept(c), ~quota PROVE Opened(c) /\ Quiet
    <3>1. queues' = queues /\ Opened(c)
      BY <2>4, AcceptEffect, Zenon DEF Opened, broker, client
    <3>2. \A d \in Conn \ {c} : Settled(d)
      BY <2>4, Local, SameSettled, Zenon DEF SessionInv, Actions
    <3> QED
      BY <3>1, <3>2, Zenon DEF Quiet, Settled
  <2> QED
    BY <2>1, <2>2, <2>3, <2>4, NextCases, Zenon
<1>2. ASSUME Polls(c)' # Polls(c) PROVE \E r \in Request : PollStep(c, r)
  <2> DEFINE r == sent[c][taken[c] + 1]
  <2>1. HandleRead(c) /\ sent'[c][taken[c] + 1].action = "POLL"
    BY <1>2, PollsGrow, Zenon
  <2>2. /\ Took(c, r) /\ r \in Request
        /\ r.action \in {"PUSH", "ACK", "POLL"} => r.box \in MailboxID
        /\ UNCHANGED client
        /\ Reject(c, r) \/ Admit(c, r) \/ Push(c, r) \/ Poll(c, r) \/ Ignore(c, r)
    BY <2>1, ReadCases, Zenon DEF Took, client
  <2>3. r.action = "POLL"
    BY <2>1, <2>2, Zenon DEF client
  <2> HIDE DEF r
  <2>4. ~Reject(c, r)
    BY Zenon DEF Reject, SessionInv, Types
  <2>5. Poll(c, r)
    BY <2>2, <2>3, <2>4, Zenon DEF Admit, Push, Ignore, HandleAuthResponse
  <2>6. /\ Answer(r.box, reply') \in Reply
        /\ Pipe(c)' = Append(Pipe(c), Answer(r.box, reply'))
    BY <2>2, <2>3, <2>5, PollWrites, Zenon
  <2>7. \A d \in Conn \ {c} : Pipe(d)' = Pipe(d)
    BY <2>1, Local, SameSettled, Zenon DEF SessionInv, Actions
  <2> QED
    BY <2>2, <2>3, <2>5, <2>6, <2>7, Zenon DEF PollStep
<1> QED
  BY <1>1, <1>2, Zenon

LEMMA AnswerPoll ==
    ASSUME SessionInv, [Next]_vars, NEW c \in Conn, NEW r \in Request, PollStep(c, r),
           NEW s \in Seq(Reply), NEW a \in Reply, a = Answer(r.box, reply'),
           Answers(c, s), Len(s) = 1 + Cardinality(Polls(c))
    PROVE  Answers(c, Append(s, a))' /\ Len(Append(s, a)) = 1 + Cardinality(Polls(c))'
<1> DEFINE n == taken[c] + 1
           t == Append(s, a)
<1>1. /\ r.action = "POLL" /\ r = sent[c][n] /\ taken[c] \in Nat /\ taken'[c] = n /\ sent' = sent
      /\ a.box = r.box
  BY DEF PollStep, Took, Poll, SessionInv, Types, Answer
<1>2. n \in Polls(c)' /\ n \notin Polls(c)
  BY <1>1, SMTT(60) DEF Polls
<1>3. /\ Polls(c)' = Polls(c) \cup {n} /\ Cardinality(Polls(c))' = Cardinality(Polls(c)) + 1
      /\ \A k \in Polls(c) : Rank(c, k)' = Rank(c, k)
  BY <1>2, PollsGrow, Zenon
<1>4. \A k : k = n => Rank(c, k)' = Cardinality(Polls(c)) + 1
  BY <1>2, <1>3, PollsGrow, Zenon
<1>5. Cardinality(Polls(c)) \in Nat /\ \A k : Rank(c, k) \in Nat /\ Rank(c, k) <= Cardinality(Polls(c))
  BY <1>1, PollsFinite, Zenon
<1>6. /\ t \in Seq(Reply) /\ Len(t) = Len(s) + 1 /\ Len(s) \in Nat
      /\ \A i \in 1 .. Len(s) : t[i] = s[i]
      /\ t[Len(s) + 1] = a
  BY AppendIndex
<1>7. s # <<>> /\ t # <<>>
  BY <1>5
<1> HIDE DEF n, t
<1>8. t[1] = Challenge
  <2>1. 1 \in 1 .. Len(s)
    BY <1>5
  <2> QED
    BY <1>6, <1>7, <2>1, Zenon DEF Answers
<1>9. ASSUME NEW k \in Polls(c)' PROVE t[1 + Rank(c, k)'].box = sent'[c][k].box
  <2>1. CASE k \in Polls(c)
    <3>1. 1 + Rank(c, k) <= Len(s) /\ 1 + Rank(c, k) \in 1 .. Len(s) /\ Rank(c, k)' = Rank(c, k)
      BY <1>3, <1>5, <2>1
    <3>2. s[1 + Rank(c, k)].box = sent[c][k].box
      BY <2>1, <3>1, Zenon DEF Answers
    <3> QED
      BY <1>1, <1>6, <3>1, <3>2, Zenon
  <2>2. CASE k = n
    <3>1. 1 + Rank(c, k)' = Len(s) + 1
      BY <1>4, <1>5, <2>2
    <3> QED
      BY <1>1, <1>6, <2>2, <3>1, Zenon
  <2> QED
    BY <1>3, <2>1, <2>2, Zenon
<1>10. Len(t) = 1 + Cardinality(Polls(c))'
  BY <1>3, <1>5, <1>6
<1>11. (Len(t) <= 1 + Cardinality(Polls(c))')
  BY <1>3, <1>5, <1>10
<1> QED
  BY <1>8, <1>9, <1>10, <1>11, Zenon DEF Answers, t

LEMMA AnswerStep ==
    ASSUME SessionInv, [Next]_vars, NEW c \in Conn, AnswersOf(c)
    PROVE  AnswersOf(c)'
<1> SUFFICES ASSUME NEW p, p = Pipe(c), NEW q, q = Pipe(c)',
                    NEW s, s = inbox'[c], NEW t, t = writeQueue'[c]
             PROVE  /\ Answers(c, s)'
                    /\ socket'[c] = "open" /\ up'[c] =>
                           Answers(c, q)' /\ Len(q) = 1 + Cardinality(Polls(c))'
  BY Zenon DEF AnswersOf, Answers
<1>1. /\ p \in Seq(Reply) /\ s \in Seq(Reply) /\ t \in Seq(Reply) /\ inbox[c] \in Seq(Reply)
      /\ q = s \o t
  BY SessionStep, PipeType, Zenon DEF SessionInv, Types, Pipe
<1>2. Answers(c, s)'
  <2>1. CASE inbox'[c] = inbox[c]
    <3>1. Answers(c, s)
      BY <2>1, Zenon DEF AnswersOf
    <3> QED
      BY <1>1, <3>1, AnswersStay, Zenon
  <2>2. CASE inbox'[c] # inbox[c]
    <3>1. q = p /\ socket[c] = "open" /\ up[c]
      BY <2>2, StepShape, Zenon
         DEF Quiet, Settled, Dropped, Opened, Advanced, PushStep, PollStep, Took
    <3>2. Answers(c, s \o t)
      BY <1>1, <3>1, Zenon DEF AnswersOf
    <3>3. Answers(c, s)
      BY <1>1, <3>2, AnswersPrefix, Zenon
    <3> QED
      BY <1>1, <3>3, AnswersStay, Zenon
  <2> QED
    BY <2>1, <2>2, Zenon
<1>3. ASSUME socket'[c] = "open", up'[c]
      PROVE  Answers(c, q)' /\ Len(q) = 1 + Cardinality(Polls(c))'
  <2>1. CASE Opened(c) /\ Quiet
    <3>1. q = <<Challenge>> /\ taken'[c] = 0
      BY <2>1, Zenon DEF Opened
    <3>2. Polls(c)' = {}
      BY <3>1 DEF Polls
    <3>3. Cardinality(Polls(c))' = 0
      BY <3>2, FS_EmptySet, Zenon
    <3>4. Len(q) = 1 /\ q[1] = Challenge
      BY <3>1
    <3> QED
      BY <3>2, <3>3, <3>4 DEF Answers
  <2>2. CASE ~(Opened(c) /\ Quiet)
    <3>1. socket[c] = "open" /\ up[c] /\ (Polls(c)' = Polls(c) \/ \E r \in Request : PollStep(c, r))
      BY <1>3, <2>2, OpenBefore, Zenon
    <3>2. Answers(c, p) /\ Len(p) = 1 + Cardinality(Polls(c))
      BY <3>1, Zenon DEF AnswersOf
    <3>3. ASSUME NEW r \in Request, PollStep(c, r)
          PROVE  Answers(c, q)' /\ Len(q) = 1 + Cardinality(Polls(c))'
      <4>1. PICK a : a = Answer(r.box, reply')
        BY Zenon
      <4>2. a \in Reply /\ q = Append(p, a)
        BY <3>3, <4>1, Zenon DEF PollStep
      <4> QED
        BY <1>1, <3>2, <3>3, <4>1, <4>2, AnswerPoll, SMTT(30)
    <3>4. CASE Polls(c)' = Polls(c) /\ ~\E r \in Request : PollStep(c, r)
      <4>1. q = p
        BY <1>3, <2>2, <3>4, StepShape, Zenon
           DEF Quiet, Settled, Dropped, Advanced, PushStep, PollStep
      <4>2. Answers(c, q)'
        BY <1>1, <3>2, <4>1, AnswersStay, Zenon
      <4> QED
        BY <3>2, <3>4, <4>1, <4>2, Zenon
    <3> QED
      BY <3>1, <3>3, <3>4, Zenon
  <2> QED
    BY <2>1, <2>2, Zenon
<1> QED
  BY <1>2, <1>3, Zenon

\* Every client finds the challenge and then one answer per poll, in the order
\* of its polls, with nothing skipped, and each frame is one that was pushed
\* to the polled mailbox.
THEOREM AnswersInOrderHolds == Spec => []AnswersInOrder
<1> DEFINE Inv == \A c \in Conn : AnswersOf(c)
<1>1. Init => Inv
  <2> SUFFICES ASSUME Init, NEW c \in Conn PROVE AnswersOf(c)
    BY Zenon
  <2>1. inbox[c] = <<>> /\ socket[c] # "open" /\ taken[c] = 0
    BY Zenon DEF Init
  <2>2. Polls(c) = {}
    BY <2>1 DEF Polls
  <2>3. Cardinality(Polls(c)) = 0
    BY <2>2, FS_EmptySet, Zenon
  <2> QED
    BY <2>1, <2>2, <2>3 DEF AnswersOf, Answers
<1>2. SessionInv /\ Inv /\ [Next]_vars => Inv'
  BY AnswerStep, Zenon
<1>3. FrameInv /\ Inv => AnswersInOrder
  <2> SUFFICES ASSUME FrameInv, Inv, NEW c \in Conn
               PROVE  /\ Len(inbox[c]) <= 1 + Cardinality(Polls(c))
                      /\ socket[c] = "open" /\ up[c] =>
                             Len(inbox[c] \o writeQueue[c]) = 1 + Cardinality(Polls(c))
                      /\ inbox[c] # <<>> => Head(inbox[c]) = Challenge
                      /\ \A k \in Polls(c) : 1 + Rank(c, k) <= Len(inbox[c]) =>
                             LET a == inbox[c][1 + Rank(c, k)]
                             IN  /\ a.box = sent[c][k].box
                                 /\ a.frame # Empty => sent[a.frame[1]][a.frame[2]].box = a.box
    BY Zenon DEF AnswersInOrder
  <2>1. AnswersOf(c) /\ SessionInv
    BY Zenon DEF FrameInv
  <2>2. inbox[c] \in Seq(Reply) /\ writeQueue[c] \in Seq(Reply) /\ taken[c] \in Nat
    BY <2>1, Zenon DEF SessionInv, Types
  <2>3. inbox[c] # <<>> => Head(inbox[c]) = inbox[c][1]
    BY <2>2
  <2>4. ASSUME NEW k \in Polls(c), 1 + Rank(c, k) <= Len(inbox[c])
        PROVE  LET a == inbox[c][1 + Rank(c, k)]
               IN  /\ a.box = sent[c][k].box
                   /\ a.frame # Empty => sent[a.frame[1]][a.frame[2]].box = a.box
    <3> DEFINE j == 1 + Rank(c, k)
    <3>1. j \in 1 .. Len(inbox[c])
      <4>1. Rank(c, k) \in Nat
        BY <2>2, PollsFinite, Zenon
      <4>2. Len(inbox[c]) \in Nat
        BY <2>2
      <4> QED
        BY <2>4, <4>1, <4>2
    <3> HIDE DEF j
    <3>2. j \in DOMAIN (inbox[c] \o writeQueue[c]) /\ (inbox[c] \o writeQueue[c])[j] = inbox[c][j]
      BY <2>2, <3>1, PrefixIndex, Zenon
    <3>3. inbox[c][j].box = sent[c][k].box
      BY <2>1, <2>4, Zenon DEF AnswersOf, Answers, j
    <3>4. inbox[c][j].frame # Empty => Origin(inbox[c][j].frame, inbox[c][j].box)
      BY <3>2, Zenon DEF FrameInv, OriginInv, Pipe
    <3> QED
      BY <3>3, <3>4, Zenon DEF Origin, j
  <2> QED
    BY <2>1, <2>3, <2>4, Zenon DEF AnswersOf, Answers, Pipe
<1> HIDE DEF Inv
<1> QED
  BY <1>1, <1>2, <1>3, SessionsSound, FramesSound, PTL DEF Spec

=============================================================================
