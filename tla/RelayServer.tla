---------------------------- MODULE RelayServer -----------------------------
(***************************************************************************)
(* The relay process: the accept loop with its memory quota                *)
(* (libs/network/src/tcp_server.cpp, memory_monitor.cpp), one TcpSession   *)
(* per connection (tcp_session.cpp) and the message broker behind them.    *)
(*                                                                         *)
(* One io_context on one thread runs every handler, so a handler is one    *)
(* action.  Between two handlers anything may happen: bytes arrive, a      *)
(* client goes away, a socket is closed while the handler of a finished    *)
(* read is already queued.  A read delivers one frame: a read with several *)
(* is a row of such steps.  FrameParser shows that frames survive any cut. *)
(***************************************************************************)
EXTENDS Integers, Sequences, FiniteSets

CONSTANTS
    Conn,          \* connections made over the life of the relay
    MailboxID,
    Empty,         \* no frame
    MaxMessages,   \* the broker's quota
    Requests,      \* the frames that clients send
    MaxRequests,   \* bound: frames a client sends over one connection
    MaxUnread,     \* bound: frames of a client that are not processed yet
    MaxAlarms      \* bound: changes of the memory situation

\* A stored frame is known by the connection and the request that brought it.
Frame == Conn \X (1 .. MaxRequests)

\* What a client may send: any frame.  `box` matters to PUSH,
\* ACK and POLL, `valid` (the proof of work is right) to AUTH_RESPONSE.
Request ==
    [action : {"PUSH", "ACK", "POLL"}, box : MailboxID, valid : {TRUE}]
        \cup [action : {"AUTH_RESPONSE"}, box : {Empty}, valid : BOOLEAN]
        \cup [action : {"AUTH_CHALLENGE", "MALFORMED"}, box : {Empty}, valid : {TRUE}]

ASSUME RelayAssumption ==
    /\ Requests \subseteq Request
    /\ MaxRequests \in Nat /\ MaxUnread \in Nat /\ MaxAlarms \in Nat
    /\ MaxMessages \in Nat
    /\ IsFiniteSet(Conn)
    /\ Empty \notin Frame

VARIABLES
    queues, reply,  \* the broker, see MessageBroker
    accepting,      \* an async_accept is pending
    over,           \* the resident memory is above the limit
    alarms,         \* how often that has changed
    quota,          \* MemoryMonitor::isQuotaExceeded
    socket,         \* "none", "backlog", "open" or "closed", per connection
    auth,           \* TcpSession::state = AUTHENTICATED
    reading,        \* "armed", "ready" (handler queued) or "off"
    writeQueue,     \* TcpSession::writeQueue
    inFlight,       \* the buffers of the pending async_writes
    up,             \* the client still holds its end
    sent,           \* the frames a client has sent
    taken,          \* how many of them the session has processed
    inbox           \* the frames a client has received

broker == <<queues, reply>>
server == <<accepting, over, alarms, quota>>
session == <<auth, reading, writeQueue, inFlight, taken>>
client == <<up, sent, inbox>>
vars == <<broker, server, socket, session, client>>

Broker == INSTANCE MessageBroker

Challenge == [box |-> Empty, frame |-> Empty]
Answer(m, f) == [box |-> m, frame |-> f]

Init ==
    /\ Broker!StoreInit
    /\ accepting = TRUE
    /\ over = FALSE /\ alarms = 0 /\ quota = FALSE
    /\ socket = [c \in Conn |-> "none"]
    /\ auth = [c \in Conn |-> FALSE]
    /\ reading = [c \in Conn |-> "off"]
    /\ writeQueue = [c \in Conn |-> <<>>]
    /\ inFlight = [c \in Conn |-> <<>>]
    /\ up = [c \in Conn |-> FALSE]
    /\ sent = [c \in Conn |-> <<>>]
    /\ taken = [c \in Conn |-> 0]
    /\ inbox = [c \in Conn |-> <<>>]

-----------------------------------------------------------------------------
(* Clients and the network. *)

ClientConnect(c) ==
    /\ socket[c] = "none"
    /\ socket' = [socket EXCEPT ![c] = "backlog"]
    /\ up' = [up EXCEPT ![c] = TRUE]
    /\ UNCHANGED <<broker, server, session, sent, inbox>>

ClientSend(c, r) ==
    /\ up[c] /\ Len(sent[c]) < MaxRequests /\ Len(sent[c]) - taken[c] < MaxUnread
    /\ sent' = [sent EXCEPT ![c] = Append(@, r)]
    /\ UNCHANGED <<broker, server, socket, session, up, inbox>>

ClientLeave(c) ==
    /\ up[c]
    /\ up' = [up EXCEPT ![c] = FALSE]
    /\ UNCHANGED <<broker, server, socket, session, sent, inbox>>

-----------------------------------------------------------------------------
(* MemoryMonitor and TcpServer. *)

MemoryChanges ==
    /\ alarms < MaxAlarms
    /\ alarms' = alarms + 1
    /\ over' = ~over
    /\ UNCHANGED <<broker, accepting, quota, socket, session, client>>

\* The one-second timer; an unreadable status file leaves the flag alone.
CheckMemory ==
    /\ quota' = over
    /\ UNCHANGED <<broker, accepting, over, alarms, socket, session, client>>

-----------------------------------------------------------------------------
(* TcpSession: writing. *)

\* ProcessWriteQueue: the pending writes afterwards.
Pending(pending, q) == IF pending # <<>> \/ q = <<>> THEN pending ELSE <<Head(q)>>

\* Mutant: a write is started although one is in progress.
DoWrite_NoGuard(c, f) ==
    LET q == Append(writeQueue[c], f)
    IN  /\ writeQueue' = [writeQueue EXCEPT ![c] = q]
        /\ inFlight' = [inFlight EXCEPT ![c] = Append(@, Head(q))]

DoWrite(c, f) ==
    LET q == Append(writeQueue[c], f)
    IN  /\ writeQueue' = [writeQueue EXCEPT ![c] = q]
        /\ inFlight' = [inFlight EXCEPT ![c] = Pending(@, q)]

\* The last handler of a session takes the object and its socket with it.
Release(c, rd, pending) ==
    socket' = [socket EXCEPT ![c] = IF rd = "off" /\ pending = <<>> THEN "closed" ELSE @]

\* Mutant: nobody starts the next write.
WriteDone_Stalls(c) ==
    /\ socket[c] = "open" /\ inFlight[c] # <<>>
    /\ inbox' = [inbox EXCEPT ![c] = IF up[c] THEN Append(@, Head(inFlight[c])) ELSE @]
    /\ writeQueue' = [writeQueue EXCEPT ![c] = Tail(@)]
    /\ inFlight' = [inFlight EXCEPT ![c] = Tail(@)]
    /\ Release(c, reading[c], inFlight'[c])
    /\ UNCHANGED <<broker, server, auth, reading, taken, up, sent>>

\* Mutant: the whole queue is dropped with the buffer that was written.
WriteDone_ClearsQueue(c) ==
    /\ socket[c] = "open" /\ inFlight[c] # <<>>
    /\ inbox' = [inbox EXCEPT ![c] = IF up[c] THEN Append(@, Head(inFlight[c])) ELSE @]
    /\ writeQueue' = [writeQueue EXCEPT ![c] = <<>>]
    /\ inFlight' = [inFlight EXCEPT ![c] = <<>>]
    /\ Release(c, reading[c], inFlight'[c])
    /\ UNCHANGED <<broker, server, auth, reading, taken, up, sent>>

\* Mutant: the next write is started before the written buffer is popped.
WriteDone_PopsLate(c) ==
    /\ socket[c] = "open" /\ inFlight[c] # <<>>
    /\ inbox' = [inbox EXCEPT ![c] = IF up[c] THEN Append(@, Head(inFlight[c])) ELSE @]
    /\ writeQueue' = [writeQueue EXCEPT ![c] = Tail(@)]
    /\ inFlight' = [inFlight EXCEPT ![c] =
                        IF Len(writeQueue[c]) > 1 THEN <<Head(writeQueue[c])>> ELSE <<>>]
    /\ Release(c, reading[c], inFlight'[c])
    /\ UNCHANGED <<broker, server, auth, reading, taken, up, sent>>

\* The handler of a successful async_write.  What is written to a client that
\* has left goes nowhere.
WriteDone(c) ==
    /\ socket[c] = "open" /\ inFlight[c] # <<>>
    /\ inbox' = [inbox EXCEPT ![c] = IF up[c] THEN Append(@, Head(inFlight[c])) ELSE @]
    /\ writeQueue' = [writeQueue EXCEPT ![c] = Tail(@)]
    /\ inFlight' = [inFlight EXCEPT ![c] = Pending(Tail(@), Tail(writeQueue[c]))]
    /\ Release(c, reading[c], inFlight'[c])
    /\ UNCHANGED <<broker, server, auth, reading, taken, up, sent>>

\* The handler of a failed async_write closes the socket.
WriteFails(c) ==
    /\ socket[c] = "closed" \/ ~up[c]
    /\ inFlight[c] # <<>>
    /\ writeQueue' = [writeQueue EXCEPT ![c] = Tail(@)]
    /\ inFlight' = [inFlight EXCEPT ![c] = Tail(@)]
    /\ socket' = [socket EXCEPT ![c] = "closed"]
    /\ UNCHANGED <<broker, server, auth, reading, taken, client>>

-----------------------------------------------------------------------------
(* TcpServer::HandleAccept, with InitializeSession and TcpSession::Start. *)

\* Mutant: the early return of the quota test forgets DoAccept.
HandleAccept_QuotaStops(c) ==
    /\ accepting /\ socket[c] = "backlog"
    /\ accepting' = ~quota
    /\ IF quota
       THEN /\ socket' = [socket EXCEPT ![c] = "closed"]
            /\ UNCHANGED session
       ELSE /\ socket' = [socket EXCEPT ![c] = "open"]
            /\ DoWrite(c, Challenge)
            /\ reading' = [reading EXCEPT ![c] = "armed"]
            /\ UNCHANGED <<auth, taken>>
    /\ UNCHANGED <<broker, over, alarms, quota, client>>

\* Over the quota the accepted socket is destroyed without a word; either
\* way DoAccept is called again.
HandleAccept(c) ==
    /\ accepting /\ socket[c] = "backlog"
    /\ accepting' = TRUE
    /\ IF quota
       THEN /\ socket' = [socket EXCEPT ![c] = "closed"]
            /\ UNCHANGED session
       ELSE /\ socket' = [socket EXCEPT ![c] = "open"]
            /\ DoWrite(c, Challenge)
            /\ reading' = [reading EXCEPT ![c] = "armed"]
            /\ UNCHANGED <<auth, taken>>
    /\ UNCHANGED <<broker, over, alarms, quota, client>>

\* async_accept reports an error for a connection whose client has left.  An
\* error that leaves the connection in the backlog (no descriptor is free) only
\* sets the accept again: no variable changes, so no step stands for it.
AcceptFails(c) ==
    /\ accepting /\ socket[c] = "backlog" /\ ~up[c]
    /\ socket' = [socket EXCEPT ![c] = "closed"]
    /\ UNCHANGED <<broker, server, session, client>>

-----------------------------------------------------------------------------
(* TcpSession: reading. *)

\* A read finishes; its handler is queued.
ReadCompletes(c) ==
    /\ socket[c] = "open" /\ reading[c] = "armed" /\ taken[c] < Len(sent[c])
    /\ reading' = [reading EXCEPT ![c] = "ready"]
    /\ UNCHANGED <<broker, server, socket, auth, writeQueue, inFlight, taken, client>>

\* The handler of a read that failed (end of stream, reset, socket closed)
\* just returns; a pending write keeps the session alive.
ReadFails(c) ==
    /\ reading[c] = "armed" /\ (socket[c] = "closed" \/ ~up[c])
    /\ reading' = [reading EXCEPT ![c] = "off"]
    /\ Release(c, "off", inFlight[c])
    /\ UNCHANGED <<broker, server, auth, writeQueue, inFlight, taken, client>>

\* Mutant: a wrong proof of work is logged and let through.
HandleAuthResponse_AnyProof(r) == r.action = "AUTH_RESPONSE"

\* Whether the frame authenticates the session.  The "too small" test never
\* fails: extraction pads the payload of AUTH_RESPONSE.
HandleAuthResponse(r) == r.action = "AUTH_RESPONSE" /\ r.valid

\* Mutant: a poll that finds nothing is not answered.
Dispatch_SilentPoll(c, r) ==
    \/ /\ r.action \in {"PUSH", "ACK"}
       /\ Broker!ProcessPush(r.box, <<c, taken[c] + 1>>)
       /\ UNCHANGED <<writeQueue, inFlight>>
    \/ /\ r.action = "POLL"
       /\ Broker!ProcessPoll(r.box)
       /\ IF reply' = Empty THEN UNCHANGED <<writeQueue, inFlight>>
                            ELSE DoWrite(c, Answer(r.box, reply'))
    \/ /\ r.action \in {"AUTH_CHALLENGE", "AUTH_RESPONSE"}
       /\ UNCHANGED <<broker, writeQueue, inFlight>>

\* A frame of an authenticated session.
Dispatch(c, r) ==
    \/ /\ r.action \in {"PUSH", "ACK"}
       /\ Broker!ProcessPush(r.box, <<c, taken[c] + 1>>)
       /\ UNCHANGED <<writeQueue, inFlight>>
    \/ /\ r.action = "POLL"
       /\ Broker!ProcessPoll(r.box)
       /\ DoWrite(c, Answer(r.box, reply'))
    \/ /\ r.action \in {"AUTH_CHALLENGE", "AUTH_RESPONSE"}
       /\ UNCHANGED <<broker, writeQueue, inFlight>>

\* The read handler: close on a malformed frame or a failed authentication,
\* otherwise act on the frame; read on while the socket is open.  A frame
\* whose handler was queued before the socket was closed is still acted on.
HandleRead(c) ==
    LET r == sent[c][taken[c] + 1]
    IN  /\ reading[c] = "ready"
        /\ taken' = [taken EXCEPT ![c] = @ + 1]
        /\ \/ /\ r.action = "MALFORMED" \/ (~auth[c] /\ ~HandleAuthResponse(r))
              /\ socket' = [socket EXCEPT ![c] = "closed"]
              /\ UNCHANGED <<broker, auth, writeQueue, inFlight>>
           \/ /\ ~auth[c] /\ HandleAuthResponse(r)
              /\ auth' = [auth EXCEPT ![c] = TRUE]
              /\ UNCHANGED <<broker, socket, writeQueue, inFlight>>
           \/ /\ auth[c] /\ r.action # "MALFORMED"
              /\ Dispatch(c, r)
              /\ UNCHANGED <<socket, auth>>
        /\ reading' = [reading EXCEPT ![c] = IF socket'[c] = "open" THEN "armed" ELSE "off"]
        /\ UNCHANGED <<server, client>>

Next ==
    \/ MemoryChanges
    \/ CheckMemory
    \/ \E c \in Conn :
           \/ ClientConnect(c) \/ ClientLeave(c) \/ (\E r \in Requests : ClientSend(c, r))
           \/ HandleAccept(c) \/ AcceptFails(c)
           \/ ReadCompletes(c) \/ ReadFails(c) \/ HandleRead(c)
           \/ WriteDone(c) \/ WriteFails(c)

Spec == Init /\ [][Next]_vars

\* The io_context runs every handler that is ready, TCP delivers what was sent to
\* a client that stays, and accept does not fail for ever on a connection that
\* stays in the backlog; nothing is assumed of clients or of memory.
FairSpec ==
    /\ Spec
    /\ WF_vars(CheckMemory)
    /\ \A c \in Conn :
           /\ WF_vars(HandleAccept(c)) /\ WF_vars(ReadCompletes(c))
           /\ WF_vars(HandleRead(c)) /\ WF_vars(WriteDone(c) \/ WriteFails(c))

-----------------------------------------------------------------------------
(* Properties. *)

Positions(q, f) == {i \in DOMAIN q : q[i] = f}
Carrying(q, f) == {i \in DOMAIN q : q[i].frame = f}

\* Copies of a frame in the broker, on its way to a client, and received.
Copies(f) ==
    (UNION {{<<"stored", m, i>> : i \in Positions(queues[m], f)} : m \in DOMAIN queues})
        \cup (UNION {{<<"sent", c, i>> : i \in Carrying(inbox[c] \o writeQueue[c], f)} : c \in Conn})

\* The requests of c that were polls, and how many of them came up to the k-th.
Polls(c) == {i \in 1 .. taken[c] : sent[c][i].action = "POLL"}
Rank(c, k) == Cardinality({i \in Polls(c) : i <= k})

\* The buffer that asio is writing from is the front of writeQueue: it is not
\* popped, wiped or overtaken while the write is in progress.
WritesFromFront ==
    \A c \in Conn : inFlight[c] # <<>> =>
        writeQueue[c] # <<>> /\ inFlight[c] = <<Head(writeQueue[c])>>

\* Whatever two sessions poll and however their writes interleave, a frame is
\* handed out at most once: it is in the broker, in one session's writeQueue
\* or with one client.
AtMostOnce == \A f \in Frame : \A x, y \in Copies(f) : x = y

\* A client can match answers to polls by counting: the challenge comes first,
\* then one answer per poll, in the order of the polls, each with a frame that
\* was pushed to the polled mailbox or with none.  No answer is skipped.
AnswersInOrder ==
    \A c \in Conn :
        /\ Len(inbox[c]) <= 1 + Cardinality(Polls(c))
        /\ socket[c] = "open" /\ up[c] =>
               Len(inbox[c] \o writeQueue[c]) = 1 + Cardinality(Polls(c))
        /\ inbox[c] # <<>> => Head(inbox[c]) = Challenge
        /\ \A k \in Polls(c) : 1 + Rank(c, k) <= Len(inbox[c]) =>
               LET a == inbox[c][1 + Rank(c, k)]
               IN  /\ a.box = sent[c][k].box
                   /\ a.frame # Empty => sent[a.frame[1]][a.frame[2]].box = a.box

\* A connection that has not presented a valid proof of work gets the
\* challenge and nothing else, and nothing it sent is ever stored.
StrangersLockedOut ==
    \A c \in Conn :
        (\A i \in 1 .. taken[c] : ~(sent[c][i].action = "AUTH_RESPONSE" /\ sent[c][i].valid)) =>
            /\ inbox[c] \o writeQueue[c] \in {<<>>, <<Challenge>>}
            /\ \A n \in 1 .. MaxRequests : Copies(<<c, n>>) = {}

\* With mailboxes large enough, a frame that an authenticated session has
\* taken is lost only together with a connection that polled for its mailbox.
LostOnlyWithConnection ==
    Cardinality(Frame) <= MaxMessages =>
        \A c \in Conn : \A n \in 1 .. taken[c] :
            (auth[c] /\ sent[c][n].action \in {"PUSH", "ACK"} /\ Copies(<<c, n>>) = {}) =>
                \E d \in Conn :
                    /\ socket[d] = "closed" \/ ~up[d]
                    /\ \E i \in Polls(d) : sent[d][i].box = sent[c][n].box

\* The accept loop never dies: every connection that reaches the backlog is
\* served or turned away, through any number of memory alarms.
ConnectionsDecided == \A c \in Conn : socket[c] = "backlog" ~> socket[c] # "backlog"

\* Every poll is eventually answered unless its connection ends.
PollsAnswered ==
    \A c \in Conn : \A k \in 1 .. MaxRequests :
        (socket[c] = "open" /\ Len(sent[c]) >= k /\ sent[c][k].action = "POLL")
            ~> \/ socket[c] = "closed" \/ ~up[c]
               \/ Len(inbox[c]) >
                      Cardinality({i \in DOMAIN sent[c] : i <= k /\ sent[c][i].action = "POLL"})
=============================================================================
