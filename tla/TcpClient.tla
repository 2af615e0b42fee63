----------------------------- MODULE TcpClient ------------------------------
(***************************************************************************)
(* The client's connection (libs/network/src/tcp_client.cpp) with the      *)
(* queue of the session logic that feeds it and the connect command        *)
(* (libs/cli/src/repl.cpp).  One thread runs the io_context: the timer of  *)
(* the constant rate, reads and writes are handlers, one action each.  The *)
(* main thread submits frames and runs connect.                            *)
(*                                                                         *)
(* A handler that is queued when Disconnect runs is not cancelled by it.   *)
(***************************************************************************)
EXTENDS Integers, Sequences

CONSTANTS
    MaxData,       \* bound: frames submitted by the session logic
    MaxQueued,     \* bound: frames in writeQueue when a tick adds one
    MaxIncoming    \* bound: frames from the relay that are not read yet

ASSUME ClientAssumption == MaxData \in Nat /\ MaxQueued \in Nat /\ MaxIncoming \in Nat

\* Frames of the session logic are numbered in the order they are queued.
Data == 1 .. MaxData
PollFrame == 0
AuthResponse == -1    \* AUTH_RESPONSE

VARIABLES
    outbox,            \* Repl::outbox
    submitted,         \* how many frames have been put there
    alive,             \* the process has not been terminated
    started,           \* Repl::asioThread is joinable
    socket,            \* "none", "open" or "closed"
    link,              \* the circuit to the relay works
    timer,             \* cbrTimer: "off", "armed" or "due" (handler queued)
    reading,           \* "off", "armed", "ready" (handler queued) or "late" (started
                       \* on a closed socket)
    isAuthenticated,
    writeQueue,
    inFlight,          \* the buffers of the pending async_writes
    incoming,          \* frames the relay has sent
    written            \* frames handed to TCP, of the polls only a leading one

repl == <<outbox, submitted, alive, started>>
clientVars == <<repl, socket, link, timer, reading, isAuthenticated, writeQueue, inFlight,
                incoming, written>>

ClientInit ==
    /\ outbox = <<>> /\ submitted = 0
    /\ alive = TRUE /\ started = FALSE
    /\ socket = "none" /\ link = FALSE
    /\ timer = "off" /\ reading = "off"
    /\ isAuthenticated = FALSE
    /\ writeQueue = <<>> /\ inFlight = <<>>
    /\ incoming = <<>> /\ written = <<>>

-----------------------------------------------------------------------------
(* The main thread. *)

\* HandleSend and the handlers of received frames queue a frame.
Submit ==
    /\ alive /\ submitted < MaxData
    /\ submitted' = submitted + 1
    /\ outbox' = Append(outbox, submitted + 1)
    /\ UNCHANGED <<alive, started, socket, link, timer, reading, isAuthenticated,
                   writeQueue, inFlight, incoming, written>>

\* The first connect that succeeds: StartAsyncEngine and the thread.
Connect ==
    /\ alive /\ ~started
    /\ socket' = "open" /\ link' = TRUE
    /\ reading' = "armed" /\ timer' = "armed"
    /\ started' = TRUE
    /\ incoming' = <<"CHALLENGE">>
    /\ UNCHANGED <<outbox, submitted, alive, isAuthenticated, writeQueue, inFlight, written>>

\* Disconnect cancels the wait of the timer, not a handler already queued.
Cancelled(t) == IF t = "armed" THEN "off" ELSE t

\* connect fails.  asio::connect closes the socket it is given before it
\* opens it, so a connection that was up is gone.  When it cannot reach the Tor
\* proxy Connect just returns, and the timer goes on; when the handshake with the
\* proxy fails Connect disconnects.
ConnectFails ==
    /\ alive
    /\ socket' = IF started THEN "closed" ELSE "none"
    /\ timer' \in {timer, Cancelled(timer)}
    /\ UNCHANGED <<repl, link, reading, isAuthenticated, writeQueue, inFlight, incoming, written>>

\* connect succeeds once more: assigning to a joinable std::thread terminates
\* the process.
ConnectAgain ==
    /\ alive /\ started
    /\ alive' = FALSE
    /\ UNCHANGED <<outbox, submitted, started, socket, link, timer, reading,
                   isAuthenticated, writeQueue, inFlight, incoming, written>>

-----------------------------------------------------------------------------
(* The network. *)

LinkDies ==
    /\ link
    /\ link' = FALSE
    /\ UNCHANGED <<repl, socket, timer, reading, isAuthenticated, writeQueue, inFlight,
                   incoming, written>>

\* The relay answers a poll, or sends what the parser rejects.
RelaySends(kind) ==
    /\ link /\ Len(incoming) < MaxIncoming
    /\ incoming' = Append(incoming, kind)
    /\ UNCHANGED <<repl, socket, link, timer, reading, isAuthenticated, writeQueue,
                   inFlight, written>>

-----------------------------------------------------------------------------
(* Writing. *)

\* Mutant: a write is started although one is in progress.
DoWrite_NoGuard(pending, q) == IF q = <<>> THEN pending ELSE Append(pending, Head(q))

\* The pending writes afterwards.
DoWrite(pending, q) == IF pending # <<>> \/ q = <<>> THEN pending ELSE <<Head(q)>>

QueueFrame(f) ==
    /\ writeQueue' = Append(writeQueue, f)
    /\ inFlight' = DoWrite(inFlight, writeQueue')

\* What is written while the circuit is broken goes nowhere.
WriteDone ==
    /\ alive /\ socket = "open" /\ inFlight # <<>>
    /\ written' = IF ~link \/ (Head(inFlight) = PollFrame /\ written # <<>>) THEN written
                  ELSE Append(written, Head(inFlight))
    /\ writeQueue' = Tail(writeQueue)
    /\ inFlight' = DoWrite(Tail(inFlight), Tail(writeQueue))
    /\ UNCHANGED <<repl, socket, link, timer, reading, isAuthenticated, incoming>>

\* A failed write is logged; neither the socket nor the timer is touched.
WriteFails ==
    /\ alive /\ inFlight # <<>> /\ (socket = "closed" \/ ~link)
    /\ writeQueue' = Tail(writeQueue)
    /\ inFlight' = Tail(inFlight)
    /\ UNCHANGED <<repl, socket, link, timer, reading, isAuthenticated, incoming, written>>

-----------------------------------------------------------------------------
(* The constant rate. *)

TimerExpires ==
    /\ alive /\ timer = "armed"
    /\ timer' = "due"
    /\ UNCHANGED <<repl, socket, link, reading, isAuthenticated, writeQueue, inFlight,
                   incoming, written>>

\* Mutant: ticks do not wait for the challenge.
DoCbrTick_Early ==
    /\ alive /\ timer = "due" /\ Len(writeQueue) < MaxQueued
    /\ timer' = "armed"
    /\ QueueFrame(IF outbox # <<>> THEN Head(outbox) ELSE PollFrame)
    /\ outbox' = IF outbox # <<>> THEN Tail(outbox) ELSE outbox
    /\ UNCHANGED <<submitted, alive, started, socket, link, reading, isAuthenticated,
                   incoming, written>>

\* Mutant: the timer is not set again while the client waits.
DoCbrTick_NoRearm ==
    /\ alive /\ timer = "due" /\ Len(writeQueue) < MaxQueued
    /\ timer' = IF isAuthenticated THEN "armed" ELSE "off"
    /\ IF isAuthenticated
       THEN /\ QueueFrame(IF outbox # <<>> THEN Head(outbox) ELSE PollFrame)
            /\ outbox' = IF outbox # <<>> THEN Tail(outbox) ELSE outbox
       ELSE UNCHANGED <<outbox, writeQueue, inFlight>>
    /\ UNCHANGED <<submitted, alive, started, socket, link, reading, isAuthenticated,
                   incoming, written>>

\* DoCbrTick with GetNextFrameForCBR: queued frames before polls.
DoCbrTick ==
    /\ alive /\ timer = "due" /\ Len(writeQueue) < MaxQueued
    /\ timer' = "armed"
    /\ IF isAuthenticated
       THEN /\ QueueFrame(IF outbox # <<>> THEN Head(outbox) ELSE PollFrame)
            /\ outbox' = IF outbox # <<>> THEN Tail(outbox) ELSE outbox
       ELSE UNCHANGED <<outbox, writeQueue, inFlight>>
    /\ UNCHANGED <<submitted, alive, started, socket, link, reading, isAuthenticated,
                   incoming, written>>

-----------------------------------------------------------------------------
(* Reading. *)

ReadCompletes ==
    /\ alive /\ socket = "open" /\ reading = "armed" /\ incoming # <<>>
    /\ reading' = "ready"
    /\ UNCHANGED <<repl, socket, link, timer, isAuthenticated, writeQueue, inFlight,
                   incoming, written>>

\* An aborted read just returns, any other failure disconnects.
ReadFails ==
    /\ alive /\ reading \in {"armed", "late"} /\ (socket = "closed" \/ ~link)
    /\ reading' = "off"
    /\ socket' = "closed"
    /\ timer' = IF reading = "armed" /\ socket = "closed" THEN timer ELSE Cancelled(timer)
    /\ UNCHANGED <<repl, link, isAuthenticated, writeQueue, inFlight, incoming, written>>

\* DoRead at the end of the handler does not look at the socket.
Reread == IF socket = "open" THEN "armed" ELSE "late"

\* The read handler: answer the challenge, disconnect on a malformed frame;
\* the receiver of other frames belongs to the session logic.  The proof of
\* work of HandleAuthChallenge runs to its end inside the handler.
HandleRead ==
    /\ alive /\ reading = "ready"
    /\ incoming' = Tail(incoming)
    /\ \/ /\ Head(incoming) = "CHALLENGE"
          /\ isAuthenticated' = TRUE
          /\ QueueFrame(AuthResponse)
          /\ reading' = Reread
          /\ UNCHANGED <<socket, timer>>
       \/ /\ Head(incoming) = "ANSWER"
          /\ reading' = Reread
          /\ UNCHANGED <<isAuthenticated, writeQueue, inFlight, socket, timer>>
       \/ /\ Head(incoming) = "MALFORMED"
          /\ reading' = "off"
          /\ socket' = "closed"
          /\ timer' = Cancelled(timer)
          /\ UNCHANGED <<isAuthenticated, writeQueue, inFlight>>
    /\ UNCHANGED <<repl, link, written>>

ClientNext ==
    \/ Submit \/ Connect \/ ConnectFails \/ ConnectAgain
    \/ LinkDies \/ RelaySends("ANSWER") \/ RelaySends("MALFORMED")
    \/ TimerExpires \/ DoCbrTick
    \/ ReadCompletes \/ ReadFails \/ HandleRead
    \/ WriteDone \/ WriteFails

ClientSpec == ClientInit /\ [][ClientNext]_clientVars

\* The io_context runs its timer and every handler that is ready.
FairClientSpec ==
    /\ ClientSpec
    /\ WF_clientVars(TimerExpires) /\ WF_clientVars(DoCbrTick)
    /\ WF_clientVars(ReadCompletes) /\ WF_clientVars(ReadFails) /\ WF_clientVars(HandleRead)
    /\ WF_clientVars(WriteDone \/ WriteFails)

-----------------------------------------------------------------------------
(* Properties. *)

\* The frames of the session logic in a queue, in order.
DataOf[q \in Seq(Int)] ==
    IF q = <<>> THEN <<>>
    ELSE (IF Head(q) \in Data THEN <<Head(q)>> ELSE <<>>) \o DataOf[Tail(q)]

Broken == started /\ (~link \/ socket = "closed")

\* The answer to the challenge is the first frame on the wire, whatever the
\* timer does meanwhile: the relay drops a client that starts otherwise.
ChallengeAnsweredFirst == written # <<>> => Head(written) = AuthResponse

\* What the session logic sees: the frames that have not left, those that have,
\* and the line.
Pending == DataOf[writeQueue] \o outbox
Transmitted == DataOf[written]
Line == IF ~started THEN "new" ELSE IF Broken THEN "broken" ELSE "up"

\* Seen from the session logic the connection is a first-in first-out channel
\* that loses frames only after it broke, and repeats none.
Port ==
    INSTANCE ClientChannel WITH pending <- Pending, sent <- Transmitted, line <- Line
ImplementsClientChannel == Port!Spec

\* A frame that was queued is transmitted, unless the connection breaks or
\* was never made.
QueuedFramesLeave ==
    \A f \in Data :
        (submitted >= f /\ started) ~>
            (Broken \/ ~alive \/ \E i \in DOMAIN written : written[i] = f)
=============================================================================
