----------------------------- MODULE PfsSession -----------------------------
(***************************************************************************)
(* Two clients that hold each other as contact and talk through the relay  *)
(* (libs/cli/src/repl.cpp): the initial PFS handshake, periodic rotation   *)
(* of keys and mailboxes, text messages and their receipts, lost           *)
(* connections, restarts of a client, and a contact that is added again.   *)
(*                                                                         *)
(* A session is derived from one key of each side.  The hash of (secret,   *)
(* sender's key, receiver's key) yields both a mailbox identifier and a    *)
(* symmetric key, so the pair <<sender's key, receiver's key>> stands for  *)
(* both and is called a channel.                                           *)
(*                                                                         *)
(* Two threads run in a client.  Network callbacks are atomic (one asio    *)
(* thread); the `send` command of the main thread is cut where it reads    *)
(* the contact a second time, because nothing locks the contact.           *)
(***************************************************************************)
EXTENDS Naturals, Sequences

CONSTANTS
    Initiator, Responder,   \* the clients; the first has the smaller identity key
    Talkers,                \* the clients whose user sends texts
    Interval,               \* pfsMessageInterval in each client's config, 0 = no rotation
    MaxMessages,            \* the relay's quota per mailbox
    MaxKeys,                \* bound: ephemeral keys a client may generate
    MaxTexts,               \* bound: texts a client may send
    MaxInFlight,            \* bound: answers of the relay on their way to a client
    MaxCuts, MaxRestarts, MaxReadds,   \* bounds: failures of each kind
    None                    \* an empty std::optional

Peers == {Initiator, Responder}
Other(p) == IF p = Initiator THEN Responder ELSE Initiator

ASSUME SessionAssumption ==
    /\ Initiator # Responder
    /\ Talkers \subseteq Peers
    /\ Interval \in [Peers -> Nat] /\ MaxMessages \in Nat
    /\ MaxKeys \in Nat /\ MaxTexts \in Nat /\ MaxInFlight \in Nat
    /\ MaxCuts \in Nat /\ MaxRestarts \in Nat /\ MaxReadds \in Nat

\* Key <<p, 0>> is the identity key of p, <<p, n>> its n-th ephemeral key.
Key == Peers \X (0 .. MaxKeys)
Channel == Key \X Key
Mirror(ch) == <<ch[2], ch[1]>>
IsBootstrap(ch) == ch[1][2] = 0 /\ ch[2][2] = 0

ASSUME NoneAssumption == None \notin Key /\ None \notin Channel

VARIABLES
    contact,    \* addressBook entry each client has for the other
    disk,       \* the part of it that SaveToDisk writes
    keys,       \* number of ephemeral keys generated
    link,       \* "none" before connect, "up", or "cut" once the socket failed
    outbox,     \* frames waiting for a tick of the obfuscation timer
    pollIndex,  \* currentPollIndex
    down,       \* answers of the relay that the client has not handled yet
    main,       \* the main thread's progress through HandleSend
    relay,      \* mailboxes, as MailboxStore promises them
    sent,       \* OUTBOUND history entries: texts 1 .. sent[p]
    received,   \* INBOUND history entries: the texts of the other side
    delivered,  \* OUTBOUND entries whose status is DELIVERED
    answered,   \* history: <<request key, answer key>> of every handshake answered
    past,       \* history: the sending channels a client has installed
    budget      \* failures still allowed

clientVars == <<contact, disk, keys, link, outbox, pollIndex, main>>
historyVars == <<sent, received, delivered>>
vars == <<clientVars, down, relay, historyVars, answered, past, budget>>

-----------------------------------------------------------------------------
(* Frames.  The payload is opaque to all but the holder of `key`. *)

PushBody ==
    [op : {"TEXT"}, id : 1 .. MaxTexts]
        \cup [op : {"ROTATE_REQUEST"}, eph : Key]
        \cup [op : {"ROTATE_ACK"}, req : Key, eph : Key]
AckBody == [op : {"RECEIPT"}, id : 1 .. MaxTexts]

Frame ==
    [action : {"PUSH"}, to : Channel, key : Channel, body : PushBody]
        \cup [action : {"ACK"}, to : Channel, key : Channel, body : AckBody]

Push(mailbox, key, body) ==
    [action |-> "PUSH", to |-> mailbox, key |-> key, body |-> body]
Ack(mailbox, key, body) ==
    [action |-> "ACK", to |-> mailbox, key |-> key, body |-> body]

Text(id) == [op |-> "TEXT", id |-> id]
RotateRequest(eph) == [op |-> "ROTATE_REQUEST", eph |-> eph]
\* The signature covers the request's key and the answer's key.
RotateAck(req, eph) == [op |-> "ROTATE_ACK", req |-> req, eph |-> eph]
Receipt(id) == [op |-> "RECEIPT", id |-> id]

-----------------------------------------------------------------------------
(* The contact record. *)

Identity(p) == <<p, 0>>

DerivePairwiseMailboxes(p) ==
    [tx |-> <<Identity(p), Identity(Other(p))>>,
     rx |-> <<Identity(Other(p)), Identity(p)>>]

\* AddressBook::AddContact: both mailboxes and keys from the identity keys.
BootstrapContact(p) ==
    [tx |-> DerivePairwiseMailboxes(p).tx, rx |-> DerivePairwiseMailboxes(p).rx,
     oldRx |-> None, pfsState |-> "IDLE", pending |-> None,
     counter |-> 0, complete |-> FALSE]

Persistent(c) == [tx |-> c.tx, rx |-> c.rx, complete |-> c.complete]

\* AddressBook::Initialize: what SyncContactsToDisk does not write starts empty.
LoadedContact(d) ==
    [tx |-> d.tx, rx |-> d.rx, oldRx |-> None, pfsState |-> "IDLE",
     pending |-> None, counter |-> 0, complete |-> d.complete]

SaveToDisk(p, c) == disk' = [disk EXCEPT ![p] = Persistent(c)]

\* Mutant: one ephemeral key for the life of the identity.
FreshKey_Reused(p) == <<p, 1>>

\* EphemeralKey::Generate
FreshKey(p) == <<p, keys[p] + 1>>

\* Mutant: both directions hash the keys in the same order.
WithSession_SameOrder(c, mine, theirs) ==
    [c EXCEPT !.tx = <<mine, theirs>>, !.rx = <<mine, theirs>>, !.counter = 0]

\* The session of `mine` and `theirs`, as both rotation handlers derive it.
WithSession(c, mine, theirs) ==
    [c EXCEPT !.tx = <<mine, theirs>>, !.rx = <<theirs, mine>>, !.counter = 0]

\* The main thread waits for a command.
Prompt == [at |-> "prompt", key |-> None, eph |-> None]

Init ==
    /\ contact = [p \in Peers |-> BootstrapContact(p)]
    /\ disk = [p \in Peers |-> Persistent(BootstrapContact(p))]
    /\ keys = [p \in Peers |-> 0]
    /\ link = [p \in Peers |-> "none"]
    /\ outbox = [p \in Peers |-> <<>>]
    /\ pollIndex = [p \in Peers |-> 0]
    /\ down = [p \in Peers |-> <<>>]
    /\ main = [p \in Peers |-> Prompt]
    /\ relay = [ch \in Channel |-> <<>>]
    /\ sent = [p \in Peers |-> 0]
    /\ received = [p \in Peers |-> <<>>]
    /\ delivered = [p \in Peers |-> {}]
    /\ answered = {}
    /\ past = [p \in Peers |-> {}]
    /\ budget = [cuts |-> MaxCuts, restarts |-> MaxRestarts, readds |-> MaxReadds]

Enqueue(p, f) == outbox' = [outbox EXCEPT ![p] = Append(@, f)]

-----------------------------------------------------------------------------
(* Starting a rotation. *)

\* Mutant: the side with the larger identity key starts as well.
IsInitialPfsInitiator_Both(p) == p \in Peers

\* The comparison of the identity keys, the same on both sides.
IsInitialPfsInitiator(p) == p = Initiator

\* Mutant: the ephemeral key is not kept for the answer.
Requested_Forgotten(c, eph) ==
    [c EXCEPT !.pfsState = "ROTATION_REQUESTED", !.counter = 0]

\* The end of InitiatePfsRotation.
Requested(c, eph) ==
    [c EXCEPT !.pfsState = "ROTATION_REQUESTED", !.pending = eph, !.counter = 0]

\* MaybeStartInitialPfs on contact record c; `connected` is the flag that
\* HandleConnect sets.
MaybeStartInitialPfs(p, c, connected) ==
    IF connected /\ ~c.complete /\ c.pfsState = "IDLE" /\ IsInitialPfsInitiator(p)
    THEN /\ keys[p] < MaxKeys
         /\ keys' = [keys EXCEPT ![p] = @ + 1]
         /\ Enqueue(p, Push(c.tx, c.tx, RotateRequest(FreshKey(p))))
         /\ contact' = [contact EXCEPT ![p] = Requested(c, FreshKey(p))]
    ELSE /\ contact' = [contact EXCEPT ![p] = c]
         /\ UNCHANGED <<keys, outbox>>

HandleConnect(p) ==
    /\ main[p] = Prompt
    /\ link[p] = "none"
    /\ link' = [link EXCEPT ![p] = "up"]
    /\ MaybeStartInitialPfs(p, contact[p], TRUE)
    /\ UNCHANGED <<disk, pollIndex, down, main, relay, historyVars, answered, past, budget>>

\* Adding an alias that exists replaces its record (insert_or_assign).
HandleAddContact(p) ==
    /\ main[p] = Prompt
    /\ budget.readds > 0
    /\ budget' = [budget EXCEPT !.readds = @ - 1]
    /\ SaveToDisk(p, BootstrapContact(p))
    /\ MaybeStartInitialPfs(p, BootstrapContact(p), link[p] # "none")
    /\ UNCHANGED <<link, pollIndex, down, main, relay, historyVars, answered, past>>

-----------------------------------------------------------------------------
(* HandleSend, in steps of the main thread. *)

\* Mutant: texts are accepted before the handshake.
SessionReady_Always(c) == TRUE

\* The test of initialPfsComplete that comes first.
SessionReady(c) == c.complete

RotationDue(p, c) ==
    Interval[p] > 0 /\ c.counter >= Interval[p] /\ c.pfsState = "IDLE"

\* Before the initial handshake the text is refused, not stored.
HandleSendRefused(p) ==
    /\ p \in Talkers
    /\ main[p] = Prompt
    /\ ~SessionReady(contact[p])
    /\ MaybeStartInitialPfs(p, contact[p], link[p] # "none")
    /\ UNCHANGED <<disk, link, pollIndex, down, main, relay, historyVars, answered, past, budget>>

Counted(c) == [c EXCEPT !.counter = @ + 1]

\* The text is stored as PENDING_ACK.  When a rotation is due its key is
\* generated first; otherwise the text is counted and its key is read.
HandleSend(p) ==
    /\ p \in Talkers
    /\ main[p] = Prompt
    /\ SessionReady(contact[p])
    /\ sent[p] < MaxTexts
    /\ sent' = [sent EXCEPT ![p] = @ + 1]
    /\ IF RotationDue(p, contact[p])
       THEN /\ keys[p] < MaxKeys
            /\ keys' = [keys EXCEPT ![p] = @ + 1]
            /\ main' = [main EXCEPT ![p] =
                   [at |-> "rotate", key |-> None, eph |-> FreshKey(p)]]
            /\ UNCHANGED contact
       ELSE /\ contact' = [contact EXCEPT ![p] = Counted(@)]
            /\ main' = [main EXCEPT ![p] =
                   [at |-> "send", key |-> contact[p].tx, eph |-> None]]
            /\ UNCHANGED keys
    /\ UNCHANGED <<disk, link, outbox, pollIndex, down, relay, received, delivered,
                   answered, past, budget>>

\* EncryptWithPadding reads txKey: for the request, later for the text.
ReadTxKey(p) ==
    /\ main[p].at \in {"rotate", "text"}
    /\ main' = [main EXCEPT ![p] =
           [at |-> IF @.at = "rotate" THEN "request" ELSE "send",
            key |-> contact[p].tx, eph |-> @.eph]]
    /\ UNCHANGED <<contact, disk, keys, link, outbox, pollIndex, down, relay, historyVars,
                   answered, past, budget>>

\* The rest of InitiatePfsRotation reads the mailbox, queues the request and
\* notes it; HandleSend goes on to count the text.
SendRotateRequest(p) ==
    /\ main[p].at = "request"
    /\ Enqueue(p, Push(contact[p].tx, main[p].key, RotateRequest(main[p].eph)))
    /\ contact' = [contact EXCEPT ![p] =
           Counted(Requested(@, main[p].eph))]
    /\ main' = [main EXCEPT ![p] = [at |-> "text", key |-> None, eph |-> None]]
    /\ UNCHANGED <<disk, keys, link, pollIndex, down, relay, historyVars, answered, past, budget>>

\* The mailbox for the text is read and the frame queued.
SendText(p) ==
    /\ main[p].at = "send"
    /\ Enqueue(p, Push(contact[p].tx, main[p].key, Text(sent[p])))
    /\ main' = [main EXCEPT ![p] = Prompt]
    /\ UNCHANGED <<contact, disk, keys, link, pollIndex, down, relay, historyVars,
                   answered, past, budget>>

-----------------------------------------------------------------------------
(* The asio thread: ticks of the obfuscation timer. *)

\* GetNextFrameForCBR: queued frames go first, at most one per tick.  The
\* relay drops a frame for a full mailbox.
TickPush(p) ==
    /\ link[p] = "up"
    /\ outbox[p] # <<>>
    /\ outbox' = [outbox EXCEPT ![p] = Tail(@)]
    /\ LET f == Head(outbox[p])
       IN  relay' = IF Len(relay[f.to]) >= MaxMessages
                    THEN relay
                    ELSE [relay EXCEPT ![f.to] = Append(@, f)]
    /\ UNCHANGED <<contact, disk, keys, link, pollIndex, main, down, historyVars,
                   answered, past, budget>>

\* A tick that was already due when the connection failed re-arms the timer,
\* and its frames are written to a dead socket.
TickLost(p) ==
    /\ link[p] = "cut"
    /\ outbox[p] # <<>>
    /\ outbox' = [outbox EXCEPT ![p] = Tail(@)]
    /\ UNCHANGED <<contact, disk, keys, link, pollIndex, main, down, relay, historyVars,
                   answered, past, budget>>

ActiveMailboxes(c) == IF c.oldRx = None THEN <<c.rx>> ELSE <<c.rx, c.oldRx>>

\* With an empty outbox the tick polls the next mailbox in turn.  The answer
\* to an empty mailbox is a POLL frame, which OnFrameReceived ignores.
TickPoll(p) ==
    /\ link[p] = "up"
    /\ outbox[p] = <<>>
    /\ Len(down[p]) < MaxInFlight
    /\ LET boxes == ActiveMailboxes(contact[p])
           i == (pollIndex[p] + 1) % Len(boxes)
           m == boxes[i + 1]
       IN  /\ pollIndex' = [pollIndex EXCEPT ![p] = i]
           /\ IF relay[m] = <<>>
              THEN UNCHANGED <<relay, down>>
              ELSE /\ relay' = [relay EXCEPT ![m] = Tail(@)]
                   /\ down' = [down EXCEPT ![p] = Append(@, Head(relay[m]))]
    /\ UNCHANGED <<contact, disk, keys, link, outbox, main, historyVars, answered, past, budget>>

-----------------------------------------------------------------------------
(* The asio thread: frames from the relay. *)

\* GetAliasByRxMailboxId
Listening(c, f) == f.to = c.rx \/ f.to = c.oldRx

UsedOldKey(c, f) == c.oldRx # None /\ f.to = c.oldRx

Decrypts(c, f) == f.key = IF UsedOldKey(c, f) THEN c.oldRx ELSE c.rx

DropFrame(p, f) ==
    /\ ~Listening(contact[p], f) \/ ~Decrypts(contact[p], f)
    /\ UNCHANGED <<clientVars, historyVars, answered, past>>

\* Mutant: every entry of the contact is updated.
ProcessAckFrame_AllEntries(p, f) ==
    /\ f.action = "ACK"
    /\ delivered' = [delivered EXCEPT ![p] = 1 .. sent[p]]
    /\ UNCHANGED <<clientVars, sent, received, answered, past>>

\* ProcessAckFrame: the history entry becomes DELIVERED.
ProcessAckFrame(p, f) ==
    /\ f.action = "ACK"
    /\ delivered' = [delivered EXCEPT ![p] = @ \cup {f.body.id}]
    /\ UNCHANGED <<clientVars, sent, received, answered, past>>

\* Mutant: the old mailbox stays in use.
AfterPush_KeepsOld(c, f) == c

\* ProcessPushFrame: a frame on the current mailbox ends the use of the old one.
AfterPush(c, f) == IF UsedOldKey(c, f) THEN c ELSE [c EXCEPT !.oldRx = None]

\* Mutant: the receipt goes to the client's own mailbox.
ReceiptFor_OwnMailbox(c, id) == Ack(c.rx, c.rx, Receipt(id))

\* The receipt that HandleTextMessage queues.
ReceiptFor(c, id) == Ack(c.tx, c.tx, Receipt(id))

\* HandleTextMessage, with the test for the initial handshake that precedes it.
HandleTextMessage(p, c, f) ==
    /\ f.body.op = "TEXT"
    /\ contact' = [contact EXCEPT ![p] = c]
    /\ IF c = contact[p] THEN UNCHANGED disk ELSE SaveToDisk(p, c)
    /\ IF c.complete
       THEN /\ received' = [received EXCEPT ![p] = Append(@, f.body.id)]
            /\ Enqueue(p, ReceiptFor(c, f.body.id))
       ELSE UNCHANGED <<received, outbox>>
    /\ UNCHANGED <<keys, link, pollIndex, main, sent, delivered, answered, past>>

\* HandlePfsRotateRequest: answer on the current channel, keep listening on
\* the current mailbox unless this is the initial handshake, switch, save.
HandlePfsRotateRequest(p, c, f) ==
    /\ f.body.op = "ROTATE_REQUEST"
    /\ IF ~c.complete /\ IsInitialPfsInitiator(p)
       THEN /\ MaybeStartInitialPfs(p, c, link[p] # "none")
            /\ UNCHANGED <<disk, answered, past>>
       ELSE LET mine == FreshKey(p)
                theirs == f.body.eph
                kept == IF c.complete THEN [c EXCEPT !.oldRx = c.rx]
                                      ELSE [c EXCEPT !.complete = TRUE,
                                                     !.pfsState = "IDLE"]
                new == WithSession(kept, mine, theirs)
            IN  /\ keys[p] < MaxKeys
                /\ keys' = [keys EXCEPT ![p] = @ + 1]
                /\ Enqueue(p, Push(c.tx, c.tx, RotateAck(theirs, mine)))
                /\ contact' = [contact EXCEPT ![p] = new]
                /\ SaveToDisk(p, new)
                /\ answered' = answered \cup {<<theirs, mine>>}
                /\ past' = [past EXCEPT ![p] = @ \cup {new.tx}]
    /\ UNCHANGED <<link, pollIndex, main, historyVars>>

\* Mutant: the signature does not cover the request.
AckAccepted_AnyRequest(c, f) == c.pfsState = "ROTATION_REQUESTED"

\* The state test, and the signature over the pending key and the answer's.
AckAccepted(c, f) == c.pfsState = "ROTATION_REQUESTED" /\ c.pending = f.body.req

\* HandlePfsRotateAck: only the answer to the pending request counts; the
\* old mailbox is not kept.
HandlePfsRotateAck(p, c, f) ==
    /\ f.body.op = "ROTATE_ACK"
    /\ IF AckAccepted(c, f)
       THEN LET new == [WithSession(c, c.pending, f.body.eph)
                           EXCEPT !.pfsState = "IDLE", !.pending = None,
                                  !.complete = TRUE]
            IN  /\ contact' = [contact EXCEPT ![p] = new]
                /\ SaveToDisk(p, new)
                /\ past' = [past EXCEPT ![p] = @ \cup {new.tx}]
       ELSE /\ contact' = [contact EXCEPT ![p] = c]
            /\ IF c = contact[p] THEN UNCHANGED disk ELSE SaveToDisk(p, c)
            /\ UNCHANGED past
    /\ UNCHANGED <<keys, link, outbox, pollIndex, main, historyVars, answered>>

ProcessPushFrame(p, f) ==
    /\ f.action = "PUSH"
    /\ LET c == AfterPush(contact[p], f)
       IN  \/ HandleTextMessage(p, c, f)
           \/ HandlePfsRotateRequest(p, c, f)
           \/ HandlePfsRotateAck(p, c, f)

OnFrameReceived(p) ==
    /\ down[p] # <<>>
    /\ down' = [down EXCEPT ![p] = Tail(@)]
    /\ LET f == Head(down[p])
       IN  \/ DropFrame(p, f)
           \/ /\ Listening(contact[p], f) /\ Decrypts(contact[p], f)
              /\ ProcessAckFrame(p, f) \/ ProcessPushFrame(p, f)
    /\ UNCHANGED <<relay, budget>>

-----------------------------------------------------------------------------
(* Failures. *)

\* The connection fails: what the relay had sent is gone, and the client
\* does not connect again by itself.
Cut(p) ==
    /\ link[p] = "up"
    /\ budget.cuts > 0
    /\ budget' = [budget EXCEPT !.cuts = @ - 1]
    /\ link' = [link EXCEPT ![p] = "cut"]
    /\ down' = [down EXCEPT ![p] = <<>>]
    /\ UNCHANGED <<contact, disk, keys, outbox, pollIndex, main, relay, historyVars,
                   answered, past>>

\* The process ends, at any point, and is started again.
Restart(p) ==
    /\ budget.restarts > 0
    /\ budget' = [budget EXCEPT !.restarts = @ - 1]
    /\ contact' = [contact EXCEPT ![p] = LoadedContact(disk[p])]
    /\ link' = [link EXCEPT ![p] = "none"]
    /\ outbox' = [outbox EXCEPT ![p] = <<>>]
    /\ pollIndex' = [pollIndex EXCEPT ![p] = 0]
    /\ down' = [down EXCEPT ![p] = <<>>]
    /\ main' = [main EXCEPT ![p] = Prompt]
    /\ UNCHANGED <<disk, keys, relay, historyVars, answered, past>>

MainThread(p) ==
    \/ HandleConnect(p) \/ HandleAddContact(p)
    \/ HandleSendRefused(p) \/ HandleSend(p)
    \/ ReadTxKey(p) \/ SendRotateRequest(p) \/ SendText(p)

Tick(p) == TickPush(p) \/ TickPoll(p)

Next ==
    \E p \in Peers :
        \/ MainThread(p) \/ Tick(p) \/ OnFrameReceived(p)
        \/ TickLost(p) \/ Cut(p) \/ Restart(p)

Spec == Init /\ [][Next]_vars

\* The user connects; timers fire and callbacks run as long as the client
\* is connected; a `send` command that was entered is carried through.
Fairness ==
    \A p \in Peers :
        /\ WF_vars(HandleConnect(p))
        /\ WF_vars(ReadTxKey(p)) /\ WF_vars(SendRotateRequest(p)) /\ WF_vars(SendText(p))
        /\ WF_vars(Tick(p))
        /\ WF_vars(OnFrameReceived(p))

FairSpec == Spec /\ Fairness

-----------------------------------------------------------------------------
(* Properties. *)

Contact ==
    [tx : Channel, rx : Channel, oldRx : Channel \cup {None},
     pfsState : {"IDLE", "ROTATION_REQUESTED"}, pending : Key \cup {None},
     counter : Nat, complete : BOOLEAN]

DiskContact == [tx : Channel, rx : Channel, complete : BOOLEAN]

MainThreadState ==
    {Prompt}
        \cup [at : {"rotate"}, key : {None}, eph : Key]
        \cup [at : {"request"}, key : Channel, eph : Key]
        \cup [at : {"text"}, key : {None}, eph : {None}]
        \cup [at : {"send"}, key : Channel, eph : {None}]

TypeOK ==
    /\ contact \in [Peers -> Contact]
    /\ disk \in [Peers -> DiskContact]
    /\ keys \in [Peers -> 0 .. MaxKeys]
    /\ link \in [Peers -> {"none", "up", "cut"}]
    /\ outbox \in [Peers -> Seq(Frame)]
    /\ pollIndex \in [Peers -> {0, 1}]
    /\ down \in [Peers -> Seq(Frame)]
    /\ main \in [Peers -> MainThreadState]
    /\ relay \in [Channel -> Seq(Frame)]
    /\ sent \in [Peers -> 0 .. MaxTexts]
    /\ received \in [Peers -> Seq(1 .. MaxTexts)]
    /\ delivered \in [Peers -> SUBSET (1 .. MaxTexts)]
    /\ answered \in SUBSET (Key \X Key)
    /\ past \in [Peers -> SUBSET Channel]
    /\ budget \in [cuts : 0 .. MaxCuts, restarts : 0 .. MaxRestarts,
                   readds : 0 .. MaxReadds]

\* Every frame that exists outside a handler.
AllFrames(P(_)) ==
    /\ \A p \in Peers : \A i \in DOMAIN outbox[p] : P(outbox[p][i])
    /\ \A p \in Peers : \A i \in DOMAIN down[p] : P(down[p][i])
    /\ \A ch \in Channel : \A i \in DOMAIN relay[ch] : P(relay[ch][i])

\* HandleSend refuses texts until the initial handshake is complete, so that
\* no text is ever encrypted under the keys derived from the long-lived
\* identities: whatever restarts, re-added contacts and half-finished
\* handshakes precede it.
TextProtected(f) == f.body.op = "TEXT" => ~IsBootstrap(f.key)
NoTextUnderBootstrapKey == AllFrames(TextProtected)

\* A client that uses a session other than the bootstrap one uses a session
\* that the answering side of a handshake has derived: HandlePfsRotateAck
\* never installs keys the other side did not also install, under loss,
\* restarts and crossing requests alike.
SessionsWereAnswered ==
    \A p \in Peers :
        \/ IsBootstrap(contact[p].tx)
        \/ contact[p].tx \in answered
        \/ Mirror(contact[p].tx) \in answered

\* Forward secrecy needs rotation to go forward: a handler that changes the
\* sending channel installs one that this client has never used before, or
\* returns to the bootstrap channel because the contact was added again.
NeverReinstallsSession ==
    [][\A p \in Peers :
          contact'[p].tx # contact[p].tx =>
              contact'[p].tx \notin past[p]]_vars

\* Texts arrive in the order in which they were sent and at most once, even
\* across rotations with two mailboxes in use, restarts and lost connections.
InOrderAtMostOnce ==
    \A p \in Peers : \A i, j \in DOMAIN received[p] :
        i < j => received[p][i] < received[p][j]

\* "Message DELIVERED" is only shown for a text the other side has stored.
DeliveredMeansReceived ==
    \A p \in Peers : \A id \in delivered[p] :
        \E i \in DOMAIN received[Other(p)] : received[Other(p)][i] = id

\* What a client shows its user is true, through rotations, lost frames and
\* restarts: texts in the order they were sent, none twice, and DELIVERED only
\* for texts the other side has stored.
HonestHistory == InOrderAtMostOnce /\ DeliveredMeansReceived

HandshakeOp == {"ROTATE_REQUEST", "ROTATE_ACK"}
NotHandshake(f) == f.body.op \notin HandshakeOp

\* No handshake is under way: nothing pending, nothing in transit.
Quiescent ==
    /\ \A p \in Peers : contact[p].pfsState = "IDLE" /\ main[p].at \notin {"rotate", "request"}
    /\ AllFrames(NotHandshake)

\* Whenever no handshake is under way the two clients use the same session,
\* so that what one sends the other can read.
SessionsConverge ==
    Quiescent => contact[Initiator].tx = contact[Responder].rx
                 /\ contact[Initiator].rx = contact[Responder].tx

\* ProcessPushFrame drops the old mailbox "safely": no text that it should
\* still receive is left in it.
OldMailboxDroppedSafely ==
    [][\A p \in Peers :
          contact[p].oldRx # None /\ contact'[p].oldRx = None =>
              \A i \in DOMAIN relay[contact[p].oldRx] :
                  relay[contact[p].oldRx][i].body.op # "TEXT"]_vars

\* Once both users connect, the initial handshake completes on both sides.
InitialHandshakeCompletes == <>(\A p \in Peers : contact[p].complete)

\* A rotation request is answered: no client waits for ever.
RotationsFinish ==
    \A p \in Peers : contact[p].pfsState = "ROTATION_REQUESTED" ~> contact[p].pfsState = "IDLE"

\* As long as nobody starts a periodic rotation, every text accepted by
\* HandleSend is eventually shown as DELIVERED.
NoRotationYet == \A p \in Peers : keys[p] <= 1
TextsAreDelivered ==
    \A p \in Peers : \A id \in 1 .. MaxTexts :
        (sent[p] = id /\ NoRotationYet) ~> (id \in delivered[p] \/ ~NoRotationYet)
=============================================================================
