-------------------------- MODULE PfsSessionProofs --------------------------
(***************************************************************************)
(* Type correctness of PfsSession, for every number of texts, keys,        *)
(* failures and frames in flight, every interval and every quota; the      *)
(* inductive invariant behind the safety theorems; those theorems and the  *)
(* action property that no session is installed twice.  The last part      *)
(* reduces a step to what it does to one contact record and to the frames  *)
(* in transit (a move), for the proofs of PfsHistoryProofs.                *)
(***************************************************************************)
EXTENDS PfsSession, TLAPS

-----------------------------------------------------------------------------
(* What the helpers return. *)

LEMMA PeerTypes ==
    \A p \in Peers : /\ Other(p) \in Peers
                     /\ Other(p) # p
                     /\ Identity(p) \in Key
                     /\ BootstrapContact(p) \in Contact
                     /\ Persistent(BootstrapContact(p)) \in DiskContact
  BY SessionAssumption
     DEF Peers, Other, Identity, Key, Channel, BootstrapContact, DerivePairwiseMailboxes, Contact,
         Persistent, DiskContact

LEMMA ContactTypes ==
    ASSUME NEW c \in Contact
    PROVE  /\ Persistent(c) \in DiskContact
           /\ \A k \in Key : Requested(c, k) \in Contact
           /\ \A k, l \in Key : WithSession(c, k, l) \in Contact
           /\ \A f : AfterPush(c, f) \in Contact
           /\ Counted(c) \in Contact
<1>1. Counted(c) \in Contact
  BY DEF Contact, Counted
<1> QED
  BY <1>1, ZenonT(20) DEF Contact, DiskContact, Persistent, Requested, WithSession, AfterPush, Channel

LEMMA LoadedType ==
    ASSUME NEW d \in DiskContact
    PROVE  LoadedContact(d) \in Contact
  BY Zenon DEF DiskContact, LoadedContact, Contact

LEMMA FrameTypes ==
    ASSUME NEW m \in Channel, NEW k \in Channel
    PROVE  /\ \A e \in Key : Push(m, k, RotateRequest(e)) \in Frame
           /\ \A r, e \in Key : Push(m, k, RotateAck(r, e)) \in Frame
           /\ \A i \in 1 .. MaxTexts : Push(m, k, Text(i)) \in Frame
           /\ \A i \in 1 .. MaxTexts : Ack(m, k, Receipt(i)) \in Frame
  BY Zenon DEF Push, Ack, RotateRequest, RotateAck, Text, Receipt, Frame, PushBody, AckBody

LEMMA FreshKeyType ==
    ASSUME TypeOK, NEW p \in Peers, keys[p] < MaxKeys
    PROVE  FreshKey(p) \in Key
  BY SessionAssumption, SMTT(30) DEF TypeOK, FreshKey, Key

LEMMA EnqueueType ==
    ASSUME TypeOK, NEW p \in Peers, NEW f \in Frame, Enqueue(p, f)
    PROVE  outbox' \in [Peers -> Seq(Frame)]
  BY DEF TypeOK, Enqueue

LEMMA MaybeStartType ==
    ASSUME TypeOK, NEW p \in Peers, NEW c \in Contact, NEW connected,
           MaybeStartInitialPfs(p, c, connected)
    PROVE  /\ contact' \in [Peers -> Contact]
           /\ keys' \in [Peers -> 0 .. MaxKeys]
           /\ outbox' \in [Peers -> Seq(Frame)]
<1> DEFINE starts == connected /\ ~c.complete /\ c.pfsState = "IDLE"
                        /\ IsInitialPfsInitiator(p)
<1>1. CASE starts
  <2>1. keys[p] < MaxKeys /\ FreshKey(p) \in Key
    BY <1>1, FreshKeyType, Zenon DEF MaybeStartInitialPfs
  <2>2. Requested(c, FreshKey(p)) \in Contact
    BY <2>1, ContactTypes, Zenon
  <2>3. Push(c.tx, c.tx, RotateRequest(FreshKey(p))) \in Frame
    BY <2>1, FrameTypes, Zenon DEF Contact
  <2>4. outbox' \in [Peers -> Seq(Frame)]
    BY <1>1, <2>3, EnqueueType, Zenon DEF MaybeStartInitialPfs
  <2>5. keys' = [keys EXCEPT ![p] = @ + 1] /\ keys \in [Peers -> 0 .. MaxKeys]
    BY <1>1, Zenon DEF MaybeStartInitialPfs, TypeOK
  <2>6. keys' \in [Peers -> 0 .. MaxKeys]
    BY <2>1, <2>5, SessionAssumption
  <2>7. contact' = [contact EXCEPT ![p] = Requested(c, FreshKey(p))]
    BY <1>1, Zenon DEF MaybeStartInitialPfs
  <2> QED
    BY <2>2, <2>4, <2>6, <2>7, Zenon DEF TypeOK
<1>2. CASE ~starts
  BY <1>2, ZenonT(30) DEF MaybeStartInitialPfs, TypeOK
<1> QED
  BY <1>1, <1>2, Zenon

-----------------------------------------------------------------------------
(* Type correctness. *)

\* The text a `send` command carries is stored before it is sent.
StoredBeforeSent == \A p \in Peers : main[p] # Prompt => sent[p] > 0

TypeInv == TypeOK /\ StoredBeforeSent

LEMMA TypeInit == Init => TypeInv
<1> SUFFICES ASSUME Init PROVE TypeInv
  BY Zenon
<1>1. contact \in [Peers -> Contact] /\ disk \in [Peers -> DiskContact]
  BY PeerTypes, Zenon DEF Init
<1>2. keys \in [Peers -> 0 .. MaxKeys] /\ sent \in [Peers -> 0 .. MaxTexts]
  BY SessionAssumption DEF Init
<1>3. budget \in [cuts : 0 .. MaxCuts, restarts : 0 .. MaxRestarts, readds : 0 .. MaxReadds]
  BY SessionAssumption DEF Init
<1>4. StoredBeforeSent
  BY Zenon DEF Init, StoredBeforeSent
<1> QED
  BY <1>1, <1>2, <1>3, <1>4 DEF Init, TypeInv, TypeOK, MainThreadState

LEMMA ConnectType ==
    ASSUME TypeInv, NEW p \in Peers, HandleConnect(p)
    PROVE  TypeInv'
<1>1. /\ contact' \in [Peers -> Contact]
      /\ keys' \in [Peers -> 0 .. MaxKeys]
      /\ outbox' \in [Peers -> Seq(Frame)]
  BY MaybeStartType, Zenon DEF HandleConnect, TypeInv, TypeOK
<1> QED
  BY <1>1, Zenon DEF HandleConnect, TypeInv, TypeOK, StoredBeforeSent, historyVars

LEMMA AddContactType ==
    ASSUME TypeInv, NEW p \in Peers, HandleAddContact(p)
    PROVE  TypeInv'
<1>1. /\ contact' \in [Peers -> Contact]
      /\ keys' \in [Peers -> 0 .. MaxKeys]
      /\ outbox' \in [Peers -> Seq(Frame)]
  BY PeerTypes, MaybeStartType, Zenon DEF HandleAddContact, TypeInv
<1>2. disk' \in [Peers -> DiskContact]
  BY PeerTypes, Zenon DEF HandleAddContact, SaveToDisk, TypeInv, TypeOK
<1>3. budget' \in [cuts : 0 .. MaxCuts, restarts : 0 .. MaxRestarts, readds : 0 .. MaxReadds]
  <2>1. /\ budget \in [cuts : 0 .. MaxCuts, restarts : 0 .. MaxRestarts,
                       readds : 0 .. MaxReadds]
        /\ budget.readds > 0
        /\ budget' = [budget EXCEPT !.readds = @ - 1]
    BY Zenon DEF HandleAddContact, TypeInv, TypeOK
  <2> QED
    BY <2>1, SessionAssumption
<1> QED
  BY <1>1, <1>2, <1>3, Zenon DEF HandleAddContact, TypeInv, TypeOK, StoredBeforeSent, historyVars

LEMMA SendRefusedType ==
    ASSUME TypeInv, NEW p \in Peers, HandleSendRefused(p)
    PROVE  TypeInv'
<1>1. /\ contact' \in [Peers -> Contact]
      /\ keys' \in [Peers -> 0 .. MaxKeys]
      /\ outbox' \in [Peers -> Seq(Frame)]
  BY MaybeStartType, Zenon DEF HandleSendRefused, TypeInv, TypeOK
<1> QED
  BY <1>1, Zenon DEF HandleSendRefused, TypeInv, TypeOK, StoredBeforeSent, historyVars

LEMMA SendType ==
    ASSUME TypeInv, NEW p \in Peers, HandleSend(p)
    PROVE  TypeInv'
<1>1. sent' \in [Peers -> 0 .. MaxTexts] /\ sent'[p] > 0
  BY SessionAssumption, SMTT(30) DEF HandleSend, TypeInv, TypeOK
<1>2. contact[p] \in Contact /\ keys[p] \in 0 .. MaxKeys
  BY Zenon DEF TypeInv, TypeOK
<1>3. CASE RotationDue(p, contact[p])
  <2>1. /\ keys[p] < MaxKeys
        /\ keys' = [keys EXCEPT ![p] = @ + 1]
        /\ main' = [main EXCEPT ![p] = [at |-> "rotate", key |-> None, eph |-> FreshKey(p)]]
        /\ contact' = contact
    BY <1>3, Zenon DEF HandleSend
  <2>2. FreshKey(p) \in Key /\ keys[p] + 1 \in 0 .. MaxKeys
    BY <1>2, <2>1, FreshKeyType, SessionAssumption DEF TypeInv
  <2>3. [at |-> "rotate", key |-> None, eph |-> FreshKey(p)] \in MainThreadState
    BY <2>2, Zenon DEF MainThreadState
  <2>4. StoredBeforeSent'
    BY <1>1, <2>1, Zenon DEF HandleSend, TypeInv, TypeOK, StoredBeforeSent, Prompt
  <2> QED
    BY <1>1, <2>1, <2>2, <2>3, <2>4, Zenon DEF HandleSend, TypeInv, TypeOK
<1>4. CASE ~RotationDue(p, contact[p])
  <2>1. /\ contact' = [contact EXCEPT ![p] = Counted(@)]
        /\ main' = [main EXCEPT ![p] = [at |-> "send", key |-> contact[p].tx, eph |-> None]]
        /\ keys' = keys
    BY <1>4, Zenon DEF HandleSend
  <2>2. Counted(contact[p]) \in Contact
    BY <1>2, ContactTypes, Zenon
  <2>3. [at |-> "send", key |-> contact[p].tx, eph |-> None] \in MainThreadState
    BY <1>2, Zenon DEF MainThreadState, Contact
  <2>4. StoredBeforeSent'
    BY <1>1, <2>1, Zenon DEF HandleSend, TypeInv, TypeOK, StoredBeforeSent, Prompt
  <2> QED
    BY <1>1, <2>1, <2>2, <2>3, <2>4, Zenon DEF HandleSend, TypeInv, TypeOK
<1> QED
  BY <1>3, <1>4, Zenon

LEMMA ReadTxKeyType ==
    ASSUME TypeInv, NEW p \in Peers, ReadTxKey(p)
    PROVE  TypeInv'
<1> DEFINE new == [at |-> IF main[p].at = "rotate" THEN "request" ELSE "send",
                   key |-> contact[p].tx, eph |-> main[p].eph]
<1>1. contact[p].tx \in Channel /\ main[p] \in MainThreadState
  BY Zenon DEF TypeInv, TypeOK, Contact
<1>2. main[p] # Prompt /\ new # Prompt
  BY DEF ReadTxKey, Prompt
<1>3. new \in MainThreadState
  BY <1>1 DEF ReadTxKey, MainThreadState, Prompt
<1>4. main' = [main EXCEPT ![p] = new]
  BY Zenon DEF ReadTxKey
<1>5. StoredBeforeSent'
  BY <1>2, <1>4, Zenon DEF ReadTxKey, TypeInv, TypeOK, StoredBeforeSent, historyVars
<1> HIDE DEF new
<1> QED
  BY <1>3, <1>4, <1>5 DEF ReadTxKey, TypeInv, TypeOK, historyVars

LEMMA SendRotateRequestType ==
    ASSUME TypeInv, NEW p \in Peers, SendRotateRequest(p)
    PROVE  TypeInv'
<1>1. /\ contact[p] \in Contact /\ contact[p].tx \in Channel
      /\ main[p].key \in Channel /\ main[p].eph \in Key
      /\ main[p] # Prompt
  BY DEF SendRotateRequest, TypeInv, TypeOK, Contact, MainThreadState, Prompt
<1>2. outbox' \in [Peers -> Seq(Frame)]
  BY <1>1, FrameTypes, EnqueueType, Zenon DEF SendRotateRequest, TypeInv
<1>3. Counted(Requested(contact[p], main[p].eph)) \in Contact
  BY <1>1, ContactTypes, Zenon
<1>4. [at |-> "text", key |-> None, eph |-> None] \in MainThreadState
  BY Zenon DEF MainThreadState
<1>5. StoredBeforeSent'
  BY <1>1, Zenon DEF SendRotateRequest, TypeInv, TypeOK, StoredBeforeSent, historyVars
<1> QED
  BY <1>2, <1>3, <1>4, <1>5, Zenon DEF SendRotateRequest, TypeInv, TypeOK, historyVars

LEMMA SendTextType ==
    ASSUME TypeInv, NEW p \in Peers, SendText(p)
    PROVE  TypeInv'
<1>1. /\ contact[p].tx \in Channel
      /\ main[p].key \in Channel
      /\ main[p] # Prompt
  BY DEF SendText, TypeInv, TypeOK, Contact, MainThreadState, Prompt
<1>2. sent[p] \in 1 .. MaxTexts
  BY <1>1, SessionAssumption, SMTT(30) DEF TypeInv, TypeOK, StoredBeforeSent
<1>3. outbox' \in [Peers -> Seq(Frame)]
  BY <1>1, <1>2, FrameTypes, EnqueueType, Zenon DEF SendText, TypeInv
<1>4. StoredBeforeSent'
  BY Zenon DEF SendText, TypeInv, TypeOK, StoredBeforeSent, historyVars
<1> QED
  BY <1>3, <1>4, Zenon DEF SendText, TypeInv, TypeOK, MainThreadState, historyVars

\* A poll concerns one mailbox and takes at most the frame at its head.
LEMMA PollChannel ==
    ASSUME TypeOK, NEW p \in Peers, TickPoll(p)
    PROVE  /\ pollIndex' \in [Peers -> {0, 1}]
           /\ \E m \in Channel :
                  /\ m \in {contact[p].rx, contact[p].oldRx}
                  /\ \/ relay' = relay /\ down' = down
                     \/ /\ relay[m] # <<>>
                        /\ relay' = [relay EXCEPT ![m] = Tail(@)]
                        /\ down' = [down EXCEPT ![p] = Append(@, Head(relay[m]))]
<1> DEFINE boxes == ActiveMailboxes(contact[p])
           i == (pollIndex[p] + 1) % Len(boxes)
           m == boxes[i + 1]
<1>1. contact[p] \in Contact /\ pollIndex[p] \in {0, 1} /\ pollIndex \in [Peers -> {0, 1}]
  BY Zenon DEF TypeOK
<1>2. /\ Len(boxes) \in {1, 2}
      /\ \A j \in 1 .. Len(boxes) :
             boxes[j] \in Channel /\ boxes[j] \in {contact[p].rx, contact[p].oldRx}
  BY <1>1 DEF ActiveMailboxes, Contact
<1> HIDE DEF boxes
<1>3. i \in {0, 1} /\ i + 1 \in 1 .. Len(boxes)
  <2>1. CASE Len(boxes) = 1
    BY <1>1, <2>1
  <2>2. CASE Len(boxes) = 2
    BY <1>1, <2>2
  <2> QED
    BY <1>2, <2>1, <2>2, Zenon
<1>4. m \in Channel /\ m \in {contact[p].rx, contact[p].oldRx}
  BY <1>2, <1>3, Zenon
<1>5. /\ pollIndex' = [pollIndex EXCEPT ![p] = i]
      /\ \/ relay' = relay /\ down' = down
         \/ /\ relay[m] # <<>>
            /\ relay' = [relay EXCEPT ![m] = Tail(@)]
            /\ down' = [down EXCEPT ![p] = Append(@, Head(relay[m]))]
  BY Zenon DEF TickPoll, boxes
<1> HIDE DEF i, m
<1> QED
  BY <1>1, <1>3, <1>4, <1>5, Zenon

LEMMA TickType ==
    ASSUME TypeInv, NEW p \in Peers, Tick(p) \/ TickLost(p)
    PROVE  TypeInv'
<1>1. CASE TickPush(p)
  <2>1. outbox[p] \in Seq(Frame) /\ outbox[p] # <<>>
    BY <1>1, Zenon DEF TickPush, TypeInv, TypeOK
  <2>2. Head(outbox[p]) \in Frame /\ Tail(outbox[p]) \in Seq(Frame)
    BY <2>1
  <2>3. Head(outbox[p]).to \in Channel
    BY <2>2, Zenon DEF Frame
  <2>4. relay' \in [Channel -> Seq(Frame)]
    BY <1>1, <2>2, <2>3 DEF TickPush, TypeInv, TypeOK
  <2> QED
    BY <1>1, <2>2, <2>4, Zenon DEF TickPush, TypeInv, TypeOK, StoredBeforeSent, historyVars
<1>2. CASE TickLost(p)
  <2>1. outbox[p] \in Seq(Frame) /\ outbox[p] # <<>>
    BY <1>2, Zenon DEF TickLost, TypeInv, TypeOK
  <2> QED
    BY <1>2, <2>1, SMTT(30) DEF TickLost, TypeInv, TypeOK, StoredBeforeSent, historyVars
<1>3. CASE TickPoll(p)
  <2>1. PICK m \in Channel :
           \/ relay' = relay /\ down' = down
           \/ /\ relay[m] # <<>>
              /\ relay' = [relay EXCEPT ![m] = Tail(@)]
              /\ down' = [down EXCEPT ![p] = Append(@, Head(relay[m]))]
    BY <1>3, PollChannel, Zenon DEF TypeInv
  <2>2. relay \in [Channel -> Seq(Frame)] /\ down \in [Peers -> Seq(Frame)]
    BY Zenon DEF TypeInv, TypeOK
  <2>3. relay' \in [Channel -> Seq(Frame)] /\ down' \in [Peers -> Seq(Frame)]
    <3>1. CASE relay' = relay /\ down' = down
      BY <2>2, <3>1, Zenon
    <3>2. CASE /\ relay[m] # <<>>
               /\ relay' = [relay EXCEPT ![m] = Tail(@)]
               /\ down' = [down EXCEPT ![p] = Append(@, Head(relay[m]))]
      <4>1. relay[m] \in Seq(Frame) /\ down[p] \in Seq(Frame)
        BY <2>2, Zenon
      <4>2. Head(relay[m]) \in Frame /\ Tail(relay[m]) \in Seq(Frame)
        BY <3>2, <4>1
      <4>3. Append(down[p], Head(relay[m])) \in Seq(Frame)
        BY <4>1, <4>2
      <4> QED
        BY <2>2, <3>2, <4>2, <4>3, Zenon
    <3> QED
      BY <2>1, <3>1, <3>2, Zenon
  <2>4. pollIndex' \in [Peers -> {0, 1}]
    BY <1>3, PollChannel, Zenon DEF TypeInv
  <2> QED
    BY <1>3, <2>3, <2>4, Zenon DEF TickPoll, TypeInv, TypeOK, StoredBeforeSent, historyVars
<1> QED
  BY <1>1, <1>2, <1>3, Zenon DEF Tick

\* What a frame handler leaves typed; it touches neither relay nor budget.
HandledType ==
    /\ contact' \in [Peers -> Contact]
    /\ disk' \in [Peers -> DiskContact]
    /\ keys' \in [Peers -> 0 .. MaxKeys]
    /\ outbox' \in [Peers -> Seq(Frame)]
    /\ received' \in [Peers -> Seq(1 .. MaxTexts)]
    /\ delivered' \in [Peers -> SUBSET (1 .. MaxTexts)]
    /\ answered' \in SUBSET (Key \X Key)
    /\ past' \in [Peers -> SUBSET Channel]
    /\ UNCHANGED <<link, pollIndex, main, sent>>

LEMMA AckFrameType ==
    ASSUME TypeOK, NEW p \in Peers, NEW f \in Frame, ProcessAckFrame(p, f)
    PROVE  HandledType
<1>1. f.body.id \in 1 .. MaxTexts
  BY Zenon DEF ProcessAckFrame, Frame, AckBody
<1>2. delivered' \in [Peers -> SUBSET (1 .. MaxTexts)]
  BY <1>1, Zenon DEF ProcessAckFrame, TypeOK
<1> QED
  BY <1>2, Zenon DEF ProcessAckFrame, HandledType, TypeOK, clientVars

LEMMA SaveType ==
    ASSUME TypeOK, NEW p \in Peers, NEW c \in Contact,
           (disk' = disk) \/ SaveToDisk(p, c)
    PROVE  disk' \in [Peers -> DiskContact]
  BY ContactTypes, ZenonT(20) DEF SaveToDisk, TypeOK

LEMMA TextMessageType ==
    ASSUME TypeOK, NEW p \in Peers, NEW c \in Contact, NEW f \in Frame,
           HandleTextMessage(p, c, f)
    PROVE  HandledType
<1>1. f.body.id \in 1 .. MaxTexts /\ c.tx \in Channel
  BY Zenon DEF HandleTextMessage, Frame, PushBody, AckBody, Contact
<1>2. disk' \in [Peers -> DiskContact]
  BY SaveType, Zenon DEF HandleTextMessage
<1>3. contact' \in [Peers -> Contact]
  BY Zenon DEF HandleTextMessage, TypeOK
<1>4. /\ received' \in [Peers -> Seq(1 .. MaxTexts)]
      /\ outbox' \in [Peers -> Seq(Frame)]
  <2>1. CASE c.complete
    <3>1. ReceiptFor(c, f.body.id) \in Frame
      BY <1>1, FrameTypes, Zenon DEF ReceiptFor
    <3>2. received' = [received EXCEPT ![p] = Append(@, f.body.id)]
      BY <2>1, Zenon DEF HandleTextMessage
    <3>3. received \in [Peers -> Seq(1 .. MaxTexts)]
      BY Zenon DEF TypeOK
    <3> QED
      BY <1>1, <2>1, <3>1, <3>2, <3>3, EnqueueType DEF HandleTextMessage
  <2>2. CASE ~c.complete
    BY <2>2, Zenon DEF HandleTextMessage, TypeOK
  <2> QED
    BY <2>1, <2>2, Zenon
<1> QED
  BY <1>2, <1>3, <1>4, Zenon DEF HandleTextMessage, HandledType, TypeOK

LEMMA RotateRequestType ==
    ASSUME TypeOK, NEW p \in Peers, NEW c \in Contact, NEW f \in Frame,
           HandlePfsRotateRequest(p, c, f)
    PROVE  HandledType
<1>1. CASE ~c.complete /\ IsInitialPfsInitiator(p)
  <2>1. /\ MaybeStartInitialPfs(p, c, link[p] # "none")
        /\ UNCHANGED <<disk, answered, past, link, pollIndex, main, historyVars>>
    BY <1>1, Zenon DEF HandlePfsRotateRequest
  <2> QED
    BY <2>1, MaybeStartType, Zenon DEF HandledType, TypeOK, historyVars
<1>2. CASE ~(~c.complete /\ IsInitialPfsInitiator(p))
  <2> DEFINE mine == FreshKey(p)
             theirs == f.body.eph
             kept == IF c.complete THEN [c EXCEPT !.oldRx = c.rx]
                                   ELSE [c EXCEPT !.complete = TRUE,
                                                  !.pfsState = "IDLE"]
             new == WithSession(kept, mine, theirs)
  <2>1. /\ keys[p] < MaxKeys
        /\ keys' = [keys EXCEPT ![p] = @ + 1]
        /\ Enqueue(p, Push(c.tx, c.tx, RotateAck(theirs, mine)))
        /\ contact' = [contact EXCEPT ![p] = new]
        /\ SaveToDisk(p, new)
        /\ answered' = answered \cup {<<theirs, mine>>}
        /\ past' = [past EXCEPT ![p] = @ \cup {new.tx}]
        /\ UNCHANGED <<link, pollIndex, main, historyVars>>
    BY <1>2, Zenon DEF HandlePfsRotateRequest
  <2>2. theirs \in Key /\ c.tx \in Channel
    BY Zenon DEF HandlePfsRotateRequest, Frame, PushBody, AckBody, Contact
  <2>3. mine \in Key
    BY <2>1, FreshKeyType, Zenon
  <2>4. kept \in Contact
    BY Zenon DEF Contact
  <2>5. new \in Contact /\ new.tx \in Channel
    BY <2>2, <2>3, <2>4, ContactTypes, ZenonT(20) DEF Contact
  <2> HIDE DEF mine, theirs, kept, new
  <2>6. keys' \in [Peers -> 0 .. MaxKeys]
    BY <2>1, SessionAssumption, SMTT(30) DEF TypeOK
  <2>7. outbox' \in [Peers -> Seq(Frame)]
    BY <2>1, <2>2, <2>3, FrameTypes, EnqueueType, Zenon
  <2>8. disk' \in [Peers -> DiskContact]
    BY <2>1, <2>5, SaveType, Zenon
  <2>9. past' \in [Peers -> SUBSET Channel]
    BY <2>1, <2>5, Zenon DEF TypeOK
  <2>10. contact' \in [Peers -> Contact] /\ answered' \in SUBSET (Key \X Key)
    BY <2>1, <2>2, <2>3, <2>5 DEF TypeOK
  <2> QED
    BY <2>1, <2>6, <2>7, <2>8, <2>9, <2>10, Zenon DEF HandledType, TypeOK, historyVars
<1> QED
  BY <1>1, <1>2, Zenon

LEMMA RotateAckType ==
    ASSUME TypeOK, NEW p \in Peers, NEW c \in Contact, NEW f \in Frame,
           HandlePfsRotateAck(p, c, f)
    PROVE  HandledType
<1>1. CASE AckAccepted(c, f)
  <2> DEFINE new == [WithSession(c, c.pending, f.body.eph)
                        EXCEPT !.pfsState = "IDLE", !.pending = None, !.complete = TRUE]
  <2>1. /\ contact' = [contact EXCEPT ![p] = new]
        /\ SaveToDisk(p, new)
        /\ past' = [past EXCEPT ![p] = @ \cup {new.tx}]
        /\ UNCHANGED <<keys, link, outbox, pollIndex, main, historyVars, answered>>
    BY <1>1, Zenon DEF HandlePfsRotateAck
  <2>2. f.body.req \in Key /\ f.body.eph \in Key /\ c.pending = f.body.req
    BY <1>1, Zenon DEF HandlePfsRotateAck, Frame, PushBody, AckBody, AckAccepted
  <2>3. WithSession(c, c.pending, f.body.eph) \in Contact
    BY <2>2, ContactTypes, Zenon
  <2>4. new \in Contact /\ new.tx \in Channel
    BY <2>3, Zenon DEF Contact
  <2> HIDE DEF new
  <2>5. disk' \in [Peers -> DiskContact]
    BY <2>1, <2>4, SaveType, Zenon
  <2>6. past' \in [Peers -> SUBSET Channel] /\ contact' \in [Peers -> Contact]
    BY <2>1, <2>4, Zenon DEF TypeOK
  <2> QED
    BY <2>1, <2>5, <2>6, Zenon DEF HandledType, TypeOK, historyVars
<1>2. CASE ~AckAccepted(c, f)
  <2>1. disk' \in [Peers -> DiskContact]
    BY <1>2, SaveType, Zenon DEF HandlePfsRotateAck
  <2> QED
    BY <1>2, <2>1, Zenon DEF HandlePfsRotateAck, HandledType, TypeOK, historyVars
<1> QED
  BY <1>1, <1>2, Zenon

LEMMA OnFrameReceivedType ==
    ASSUME TypeInv, NEW p \in Peers, OnFrameReceived(p)
    PROVE  TypeInv'
<1> DEFINE f == Head(down[p])
           c == AfterPush(contact[p], f)
<1>1. f \in Frame /\ down' \in [Peers -> Seq(Frame)]
  BY DEF OnFrameReceived, TypeInv, TypeOK
<1>2. c \in Contact
  BY ContactTypes, Zenon DEF TypeInv, TypeOK
<1>3. \/ DropFrame(p, f)
      \/ ProcessAckFrame(p, f)
      \/ HandleTextMessage(p, c, f)
      \/ HandlePfsRotateRequest(p, c, f)
      \/ HandlePfsRotateAck(p, c, f)
  BY Zenon DEF OnFrameReceived, ProcessPushFrame
<1> HIDE DEF f, c
<1>4. HandledType
  <2>1. CASE DropFrame(p, f)
    BY <2>1, Zenon DEF DropFrame, HandledType, TypeInv, TypeOK, clientVars, historyVars
  <2> QED
    BY <1>1, <1>2, <1>3, <2>1, AckFrameType, TextMessageType, RotateRequestType,
       RotateAckType, Zenon DEF TypeInv
<1>5. UNCHANGED <<relay, budget>>
  BY Zenon DEF OnFrameReceived
<1> QED
  BY <1>1, <1>4, <1>5, Zenon DEF HandledType, TypeInv, TypeOK, StoredBeforeSent

LEMMA CutType ==
    ASSUME TypeInv, NEW p \in Peers, Cut(p)
    PROVE  TypeInv'
<1>1. budget' \in [cuts : 0 .. MaxCuts, restarts : 0 .. MaxRestarts, readds : 0 .. MaxReadds]
  <2>1. /\ budget \in [cuts : 0 .. MaxCuts, restarts : 0 .. MaxRestarts,
                       readds : 0 .. MaxReadds]
        /\ budget.cuts > 0
        /\ budget' = [budget EXCEPT !.cuts = @ - 1]
    BY Zenon DEF Cut, TypeInv, TypeOK
  <2> QED
    BY <2>1, SessionAssumption
<1> QED
  BY <1>1, SMTT(30) DEF Cut, TypeInv, TypeOK, StoredBeforeSent, historyVars

LEMMA RestartType ==
    ASSUME TypeInv, NEW p \in Peers, Restart(p)
    PROVE  TypeInv'
<1>1. budget' \in [cuts : 0 .. MaxCuts, restarts : 0 .. MaxRestarts, readds : 0 .. MaxReadds]
  <2>1. /\ budget \in [cuts : 0 .. MaxCuts, restarts : 0 .. MaxRestarts,
                       readds : 0 .. MaxReadds]
        /\ budget.restarts > 0
        /\ budget' = [budget EXCEPT !.restarts = @ - 1]
    BY Zenon DEF Restart, TypeInv, TypeOK
  <2> QED
    BY <2>1, SessionAssumption
<1>2. LoadedContact(disk[p]) \in Contact
  BY LoadedType, Zenon DEF TypeInv, TypeOK
<1>3. contact' \in [Peers -> Contact]
  BY <1>2, Zenon DEF Restart, TypeInv, TypeOK
<1>4. outbox' \in [Peers -> Seq(Frame)] /\ down' \in [Peers -> Seq(Frame)]
  BY DEF Restart, TypeInv, TypeOK
<1>5. main' \in [Peers -> MainThreadState] /\ StoredBeforeSent'
  BY Zenon DEF Restart, TypeInv, TypeOK, MainThreadState, StoredBeforeSent, historyVars
<1> QED
  BY <1>1, <1>3, <1>4, <1>5, Zenon DEF Restart, TypeInv, TypeOK, historyVars

LEMMA TypeStep == TypeInv /\ [Next]_vars => TypeInv'
<1> SUFFICES ASSUME TypeInv, [Next]_vars PROVE TypeInv'
  BY Zenon
<1>1. CASE UNCHANGED vars
  BY <1>1, Zenon DEF vars, clientVars, historyVars, TypeInv, TypeOK, StoredBeforeSent
<1>2. ASSUME NEW p \in Peers,
             \/ MainThread(p) \/ Tick(p) \/ OnFrameReceived(p)
             \/ TickLost(p) \/ Cut(p) \/ Restart(p)
      PROVE  TypeInv'
  BY <1>2, ConnectType, AddContactType, SendRefusedType, SendType, ReadTxKeyType,
     SendRotateRequestType, SendTextType, TickType, OnFrameReceivedType, CutType,
     RestartType, Zenon DEF MainThread
<1> QED
  BY <1>1, <1>2, Zenon DEF Next

LEMMA TypeAlways == Spec => []TypeInv
  BY TypeInit, TypeStep, PTL DEF Spec

\* Every variable of the session model keeps its type: in particular no
\* session is ever derived from a missing key, whatever answers arrive.
THEOREM TypeCorrect == Spec => []TypeOK
<1>1. TypeInv => TypeOK
  BY Zenon DEF TypeInv
<1> QED
  BY <1>1, TypeAlways, PTL

-----------------------------------------------------------------------------
(* The invariant behind the safety theorems.                               *)

\* The disk always holds the session in use.
DiskCurrent(p) == disk[p] = Persistent(contact[p])

\* A channel of a session that some handshake has answered, or the bootstrap.
Established(ch) == IsBootstrap(ch) \/ ch \in answered \/ Mirror(ch) \in answered

\* Once the initial handshake is complete the bootstrap channel is not used
\* again, neither by the contact nor by a `send` command under way.
Protected(p) ==
    /\ contact[p].complete => ~IsBootstrap(contact[p].tx)
    /\ main[p].at \in {"rotate", "request", "text"} => contact[p].complete
    /\ main[p].at = "send" => ~IsBootstrap(main[p].key)

\* A key that waits to be used has been generated and is in no session yet.
FreshFor(p, pending, eph) ==
    /\ pending # None => pending[2] \in 1 .. keys[p]
    /\ eph # None => eph[2] \in 1 .. keys[p]
    /\ pending # None /\ eph # None => eph[2] # pending[2]
    /\ \A ch \in past[p] :
           /\ ch[1][2] \in 1 .. keys[p]
           /\ pending # None => ch[1][2] # pending[2]
           /\ eph # None => ch[1][2] # eph[2]

KeysFresh(p) == FreshFor(p, contact[p].pending, main[p].eph)

PeerInv(p) ==
    DiskCurrent(p) /\ Established(contact[p].tx) /\ Protected(p) /\ KeysFresh(p)

FrameInv(f, done) ==
    /\ TextProtected(f)
    /\ f.body.op = "ROTATE_ACK" => <<f.body.req, f.body.eph>> \in done

OutboxInv == \A p \in Peers : \A i \in DOMAIN outbox[p] : FrameInv(outbox[p][i], answered)
DownInv == \A p \in Peers : \A i \in DOMAIN down[p] : FrameInv(down[p][i], answered)
RelayInv == \A ch \in Channel : \A i \in DOMAIN relay[ch] : FrameInv(relay[ch][i], answered)

SessionInv == (\A p \in Peers : PeerInv(p)) /\ OutboxInv /\ DownInv /\ RelayInv

LEMMA SessionInit == Init => SessionInv
<1> SUFFICES ASSUME Init PROVE SessionInv
  BY Zenon
<1>1. OutboxInv /\ DownInv /\ RelayInv
  BY DEF Init, OutboxInv, DownInv, RelayInv
<1>2. ASSUME NEW p \in Peers PROVE PeerInv(p)
  <2>1. DiskCurrent(p)
    BY Zenon DEF Init, DiskCurrent
  <2>2. IsBootstrap(contact[p].tx) /\ ~contact[p].complete /\ contact[p].pending = None
    BY Zenon DEF Init, BootstrapContact, DerivePairwiseMailboxes, Identity, IsBootstrap
  <2>3. main[p] = Prompt /\ past[p] = {}
    BY Zenon DEF Init
  <2> QED
    BY <2>1, <2>2, <2>3 DEF PeerInv, Established, Protected, KeysFresh, FreshFor, Prompt
<1> QED
  BY <1>1, <1>2, Zenon DEF SessionInv

-----------------------------------------------------------------------------
(* What a step leaves alone. *)

LEMMA AppendElements ==
    ASSUME NEW S, NEW s \in Seq(S), NEW e \in S, NEW i \in DOMAIN Append(s, e)
    PROVE  Append(s, e)[i] = e \/ (i \in DOMAIN s /\ Append(s, e)[i] = s[i])
  OBVIOUS

LEMMA TailElements ==
    ASSUME NEW S, NEW s \in Seq(S), s # <<>>, NEW i \in DOMAIN Tail(s)
    PROVE  i + 1 \in DOMAIN s /\ Tail(s)[i] = s[i + 1]
  OBVIOUS

\* The handshakes answered are never forgotten.
Growing == answered \subseteq answered'

LEMMA FrameKept ==
    ASSUME NEW f, FrameInv(f, answered), Growing
    PROVE  FrameInv(f, answered')
  BY Zenon DEF FrameInv, Growing, TextProtected

LEMMA FramesKept ==
    ASSUME SessionInv, Growing
    PROVE  /\ outbox' = outbox => OutboxInv'
           /\ down' = down => DownInv'
           /\ relay' = relay => RelayInv'
  BY FrameKept, Zenon DEF SessionInv, OutboxInv, DownInv, RelayInv

LEMMA EnqueueKept ==
    ASSUME TypeOK, SessionInv, Growing, NEW p \in Peers, NEW f \in Frame,
           Enqueue(p, f), FrameInv(f, answered')
    PROVE  OutboxInv'
<1> SUFFICES ASSUME NEW q \in Peers, NEW i \in DOMAIN outbox'[q]
             PROVE  FrameInv(outbox'[q][i], answered')
  BY Zenon DEF OutboxInv
<1>1. outbox[q] \in Seq(Frame) /\ outbox[p] \in Seq(Frame)
  BY Zenon DEF TypeOK
<1>2. outbox' = [outbox EXCEPT ![p] = Append(outbox[p], f)]
  BY Zenon DEF Enqueue
<1>3. \A j \in DOMAIN outbox[q] : FrameInv(outbox[q][j], answered')
  BY FrameKept, Zenon DEF SessionInv, OutboxInv
<1>4. CASE q = p
  <2>1. outbox'[q] = Append(outbox[q], f)
    BY <1>2, <1>4, Zenon DEF TypeOK
  <2> QED
    BY <1>1, <1>3, <2>1, AppendElements
<1>5. CASE q # p
  BY <1>2, <1>3, <1>5, Zenon DEF TypeOK
<1> QED
  BY <1>4, <1>5, Zenon

LEMMA DequeueKept ==
    ASSUME TypeOK, SessionInv, Growing, NEW p \in Peers
    PROVE  /\ outbox[p] # <<>> /\ outbox' = [outbox EXCEPT ![p] = Tail(@)] => OutboxInv'
           /\ down[p] # <<>> /\ down' = [down EXCEPT ![p] = Tail(@)] => DownInv'
<1>1. ASSUME outbox[p] # <<>>, outbox' = [outbox EXCEPT ![p] = Tail(@)],
             NEW q \in Peers, NEW i \in DOMAIN outbox'[q]
      PROVE  FrameInv(outbox'[q][i], answered')
  <2>1. outbox[p] \in Seq(Frame) /\ outbox'[q] = IF q = p THEN Tail(outbox[p]) ELSE outbox[q]
    BY <1>1, Zenon DEF TypeOK
  <2>2. \A j \in DOMAIN outbox[q] : FrameInv(outbox[q][j], answered')
    BY FrameKept, Zenon DEF SessionInv, OutboxInv
  <2> QED
    BY <1>1, <2>1, <2>2, TailElements
<1>2. ASSUME down[p] # <<>>, down' = [down EXCEPT ![p] = Tail(@)],
             NEW q \in Peers, NEW i \in DOMAIN down'[q]
      PROVE  FrameInv(down'[q][i], answered')
  <2>1. down[p] \in Seq(Frame) /\ down'[q] = IF q = p THEN Tail(down[p]) ELSE down[q]
    BY <1>2, Zenon DEF TypeOK
  <2>2. \A j \in DOMAIN down[q] : FrameInv(down[q][j], answered')
    BY FrameKept, Zenon DEF SessionInv, DownInv
  <2> QED
    BY <1>2, <2>1, <2>2, TailElements
<1> QED
  BY <1>1, <1>2, Zenon DEF OutboxInv, DownInv

\* What PeerInv speaks about, for peer q, is as before.
Unmoved(q) ==
    /\ contact'[q] = contact[q] /\ disk'[q] = disk[q]
    /\ main'[q] = main[q] /\ keys'[q] = keys[q] /\ past'[q] = past[q]

LEMMA PeersKept ==
    ASSUME SessionInv, Growing, NEW p \in Peers,
           PeerInv(p)', \A q \in Peers \ {p} : Unmoved(q)
    PROVE  \A q \in Peers : PeerInv(q)'
<1> SUFFICES ASSUME NEW q \in Peers, Unmoved(q) PROVE PeerInv(q)'
  BY Zenon
<1>1. PeerInv(q)
  BY Zenon DEF SessionInv
<1>2. DiskCurrent(q)' /\ Protected(q)'
  BY <1>1, Zenon DEF PeerInv, Unmoved, DiskCurrent, Protected
<1>3. Established(contact[q].tx)'
  BY <1>1, Zenon DEF PeerInv, Unmoved, Established, Growing
<1>4. KeysFresh(q)'
  BY <1>1 DEF PeerInv, Unmoved, KeysFresh, FreshFor
<1> QED
  BY <1>2, <1>3, <1>4, Zenon DEF PeerInv

-----------------------------------------------------------------------------
(* The main thread. *)

\* A contact record that may take the place of the one of p.
Replaces(c, p) ==
    /\ c \in Contact
    /\ Established(c.tx)
    /\ c.complete => ~IsBootstrap(c.tx)
    /\ main[p].at \in {"rotate", "request", "text"} => c.complete
    /\ c.pending \in {None, contact[p].pending}

LEMMA MaybeStartKept ==
    ASSUME TypeInv, SessionInv, NEW p \in Peers, NEW c, NEW connected,
           MaybeStartInitialPfs(p, c, connected), Replaces(c, p),
           disk'[p] = Persistent(c), UNCHANGED <<main, past, answered>>
    PROVE  /\ PeerInv(p)' /\ OutboxInv'
           /\ \A q \in Peers \ {p} : contact'[q] = contact[q] /\ keys'[q] = keys[q]
<1> DEFINE starts == connected /\ ~c.complete /\ c.pfsState = "IDLE"
                        /\ IsInitialPfsInitiator(p)
<1>1. /\ PeerInv(p) /\ Growing /\ c \in Contact
      /\ keys[p] \in 0 .. MaxKeys /\ contact \in [Peers -> Contact]
      /\ keys \in [Peers -> 0 .. MaxKeys]
      /\ c.pending \in Key \cup {None}
  BY Zenon DEF SessionInv, Growing, Replaces, TypeInv, TypeOK, Contact
<1>2. CASE starts
  <2>1. /\ keys[p] < MaxKeys
        /\ keys' = [keys EXCEPT ![p] = @ + 1]
        /\ Enqueue(p, Push(c.tx, c.tx, RotateRequest(FreshKey(p))))
        /\ contact' = [contact EXCEPT ![p] = Requested(c, FreshKey(p))]
    BY <1>2, Zenon DEF MaybeStartInitialPfs
  <2>2. FreshKey(p) \in Key /\ FreshKey(p)[2] = keys[p] + 1 /\ FreshKey(p) # None
    BY <2>1, FreshKeyType, NoneAssumption, Zenon DEF FreshKey, TypeInv
  <2>3. Push(c.tx, c.tx, RotateRequest(FreshKey(p))) \in Frame
    BY <1>1, <2>2, FrameTypes, Zenon DEF Contact
  <2>4. FrameInv(Push(c.tx, c.tx, RotateRequest(FreshKey(p))), answered')
    BY Zenon DEF FrameInv, TextProtected, Push, RotateRequest
  <2>5. OutboxInv'
    BY <1>1, <2>1, <2>3, <2>4, EnqueueKept, Zenon DEF TypeInv
  <2>6. /\ contact'[p].tx = c.tx /\ contact'[p].complete = c.complete
        /\ contact'[p].rx = c.rx /\ contact'[p].pending = FreshKey(p)
        /\ keys'[p] = keys[p] + 1
    BY <1>1, <2>1, Zenon DEF Requested, Contact
  <2>7. DiskCurrent(p)' /\ Established(contact[p].tx)' /\ Protected(p)'
    <3>1. DiskCurrent(p)'
      BY <2>6, Zenon DEF DiskCurrent, Persistent
    <3>2. Established(contact[p].tx)'
      BY <2>6, Zenon DEF Established, Replaces
    <3>3. main'[p].at = "send" => ~IsBootstrap(main'[p].key)
      BY <1>1, Zenon DEF PeerInv, Protected
    <3> QED
      BY <2>6, <3>1, <3>2, <3>3, Zenon DEF Protected, Replaces
  <2>8. KeysFresh(p)'
    BY <1>1, <2>2, <2>6, SMTT(60) DEF PeerInv, KeysFresh, FreshFor
  <2> QED
    BY <1>1, <2>1, <2>5, <2>7, <2>8, Zenon DEF PeerInv
<1>3. CASE ~starts
  <2>1. contact' = [contact EXCEPT ![p] = c] /\ UNCHANGED <<keys, outbox>>
    BY <1>3, Zenon DEF MaybeStartInitialPfs
  <2>2. contact'[p] = c
    BY <1>1, <2>1, Zenon
  <2>3. DiskCurrent(p)' /\ Established(contact[p].tx)' /\ Protected(p)'
    <3>1. DiskCurrent(p)' /\ Established(contact[p].tx)'
      BY <2>2, Zenon DEF DiskCurrent, Established, Replaces
    <3>2. main'[p].at = "send" => ~IsBootstrap(main'[p].key)
      BY <1>1, Zenon DEF PeerInv, Protected
    <3> QED
      BY <2>2, <3>1, <3>2, Zenon DEF Protected, Replaces
  <2>4. KeysFresh(p)'
    BY <1>1, <2>1, <2>2, Zenon DEF PeerInv, KeysFresh, FreshFor, Replaces
  <2> QED
    BY <1>1, <2>1, <2>3, <2>4, FramesKept, Zenon DEF PeerInv
<1> QED
  BY <1>2, <1>3, Zenon

LEMMA OwnReplaces ==
    ASSUME TypeInv, SessionInv, NEW p \in Peers
    PROVE  /\ Replaces(contact[p], p)
           /\ main[p] = Prompt => Replaces(BootstrapContact(p), p)
           /\ \A f : Replaces(AfterPush(contact[p], f), p)
<1>1. PeerInv(p) /\ contact[p] \in Contact
  BY Zenon DEF SessionInv, TypeInv, TypeOK
<1>2. Replaces(contact[p], p)
  BY <1>1, Zenon DEF Replaces, PeerInv, Protected
<1>3. ASSUME NEW f PROVE Replaces(AfterPush(contact[p], f), p)
  <2>1. AfterPush(contact[p], f) \in Contact
    BY <1>1, ContactTypes, Zenon
  <2>2. /\ AfterPush(contact[p], f).tx = contact[p].tx
        /\ AfterPush(contact[p], f).complete = contact[p].complete
        /\ AfterPush(contact[p], f).pending = contact[p].pending
    BY <1>1, Zenon DEF AfterPush, Contact
  <2> QED
    BY <1>2, <2>1, <2>2, Zenon DEF Replaces
<1>4. ASSUME main[p] = Prompt PROVE Replaces(BootstrapContact(p), p)
  <2>1. /\ IsBootstrap(BootstrapContact(p).tx) /\ BootstrapContact(p).pending = None
        /\ BootstrapContact(p).complete = FALSE
    BY Zenon DEF BootstrapContact, DerivePairwiseMailboxes, IsBootstrap, Identity
  <2> QED
    BY <1>4, <2>1, PeerTypes DEF Replaces, Established, Prompt
<1> QED
  BY <1>2, <1>3, <1>4, Zenon

LEMMA ConnectKept ==
    ASSUME TypeInv, SessionInv, NEW p \in Peers, HandleConnect(p) \/ HandleSendRefused(p)
    PROVE  SessionInv'
<1>1. PICK connected : MaybeStartInitialPfs(p, contact[p], connected)
  BY Zenon DEF HandleConnect, HandleSendRefused
<1>2. UNCHANGED <<disk, main, past, answered, down, relay>>
  BY Zenon DEF HandleConnect, HandleSendRefused
<1>3. disk[p] = Persistent(contact[p]) /\ Growing
  BY <1>2, Zenon DEF SessionInv, PeerInv, DiskCurrent, Growing
<1>4. /\ PeerInv(p)' /\ OutboxInv'
      /\ \A q \in Peers \ {p} : contact'[q] = contact[q] /\ keys'[q] = keys[q]
  BY <1>1, <1>2, <1>3, OwnReplaces, MaybeStartKept, Zenon
<1>5. \A q \in Peers : PeerInv(q)'
  BY <1>2, <1>3, <1>4, PeersKept, Zenon DEF Unmoved
<1> QED
  BY <1>2, <1>3, <1>4, <1>5, FramesKept, Zenon DEF SessionInv

LEMMA AddContactKept ==
    ASSUME TypeInv, SessionInv, NEW p \in Peers, HandleAddContact(p)
    PROVE  SessionInv'
<1>1. PICK connected : MaybeStartInitialPfs(p, BootstrapContact(p), connected)
  BY Zenon DEF HandleAddContact
<1>2. UNCHANGED <<main, past, answered, down, relay>> /\ main[p] = Prompt
  BY Zenon DEF HandleAddContact
<1>3. disk' = [disk EXCEPT ![p] = Persistent(BootstrapContact(p))] /\ Growing
  BY <1>2, Zenon DEF HandleAddContact, SaveToDisk, Growing
<1>4. /\ disk'[p] = Persistent(BootstrapContact(p))
      /\ \A q \in Peers \ {p} : disk'[q] = disk[q]
  BY <1>3, Zenon DEF TypeInv, TypeOK
<1>5. /\ PeerInv(p)' /\ OutboxInv'
      /\ \A q \in Peers \ {p} : contact'[q] = contact[q] /\ keys'[q] = keys[q]
  BY <1>1, <1>2, <1>4, OwnReplaces, MaybeStartKept, Zenon
<1>6. \A q \in Peers : PeerInv(q)'
  BY <1>2, <1>3, <1>4, <1>5, PeersKept, Zenon DEF Unmoved
<1> QED
  BY <1>2, <1>3, <1>5, <1>6, FramesKept, Zenon DEF SessionInv

LEMMA SendKept ==
    ASSUME TypeInv, SessionInv, NEW p \in Peers, HandleSend(p)
    PROVE  SessionInv'
<1>1. /\ PeerInv(p) /\ contact[p] \in Contact /\ contact[p].complete
      /\ main[p] = Prompt /\ main \in [Peers -> MainThreadState]
      /\ keys \in [Peers -> 0 .. MaxKeys] /\ contact \in [Peers -> Contact]
      /\ contact[p].pending \in Key \cup {None}
  BY Zenon DEF SessionInv, HandleSend, SessionReady, TypeInv, TypeOK, Contact
<1>2. UNCHANGED <<disk, outbox, down, relay, answered, past>> /\ Growing
  BY Zenon DEF HandleSend, Growing
<1>3. CASE RotationDue(p, contact[p])
  <2>1. /\ keys' = [keys EXCEPT ![p] = @ + 1]
        /\ main' = [main EXCEPT ![p] = [at |-> "rotate", key |-> None, eph |-> FreshKey(p)]]
        /\ contact' = contact
    BY <1>3, Zenon DEF HandleSend
  <2>2. /\ main'[p].at = "rotate" /\ main'[p].eph[2] = keys[p] + 1
        /\ keys'[p] = keys[p] + 1 /\ keys[p] \in Nat
    BY <1>1, <2>1, SessionAssumption DEF FreshKey
  <2>3. DiskCurrent(p)' /\ Established(contact[p].tx)' /\ Protected(p)'
    BY <1>1, <1>2, <2>1, <2>2, Zenon DEF PeerInv, DiskCurrent, Established, Protected
  <2>4. KeysFresh(p)'
    <3>1. /\ contact[p].pending # None => contact[p].pending[2] \in 1 .. keys[p]
          /\ \A ch \in past[p] :
                 /\ ch[1][2] \in 1 .. keys[p]
                 /\ contact[p].pending # None => ch[1][2] # contact[p].pending[2]
      BY <1>1, Zenon DEF PeerInv, KeysFresh, FreshFor
    <3> DEFINE n == keys[p]  e == main'[p].eph[2]
    <3>2. n \in Nat /\ e = n + 1 /\ keys'[p] = n + 1
      BY <2>2, Zenon
    <3>3. \A k \in 1 .. n : k \in 1 .. (n + 1) /\ k # e
      <4> HIDE DEF n, e
      <4> QED
        BY <3>2
    <3>4. e \in 1 .. (n + 1)
      <4> HIDE DEF n, e
      <4> QED
        BY <3>2
    <3>5. /\ contact'[p].pending # None =>
                /\ contact'[p].pending[2] \in 1 .. keys'[p]
                /\ main'[p].eph[2] # contact'[p].pending[2]
          /\ main'[p].eph[2] \in 1 .. keys'[p]
      BY <2>1, <3>1, <3>2, <3>3, <3>4, Zenon
    <3>6. \A ch \in past'[p] :
             /\ ch[1][2] \in 1 .. keys'[p]
             /\ contact'[p].pending # None => ch[1][2] # contact'[p].pending[2]
             /\ ch[1][2] # main'[p].eph[2]
      BY <1>2, <2>1, <3>1, <3>2, <3>3, Zenon
    <3> QED
      BY <3>5, <3>6, Zenon DEF KeysFresh, FreshFor
  <2>5. PeerInv(p)' /\ \A q \in Peers \ {p} : Unmoved(q)
    BY <1>1, <1>2, <2>1, <2>3, <2>4, Zenon DEF PeerInv, Unmoved
  <2> QED
    BY <1>2, <2>5, PeersKept, FramesKept, Zenon DEF SessionInv
<1>4. CASE ~RotationDue(p, contact[p])
  <2>1. /\ contact' = [contact EXCEPT ![p] = Counted(@)]
        /\ main' = [main EXCEPT ![p] = [at |-> "send", key |-> contact[p].tx, eph |-> None]]
        /\ keys' = keys
    BY <1>4, Zenon DEF HandleSend
  <2>2. /\ contact'[p].tx = contact[p].tx /\ contact'[p].rx = contact[p].rx
        /\ contact'[p].complete = contact[p].complete
        /\ contact'[p].pending = contact[p].pending
        /\ main'[p] = [at |-> "send", key |-> contact[p].tx, eph |-> None]
    BY <1>1, <2>1, Zenon DEF Counted, Contact
  <2>3. DiskCurrent(p)' /\ Established(contact[p].tx)' /\ Protected(p)'
    <3>1. Persistent(contact'[p]) = Persistent(contact[p])
      BY <2>2, Zenon DEF Persistent
    <3>2. DiskCurrent(p)'
      BY <1>1, <1>2, <3>1, Zenon DEF PeerInv, DiskCurrent
    <3>3. Established(contact[p].tx)'
      BY <1>1, <1>2, <2>2, Zenon DEF PeerInv, Established
    <3>4. Protected(p)'
      BY <1>1, <2>2 DEF PeerInv, Protected
    <3> QED
      BY <3>2, <3>3, <3>4, Zenon
  <2>4. KeysFresh(p)'
    BY <1>1, <1>2, <2>1, <2>2, Zenon DEF PeerInv, KeysFresh, FreshFor
  <2>5. PeerInv(p)' /\ \A q \in Peers \ {p} : Unmoved(q)
    BY <1>1, <1>2, <2>1, <2>3, <2>4, Zenon DEF PeerInv, Unmoved
  <2> QED
    BY <1>2, <2>5, PeersKept, FramesKept, Zenon DEF SessionInv
<1> QED
  BY <1>3, <1>4, Zenon

LEMMA ReadTxKeyKept ==
    ASSUME TypeInv, SessionInv, NEW p \in Peers, ReadTxKey(p)
    PROVE  SessionInv'
<1>1. /\ PeerInv(p) /\ main[p].at \in {"rotate", "text"}
      /\ main \in [Peers -> MainThreadState]
  BY Zenon DEF SessionInv, ReadTxKey, TypeInv, TypeOK
<1>2. UNCHANGED <<contact, disk, keys, outbox, down, relay, answered, past>> /\ Growing
  BY Zenon DEF ReadTxKey, Growing
<1>3. main' = [main EXCEPT ![p] =
          [at |-> IF main[p].at = "rotate" THEN "request" ELSE "send",
           key |-> contact[p].tx, eph |-> main[p].eph]]
  BY Zenon DEF ReadTxKey
<1>4. /\ main'[p].at \in {"request", "send"} /\ main'[p].key = contact[p].tx
      /\ main'[p].eph = main[p].eph
  BY <1>1, <1>3, Zenon
<1>5. DiskCurrent(p)' /\ Established(contact[p].tx)' /\ Protected(p)'
  BY <1>1, <1>2, <1>4, Zenon DEF PeerInv, DiskCurrent, Established, Protected
<1>6. KeysFresh(p)'
  BY <1>1, <1>2, <1>4, Zenon DEF PeerInv, KeysFresh, FreshFor
<1>7. PeerInv(p)' /\ \A q \in Peers \ {p} : Unmoved(q)
  BY <1>1, <1>2, <1>3, <1>5, <1>6, Zenon DEF PeerInv, Unmoved
<1> QED
  BY <1>2, <1>7, PeersKept, FramesKept, Zenon DEF SessionInv

LEMMA SendRotateRequestKept ==
    ASSUME TypeInv, SessionInv, NEW p \in Peers, SendRotateRequest(p)
    PROVE  SessionInv'
<1> DEFINE f == Push(contact[p].tx, main[p].key, RotateRequest(main[p].eph))
<1>1. /\ PeerInv(p) /\ contact[p] \in Contact /\ contact[p].tx \in Channel
      /\ main \in [Peers -> MainThreadState] /\ contact \in [Peers -> Contact]
      /\ main[p].at = "request" /\ main[p].key \in Channel /\ main[p].eph \in Key
  <2>1. main[p] \in MainThreadState /\ main[p].at = "request"
    BY Zenon DEF SendRotateRequest, TypeInv, TypeOK
  <2>2. main[p].key \in Channel /\ main[p].eph \in Key
    BY <2>1 DEF MainThreadState, Prompt
  <2> QED
    BY <2>1, <2>2, Zenon DEF SessionInv, TypeInv, TypeOK, Contact
<1>2. UNCHANGED <<disk, keys, down, relay, answered, past>> /\ Growing
  BY Zenon DEF SendRotateRequest, historyVars, Growing
<1>3. f \in Frame /\ FrameInv(f, answered')
  BY <1>1, FrameTypes, Zenon DEF FrameInv, TextProtected, Push, RotateRequest
<1>4. OutboxInv'
  BY <1>2, <1>3, EnqueueKept, Zenon DEF SendRotateRequest, TypeInv
<1>5. /\ contact' = [contact EXCEPT ![p] = Counted(Requested(@, main[p].eph))]
      /\ main' = [main EXCEPT ![p] = [at |-> "text", key |-> None, eph |-> None]]
  BY Zenon DEF SendRotateRequest
<1>6. /\ contact'[p].tx = contact[p].tx /\ contact'[p].rx = contact[p].rx
      /\ contact'[p].complete = contact[p].complete
      /\ contact'[p].pending = main[p].eph
      /\ main'[p] = [at |-> "text", key |-> None, eph |-> None]
  BY <1>1, <1>5, Zenon DEF Counted, Requested, Contact
<1>7. DiskCurrent(p)' /\ Established(contact[p].tx)' /\ Protected(p)'
  <2>1. Persistent(contact'[p]) = Persistent(contact[p])
    BY <1>6, Zenon DEF Persistent
  <2>2. DiskCurrent(p)'
    BY <1>1, <1>2, <2>1, Zenon DEF PeerInv, DiskCurrent
  <2>3. Established(contact[p].tx)'
    BY <1>1, <1>2, <1>6, Zenon DEF PeerInv, Established
  <2>4. Protected(p)'
    BY <1>1, <1>6, SMTT(60) DEF PeerInv, Protected
  <2> QED
    BY <2>2, <2>3, <2>4, Zenon
<1>8. KeysFresh(p)'
  BY <1>1, <1>2, <1>6, SMTT(60) DEF PeerInv, KeysFresh, FreshFor
<1>9. PeerInv(p)' /\ \A q \in Peers \ {p} : Unmoved(q)
  BY <1>1, <1>2, <1>5, <1>7, <1>8, Zenon DEF PeerInv, Unmoved
<1> QED
  BY <1>2, <1>4, <1>9, PeersKept, FramesKept, Zenon DEF SessionInv

LEMMA SendTextKept ==
    ASSUME TypeInv, SessionInv, NEW p \in Peers, SendText(p)
    PROVE  SessionInv'
<1> DEFINE f == Push(contact[p].tx, main[p].key, Text(sent[p]))
<1>1. /\ PeerInv(p) /\ contact[p].tx \in Channel
      /\ main \in [Peers -> MainThreadState]
      /\ main[p].at = "send" /\ main[p].key \in Channel /\ main[p] # Prompt
  BY DEF SessionInv, SendText, TypeInv, TypeOK, Contact, MainThreadState, Prompt
<1>2. UNCHANGED <<contact, disk, keys, down, relay, answered, past>> /\ Growing
  BY Zenon DEF SendText, Growing
<1>3. sent[p] \in 1 .. MaxTexts
  BY <1>1, SessionAssumption DEF TypeInv, TypeOK, StoredBeforeSent
<1>4. ~IsBootstrap(main[p].key)
  BY <1>1, Zenon DEF PeerInv, Protected
<1>5. f \in Frame /\ FrameInv(f, answered')
  BY <1>1, <1>3, <1>4, FrameTypes, Zenon DEF FrameInv, TextProtected, Push, Text
<1>6. OutboxInv'
  BY <1>2, <1>5, EnqueueKept, Zenon DEF SendText, TypeInv
<1>7. main' = [main EXCEPT ![p] = Prompt]
  BY Zenon DEF SendText
<1>8. DiskCurrent(p)' /\ Established(contact[p].tx)' /\ Protected(p)'
  BY <1>1, <1>2, <1>7, Zenon DEF PeerInv, DiskCurrent, Established, Protected, Prompt
<1>9. KeysFresh(p)'
  BY <1>1, <1>2, <1>7, Zenon DEF PeerInv, KeysFresh, FreshFor, Prompt
<1>10. PeerInv(p)' /\ \A q \in Peers \ {p} : Unmoved(q)
  BY <1>1, <1>2, <1>7, <1>8, <1>9, Zenon DEF PeerInv, Unmoved
<1> QED
  BY <1>2, <1>6, <1>10, PeersKept, FramesKept, Zenon DEF SessionInv

-----------------------------------------------------------------------------
(* The asio thread. *)

LEMMA StillPeers ==
    ASSUME SessionInv, Growing, UNCHANGED <<contact, disk, main, keys, past>>
    PROVE  \A q \in Peers : PeerInv(q)'
<1> SUFFICES ASSUME NEW q \in Peers PROVE PeerInv(q)'
  BY Zenon
<1>1. PeerInv(q)
  BY Zenon DEF SessionInv
<1> QED
  BY <1>1, Zenon DEF PeerInv, DiskCurrent, Protected, Established, KeysFresh, FreshFor, Growing

LEMMA TickKept ==
    ASSUME TypeInv, SessionInv, NEW p \in Peers, Tick(p) \/ TickLost(p)
    PROVE  SessionInv'
<1>1. UNCHANGED <<contact, disk, main, keys, past, answered>> /\ Growing
  BY Zenon DEF Tick, TickPush, TickPoll, TickLost, Growing
<1>2. \A q \in Peers : PeerInv(q)'
  BY <1>1, StillPeers, Zenon
<1>3. /\ outbox \in [Peers -> Seq(Frame)] /\ down \in [Peers -> Seq(Frame)]
      /\ relay \in [Channel -> Seq(Frame)]
  BY Zenon DEF TypeInv, TypeOK
<1>4. CASE TickPush(p)
  <2> DEFINE f == Head(outbox[p])
  <2>1. outbox[p] # <<>> /\ outbox[p] \in Seq(Frame)
    BY <1>3, <1>4, Zenon DEF TickPush
  <2>2. f \in Frame /\ f = outbox[p][1] /\ 1 \in DOMAIN outbox[p]
    BY <2>1
  <2>3. FrameInv(f, answered') /\ f.to \in Channel
    BY <1>1, <2>2, Zenon DEF SessionInv, OutboxInv, Frame
  <2>4. OutboxInv' /\ DownInv'
    BY <1>1, <1>4, <2>1, DequeueKept, FramesKept, Zenon DEF TickPush, TypeInv
  <2>5. relay' = relay \/ relay' = [relay EXCEPT ![f.to] = Append(@, f)]
    BY <1>4, Zenon DEF TickPush
  <2> HIDE DEF f
  <2>6. ASSUME NEW ch \in Channel, NEW i \in DOMAIN relay'[ch]
        PROVE  FrameInv(relay'[ch][i], answered')
    <3>1. relay[ch] \in Seq(Frame)
      BY <1>3, Zenon
    <3>2. relay'[ch] = relay[ch] \/ relay'[ch] = Append(relay[ch], f)
      BY <1>3, <2>5, Zenon
    <3>3. \A j \in DOMAIN relay[ch] : FrameInv(relay[ch][j], answered')
      BY <1>1, Zenon DEF SessionInv, RelayInv
    <3> QED
      BY <2>2, <2>3, <2>6, <3>1, <3>2, <3>3, AppendElements, SMTT(30)
  <2> QED
    BY <1>2, <2>4, <2>6, Zenon DEF SessionInv, RelayInv
<1>5. CASE TickLost(p)
  BY <1>1, <1>2, <1>5, DequeueKept, FramesKept, Zenon DEF TickLost, TypeInv, SessionInv
<1>6. CASE TickPoll(p)
  <2>1. PICK m \in Channel :
           \/ relay' = relay /\ down' = down
           \/ /\ relay[m] # <<>>
              /\ relay' = [relay EXCEPT ![m] = Tail(@)]
              /\ down' = [down EXCEPT ![p] = Append(@, Head(relay[m]))]
    BY <1>6, PollChannel, Zenon DEF TypeInv
  <2>2. CASE relay' = relay /\ down' = down
    BY <1>1, <1>2, <1>6, <2>2, FramesKept, Zenon DEF TickPoll, SessionInv
  <2>3. CASE /\ relay[m] # <<>>
             /\ relay' = [relay EXCEPT ![m] = Tail(@)]
             /\ down' = [down EXCEPT ![p] = Append(@, Head(relay[m]))]
    <3> DEFINE f == Head(relay[m])
    <3>1. relay[m] \in Seq(Frame)
      BY <1>3, Zenon
    <3>2. f \in Frame /\ f = relay[m][1] /\ 1 \in DOMAIN relay[m]
      BY <2>3, <3>1
    <3>3. FrameInv(f, answered')
      BY <1>1, <3>2, Zenon DEF SessionInv, RelayInv
    <3> HIDE DEF f
    <3>4. ASSUME NEW q \in Peers, NEW i \in DOMAIN down'[q]
          PROVE  FrameInv(down'[q][i], answered')
      <4>1. down[q] \in Seq(Frame)
        BY <1>3, Zenon
      <4>2. down'[q] = down[q] \/ down'[q] = Append(down[q], f)
        BY <1>3, <2>3, Zenon DEF f
      <4>3. \A j \in DOMAIN down[q] : FrameInv(down[q][j], answered')
        BY <1>1, Zenon DEF SessionInv, DownInv
      <4> QED
        BY <3>2, <3>3, <3>4, <4>1, <4>2, <4>3, AppendElements
    <3>5. ASSUME NEW ch \in Channel, NEW i \in DOMAIN relay'[ch]
          PROVE  FrameInv(relay'[ch][i], answered')
      <4>1. relay'[ch] = relay[ch] \/ (ch = m /\ relay'[ch] = Tail(relay[m]))
        BY <1>3, <2>3, Zenon
      <4>2. \A j \in DOMAIN relay[ch] : FrameInv(relay[ch][j], answered')
        BY <1>1, Zenon DEF SessionInv, RelayInv
      <4> QED
        BY <2>3, <3>1, <3>5, <4>1, <4>2, TailElements
    <3>6. OutboxInv'
      BY <1>1, <1>6, FramesKept, Zenon DEF TickPoll
    <3> QED
      BY <1>2, <3>4, <3>5, <3>6, Zenon DEF SessionInv, DownInv, RelayInv
  <2> QED
    BY <2>1, <2>2, <2>3, Zenon
<1> QED
  BY <1>4, <1>5, <1>6, Zenon DEF Tick

\* What a frame handler of p keeps; relay and down are not its business.
Handled(p) ==
    /\ Growing
    /\ \A q \in Peers : PeerInv(q)'
    /\ OutboxInv'

LEMMA StillHandled ==
    ASSUME SessionInv, NEW p \in Peers, UNCHANGED <<clientVars, answered, past>>
    PROVE  Handled(p)
<1>1. Growing /\ UNCHANGED <<contact, disk, main, keys, past, outbox>>
  BY Zenon DEF Growing, clientVars
<1> QED
  BY <1>1, StillPeers, FramesKept, Zenon DEF Handled

\* A handler that stores record c, which says what the old one said.
LEMMA StoredHandled ==
    ASSUME TypeInv, SessionInv, NEW p \in Peers, NEW c, Replaces(c, p),
           c.tx = contact[p].tx, c.rx = contact[p].rx, c.complete = contact[p].complete,
           contact' = [contact EXCEPT ![p] = c],
           (disk' = disk) \/ SaveToDisk(p, c),
           UNCHANGED <<keys, main, answered, past>>, OutboxInv'
    PROVE  Handled(p)
<1>1. /\ PeerInv(p) /\ Growing /\ contact \in [Peers -> Contact]
      /\ disk \in [Peers -> DiskContact]
  BY Zenon DEF SessionInv, Growing, TypeInv, TypeOK
<1>2. contact'[p] = c
  BY <1>1, Zenon
<1>3. disk'[p] = Persistent(c)
  BY <1>1, Zenon DEF SaveToDisk, PeerInv, DiskCurrent, Persistent
<1>4. DiskCurrent(p)' /\ Established(contact[p].tx)'
  BY <1>2, <1>3 DEF DiskCurrent, Established, Replaces
<1>5. Protected(p)'
  BY <1>1, <1>2, Zenon DEF PeerInv, Protected, Replaces
<1>6. KeysFresh(p)'
  BY <1>1, <1>2, Zenon DEF PeerInv, KeysFresh, FreshFor, Replaces
<1>7. PeerInv(p)' /\ \A q \in Peers \ {p} : Unmoved(q)
  BY <1>1, <1>4, <1>5, <1>6, Zenon DEF PeerInv, Unmoved, SaveToDisk
<1> QED
  BY <1>1, <1>7, PeersKept, Zenon DEF Handled

LEMMA TextMessageKept ==
    ASSUME TypeInv, SessionInv, NEW p \in Peers, NEW f \in Frame,
           HandleTextMessage(p, AfterPush(contact[p], f), f)
    PROVE  Handled(p)
<1> DEFINE c == AfterPush(contact[p], f)
<1>1. Replaces(c, p) /\ c \in Contact
  BY OwnReplaces, Zenon DEF Replaces
<1>2. c.tx = contact[p].tx /\ c.rx = contact[p].rx /\ c.complete = contact[p].complete
  BY DEF AfterPush, TypeInv, TypeOK, Contact
<1>3. /\ contact' = [contact EXCEPT ![p] = c]
      /\ (disk' = disk) \/ SaveToDisk(p, c)
      /\ UNCHANGED <<keys, main, answered, past>>
      /\ Growing
      /\ outbox' = outbox \/ Enqueue(p, ReceiptFor(c, f.body.id))
      /\ f.body.op = "TEXT"
  BY Zenon DEF HandleTextMessage, Growing
<1>4. ReceiptFor(c, f.body.id) \in Frame /\ FrameInv(ReceiptFor(c, f.body.id), answered')
  <2>1. f.body.id \in 1 .. MaxTexts /\ c.tx \in Channel
    BY <1>1, <1>3, Zenon DEF Frame, PushBody, AckBody, Contact
  <2> QED
    BY <2>1, FrameTypes, Zenon DEF ReceiptFor, FrameInv, TextProtected, Ack, Receipt
<1> HIDE DEF c
<1>5. OutboxInv'
  BY <1>3, <1>4, FramesKept, EnqueueKept, Zenon DEF TypeInv
<1> QED
  BY <1>1, <1>2, <1>3, <1>5, StoredHandled, Zenon

LEMMA RotateRequestKept ==
    ASSUME TypeInv, SessionInv, NEW p \in Peers, NEW f \in Frame,
           HandlePfsRotateRequest(p, AfterPush(contact[p], f), f)
    PROVE  Handled(p)
<1> DEFINE c == AfterPush(contact[p], f)
<1>1. Replaces(c, p) /\ c \in Contact
  BY OwnReplaces, Zenon DEF Replaces
<1>2. /\ c.tx = contact[p].tx /\ c.rx = contact[p].rx /\ c.complete = contact[p].complete
      /\ c.pending = contact[p].pending
  BY DEF AfterPush, TypeInv, TypeOK, Contact
<1>3. /\ PeerInv(p) /\ contact \in [Peers -> Contact] /\ disk \in [Peers -> DiskContact]
      /\ keys \in [Peers -> 0 .. MaxKeys] /\ past \in [Peers -> SUBSET Channel]
      /\ UNCHANGED main /\ keys[p] \in Nat
  BY SessionAssumption, SMTT(30) DEF SessionInv, TypeInv, TypeOK, HandlePfsRotateRequest
<1>4. CASE ~c.complete /\ IsInitialPfsInitiator(p)
  <2>1. /\ MaybeStartInitialPfs(p, c, link[p] # "none")
        /\ UNCHANGED <<disk, answered, past>>
    BY <1>4, Zenon DEF HandlePfsRotateRequest
  <2>2. disk'[p] = Persistent(c) /\ Growing
    BY <1>2, <1>3, <2>1, Zenon DEF PeerInv, DiskCurrent, Persistent, Growing
  <2> HIDE DEF c
  <2>3. /\ PeerInv(p)' /\ OutboxInv'
        /\ \A q \in Peers \ {p} : contact'[q] = contact[q] /\ keys'[q] = keys[q]
    BY <1>1, <1>3, <2>1, <2>2, MaybeStartKept, Zenon
  <2> QED
    BY <1>3, <2>1, <2>2, <2>3, PeersKept, Zenon DEF Unmoved, Handled
<1>5. CASE ~(~c.complete /\ IsInitialPfsInitiator(p))
  <2> DEFINE mine == FreshKey(p)
             theirs == f.body.eph
             kept == IF c.complete THEN [c EXCEPT !.oldRx = c.rx]
                                   ELSE [c EXCEPT !.complete = TRUE,
                                                  !.pfsState = "IDLE"]
             new == WithSession(kept, mine, theirs)
  <2>1. /\ keys[p] < MaxKeys
        /\ keys' = [keys EXCEPT ![p] = @ + 1]
        /\ Enqueue(p, Push(c.tx, c.tx, RotateAck(theirs, mine)))
        /\ contact' = [contact EXCEPT ![p] = new]
        /\ disk' = [disk EXCEPT ![p] = Persistent(new)]
        /\ answered' = answered \cup {<<theirs, mine>>}
        /\ past' = [past EXCEPT ![p] = @ \cup {new.tx}]
        /\ f.body.op = "ROTATE_REQUEST"
    BY <1>5, Zenon DEF HandlePfsRotateRequest, SaveToDisk
  <2>2. theirs \in Key /\ c.tx \in Channel
    BY <1>1, <2>1, Zenon DEF Frame, PushBody, AckBody, Contact
  <2>3. mine \in Key /\ mine[2] = keys[p] + 1
    BY <2>1, FreshKeyType, Zenon DEF FreshKey, TypeInv
  <2>4. kept \in Contact /\ kept.complete = TRUE /\ kept.pending = contact[p].pending
    BY <1>1, <1>2, Zenon DEF Contact
  <2>5. /\ new.tx = <<mine, theirs>> /\ new.complete = TRUE
        /\ new.pending = contact[p].pending
    BY <2>4, Zenon DEF WithSession, Contact
  <2>6. Push(c.tx, c.tx, RotateAck(theirs, mine)) \in Frame
    BY <2>2, <2>3, FrameTypes, Zenon
  <2>7. FrameInv(Push(c.tx, c.tx, RotateAck(theirs, mine)), answered')
    BY <2>1, Zenon DEF FrameInv, TextProtected, Push, RotateAck
  <2> HIDE DEF c, mine, theirs, kept, new
  <2>8. Growing
    BY <2>1, Zenon DEF Growing
  <2>9. OutboxInv'
    BY <2>1, <2>6, <2>7, <2>8, EnqueueKept, Zenon DEF TypeInv
  <2>10. contact'[p] = new /\ disk'[p] = Persistent(new) /\ keys'[p] = keys[p] + 1
    BY <1>3, <2>1, Zenon
  <2>11. past'[p] = past[p] \cup {<<mine, theirs>>}
    BY <1>3, <2>1, <2>5, Zenon
  <2>12. ~IsBootstrap(new.tx)
    BY <1>3, <2>3, <2>5 DEF IsBootstrap
  <2>13. Established(contact[p].tx)'
    BY <2>1, <2>5, <2>10 DEF Established, Mirror
  <2>14. DiskCurrent(p)' /\ Protected(p)'
    BY <1>3, <2>5, <2>10, <2>12, Zenon DEF DiskCurrent, PeerInv, Protected
  <2>15. KeysFresh(p)'
    <3>1. FreshFor(p, contact[p].pending, main[p].eph)
      BY <1>3, Zenon DEF PeerInv, KeysFresh
    <3>2. contact'[p].pending = contact[p].pending /\ main'[p].eph = main[p].eph
      BY <1>3, <2>5, <2>10, Zenon
    <3>3. \A ch \in past'[p] : ch \in past[p] \/ ch[1][2] = keys[p] + 1
      BY <2>3, <2>11
    <3> QED
      BY <1>3, <2>10, <3>1, <3>2, <3>3 DEF KeysFresh, FreshFor
  <2>16. PeerInv(p)' /\ \A q \in Peers \ {p} : Unmoved(q)
    BY <1>3, <2>1, <2>13, <2>14, <2>15, Zenon DEF PeerInv, Unmoved
  <2> QED
    BY <2>8, <2>9, <2>16, PeersKept, Zenon DEF Handled
<1> QED
  BY <1>4, <1>5, Zenon

LEMMA RotateAckKept ==
    ASSUME TypeInv, SessionInv, NEW p \in Peers, NEW f \in Frame, FrameInv(f, answered),
           HandlePfsRotateAck(p, AfterPush(contact[p], f), f)
    PROVE  Handled(p)
<1> DEFINE c == AfterPush(contact[p], f)
<1>1. Replaces(c, p) /\ c \in Contact
  BY OwnReplaces, Zenon DEF Replaces
<1>2. /\ c.tx = contact[p].tx /\ c.rx = contact[p].rx /\ c.complete = contact[p].complete
      /\ c.pending = contact[p].pending
  BY DEF AfterPush, TypeInv, TypeOK, Contact
<1>3. /\ PeerInv(p) /\ contact \in [Peers -> Contact] /\ disk \in [Peers -> DiskContact]
      /\ past \in [Peers -> SUBSET Channel]
      /\ UNCHANGED <<keys, outbox, main, answered>> /\ Growing
      /\ f.body.op = "ROTATE_ACK"
  BY Zenon DEF SessionInv, TypeInv, TypeOK, HandlePfsRotateAck, Growing
<1>4. OutboxInv'
  BY <1>3, FramesKept, Zenon
<1>5. CASE AckAccepted(c, f)
  <2> DEFINE new == [WithSession(c, c.pending, f.body.eph)
                        EXCEPT !.pfsState = "IDLE", !.pending = None, !.complete = TRUE]
  <2>1. /\ contact' = [contact EXCEPT ![p] = new]
        /\ disk' = [disk EXCEPT ![p] = Persistent(new)]
        /\ past' = [past EXCEPT ![p] = @ \cup {new.tx}]
    BY <1>5, Zenon DEF HandlePfsRotateAck, SaveToDisk
  <2>2. /\ f.body.req \in Key /\ f.body.eph \in Key
        /\ contact[p].pending = f.body.req /\ contact[p].pending # None
    BY <1>2, <1>3, <1>5, NoneAssumption, Zenon DEF Frame, PushBody, AckBody, AckAccepted
  <2>3. /\ new.tx = <<contact[p].pending, f.body.eph>> /\ new.complete = TRUE
        /\ new.pending = None
    BY <1>1, <1>2, Zenon DEF WithSession, Contact
  <2> HIDE DEF c, new
  <2>4. contact'[p] = new /\ disk'[p] = Persistent(new)
    BY <1>3, <2>1, Zenon
  <2>5. past'[p] = past[p] \cup {<<contact[p].pending, f.body.eph>>}
    BY <1>3, <2>1, <2>3, Zenon
  <2>6. contact[p].pending[2] \in 1 .. keys[p]
    BY <1>3, <2>2, Zenon DEF PeerInv, KeysFresh, FreshFor
  <2>7. ~IsBootstrap(new.tx)
    BY <2>3, <2>6 DEF IsBootstrap
  <2>8. Established(contact[p].tx)'
    BY <1>3, <2>2, <2>3, <2>4, Zenon DEF Established, FrameInv
  <2>9. DiskCurrent(p)' /\ Protected(p)'
    BY <1>3, <2>3, <2>4, <2>7, Zenon DEF DiskCurrent, PeerInv, Protected
  <2>10. KeysFresh(p)'
    <3>1. FreshFor(p, contact[p].pending, main[p].eph)
      BY <1>3, Zenon DEF PeerInv, KeysFresh
    <3>2. contact'[p].pending = None /\ main'[p].eph = main[p].eph /\ keys'[p] = keys[p]
      BY <1>3, <2>3, <2>4, Zenon
    <3>3. \A ch \in past'[p] : ch \in past[p] \/ ch[1][2] = contact[p].pending[2]
      BY <2>5
    <3> QED
      BY <2>2, <2>6, <3>1, <3>2, <3>3, Zenon DEF KeysFresh, FreshFor
  <2>11. PeerInv(p)' /\ \A q \in Peers \ {p} : Unmoved(q)
    BY <1>3, <2>1, <2>8, <2>9, <2>10, Zenon DEF PeerInv, Unmoved
  <2> QED
    BY <1>3, <1>4, <2>11, PeersKept, Zenon DEF Handled
<1>6. CASE ~AckAccepted(c, f)
  <2>1. /\ contact' = [contact EXCEPT ![p] = c]
        /\ (disk' = disk) \/ SaveToDisk(p, c)
        /\ past' = past
    BY <1>6, Zenon DEF HandlePfsRotateAck
  <2> HIDE DEF c
  <2> QED
    BY <1>1, <1>2, <1>3, <1>4, <2>1, StoredHandled, Zenon
<1> QED
  BY <1>5, <1>6, Zenon

LEMMA OnFrameReceivedKept ==
    ASSUME TypeInv, SessionInv, NEW p \in Peers, OnFrameReceived(p)
    PROVE  SessionInv'
<1> DEFINE f == Head(down[p])
           c == AfterPush(contact[p], f)
<1>1. down[p] \in Seq(Frame) /\ down[p] # <<>>
  BY Zenon DEF OnFrameReceived, TypeInv, TypeOK
<1>2. f \in Frame /\ f = down[p][1] /\ 1 \in DOMAIN down[p]
  BY <1>1
<1>3. FrameInv(f, answered)
  BY <1>2, Zenon DEF SessionInv, DownInv
<1>4. \/ DropFrame(p, f)
      \/ ProcessAckFrame(p, f)
      \/ HandleTextMessage(p, c, f)
      \/ HandlePfsRotateRequest(p, c, f)
      \/ HandlePfsRotateAck(p, c, f)
  BY Zenon DEF OnFrameReceived, ProcessPushFrame
<1>5. down' = [down EXCEPT ![p] = Tail(@)] /\ relay' = relay
  BY Zenon DEF OnFrameReceived
<1> HIDE DEF f
<1>6. Handled(p)
  <2>1. CASE DropFrame(p, f) \/ ProcessAckFrame(p, f)
    <3>1. UNCHANGED <<clientVars, answered, past>>
      BY <2>1, Zenon DEF DropFrame, ProcessAckFrame
    <3> QED
      BY <3>1, StillHandled, Zenon
  <2> QED
    BY <1>2, <1>3, <1>4, <2>1, TextMessageKept, RotateRequestKept, RotateAckKept, Zenon
<1>7. DownInv' /\ RelayInv'
  BY <1>1, <1>5, <1>6, DequeueKept, FramesKept, Zenon DEF Handled, TypeInv
<1> QED
  BY <1>6, <1>7, Zenon DEF Handled, SessionInv

LEMMA FailureKept ==
    ASSUME TypeInv, SessionInv, NEW p \in Peers, Cut(p) \/ Restart(p)
    PROVE  SessionInv'
<1>1. UNCHANGED <<disk, keys, relay, answered, past>> /\ Growing
  BY Zenon DEF Cut, Restart, Growing
<1>2. RelayInv'
  BY <1>1, FramesKept, Zenon
<1>3. DownInv'
  <2>1. down' = [down EXCEPT ![p] = <<>>] /\ down \in [Peers -> Seq(Frame)]
    BY Zenon DEF Cut, Restart, TypeInv, TypeOK
  <2>2. ASSUME NEW q \in Peers, NEW i \in DOMAIN down'[q]
        PROVE  FrameInv(down'[q][i], answered')
    <3>1. q # p /\ down'[q] = down[q]
      BY <2>1, <2>2
    <3> QED
      BY <1>1, <2>2, <3>1, Zenon DEF SessionInv, DownInv
  <2> QED
    BY <2>2, Zenon DEF DownInv
<1>4. CASE Cut(p)
  <2>1. UNCHANGED <<contact, main, outbox>>
    BY <1>4, Zenon DEF Cut
  <2> QED
    BY <1>1, <1>2, <1>3, <2>1, StillPeers, FramesKept, Zenon DEF SessionInv
<1>5. CASE Restart(p)
  <2>1. /\ contact' = [contact EXCEPT ![p] = LoadedContact(disk[p])]
        /\ outbox' = [outbox EXCEPT ![p] = <<>>]
        /\ main' = [main EXCEPT ![p] = Prompt]
    BY <1>5, Zenon DEF Restart
  <2>2. /\ outbox \in [Peers -> Seq(Frame)] /\ contact \in [Peers -> Contact]
        /\ main \in [Peers -> MainThreadState] /\ PeerInv(p) /\ disk[p] \in DiskContact
    BY Zenon DEF TypeInv, TypeOK, SessionInv
  <2>3. OutboxInv'
    <3>1. ASSUME NEW q \in Peers, NEW i \in DOMAIN outbox'[q]
          PROVE  FrameInv(outbox'[q][i], answered')
      <4>1. q # p /\ outbox'[q] = outbox[q]
        BY <2>1, <2>2, <3>1
      <4> QED
        BY <1>1, <3>1, <4>1, Zenon DEF SessionInv, OutboxInv
    <3> QED
      BY <3>1, Zenon DEF OutboxInv
  <2>4. /\ contact'[p].tx = contact[p].tx /\ contact'[p].rx = contact[p].rx
        /\ contact'[p].complete = contact[p].complete /\ contact'[p].pending = None
        /\ main'[p] = Prompt
    BY <2>1, <2>2 DEF LoadedContact, PeerInv, DiskCurrent, Persistent
  <2>5. DiskCurrent(p)' /\ Established(contact[p].tx)' /\ Protected(p)'
    BY <1>1, <2>2, <2>4, SMTT(30)
       DEF PeerInv, DiskCurrent, Persistent, Established, Protected, Prompt
  <2>6. KeysFresh(p)'
    <3>1. \A ch \in past[p] : ch[1][2] \in 1 .. keys[p]
      BY <2>2, Zenon DEF PeerInv, KeysFresh, FreshFor
    <3>2. contact'[p].pending = None /\ main'[p].eph = None
      BY <2>4 DEF Prompt
    <3> QED
      BY <1>1, <3>1, <3>2, Zenon DEF KeysFresh, FreshFor
  <2>7. PeerInv(p)' /\ \A q \in Peers \ {p} : Unmoved(q)
    BY <1>1, <2>1, <2>2, <2>5, <2>6, Zenon DEF PeerInv, Unmoved
  <2> QED
    BY <1>1, <1>2, <1>3, <2>3, <2>7, PeersKept, Zenon DEF SessionInv
<1> QED
  BY <1>4, <1>5, Zenon

LEMMA SessionStep == TypeInv /\ SessionInv /\ [Next]_vars => SessionInv'
<1> SUFFICES ASSUME TypeInv, SessionInv, [Next]_vars PROVE SessionInv'
  BY Zenon
<1>1. CASE UNCHANGED vars
  <2>1. /\ UNCHANGED <<contact, disk, main, keys, past, outbox, down, relay>>
        /\ Growing
    BY <1>1, Zenon DEF vars, clientVars, Growing
  <2> QED
    BY <2>1, StillPeers, FramesKept, Zenon DEF SessionInv
<1>2. ASSUME NEW p \in Peers,
             \/ MainThread(p) \/ Tick(p) \/ OnFrameReceived(p)
             \/ TickLost(p) \/ Cut(p) \/ Restart(p)
      PROVE  SessionInv'
  BY <1>2, ConnectKept, AddContactKept, SendKept, ReadTxKeyKept, SendRotateRequestKept,
     SendTextKept, TickKept, OnFrameReceivedKept, FailureKept, Zenon DEF MainThread
<1> QED
  BY <1>1, <1>2, Zenon DEF Next

LEMMA SessionAlways == Spec => [](TypeInv /\ SessionInv)
<1>1. Init => TypeInv /\ SessionInv
  BY TypeInit, SessionInit, Zenon
<1>2. TypeInv /\ SessionInv /\ [Next]_vars => (TypeInv /\ SessionInv)'
  BY TypeStep, SessionStep, Zenon
<1> QED
  BY <1>1, <1>2, PTL DEF Spec

-----------------------------------------------------------------------------
(* The theorems. *)

\* No text is encrypted under a key that the identity keys alone determine:
\* HandleSend refuses until the handshake is complete, and nothing (restart,
\* rotation, a `send` command cut by a rotation) leads back to those keys
\* but adding the contact again, which clears initialPfsComplete with them.
THEOREM TextsNeverUnderBootstrapKey == Spec => []NoTextUnderBootstrapKey
<1>1. SessionInv => NoTextUnderBootstrapKey
  BY Zenon
     DEF SessionInv, OutboxInv, DownInv, RelayInv, FrameInv, NoTextUnderBootstrapKey, AllFrames
<1> QED
  BY <1>1, SessionAlways, PTL

\* HandlePfsRotateAck installs only sessions whose other end was derived by
\* HandlePfsRotateRequest, because the signature binds the answer to the
\* pending key; SaveToDisk and AddressBook::Initialize keep that across
\* restarts.
THEOREM InstalledSessionsWereAnswered == Spec => []SessionsWereAnswered
<1>1. SessionInv => SessionsWereAnswered
  BY Zenon DEF SessionInv, PeerInv, Established, SessionsWereAnswered
<1> QED
  BY <1>1, SessionAlways, PTL

-----------------------------------------------------------------------------
(* Rotation only moves forward. *)

LEMMA NoReinstallStep ==
    ASSUME TypeInv, SessionInv, [Next]_vars
    PROVE  \A q \in Peers : contact'[q].tx # contact[q].tx => contact'[q].tx \notin past[q]
<1>1. CASE UNCHANGED vars
  BY <1>1, Zenon DEF vars, clientVars
<1>2. ASSUME NEW p \in Peers,
             \/ MainThread(p) \/ Tick(p) \/ OnFrameReceived(p)
             \/ TickLost(p) \/ Cut(p) \/ Restart(p),
             NEW q \in Peers, contact'[q].tx # contact[q].tx
      PROVE  contact'[q].tx \notin past[q]
  <2> DEFINE f == Head(down[p])
             c == AfterPush(contact[p], f)
  <2>1. /\ contact \in [Peers -> Contact] /\ PeerInv(p) /\ PeerInv(q)
        /\ keys[p] \in Nat
    BY SessionAssumption DEF TypeInv, TypeOK, SessionInv
  <2>2. \A ch \in past[p] : ch[1][2] \in 1 .. keys[p]
    BY <2>1, Zenon DEF PeerInv, KeysFresh, FreshFor
  <2>3. CASE HandleConnect(p) \/ HandleSendRefused(p)
    <3>1. \/ contact' = [contact EXCEPT ![p] = contact[p]]
          \/ contact' = [contact EXCEPT ![p] = Requested(contact[p], FreshKey(p))]
      BY <2>3, Zenon DEF HandleConnect, HandleSendRefused, MaybeStartInitialPfs
    <3>2. Requested(contact[p], FreshKey(p)).tx = contact[p].tx
      BY <2>1, Zenon DEF Requested, Contact
    <3> QED
      BY <1>2, <2>1, <3>1, <3>2, Zenon
  <2>4. CASE HandleAddContact(p)
    <3> DEFINE b == BootstrapContact(p)
    <3>1. \/ contact' = [contact EXCEPT ![p] = b]
          \/ contact' = [contact EXCEPT ![p] = Requested(b, FreshKey(p))]
      BY <2>4, Zenon DEF HandleAddContact, MaybeStartInitialPfs
    <3>2. b.tx[1][2] = 0 /\ b \in Contact
      BY PeerTypes, Zenon DEF BootstrapContact, DerivePairwiseMailboxes, Identity
    <3> HIDE DEF b
    <3>3. q = p /\ contact'[p].tx = b.tx
      BY <1>2, <2>1, <3>1, <3>2, ZenonT(20) DEF Requested, Contact
    <3> QED
      BY <2>2, <3>2, <3>3
  <2>5. CASE HandleSend(p)
    <3>1. contact' = contact \/ contact' = [contact EXCEPT ![p] = Counted(@)]
      BY <2>5, Zenon DEF HandleSend
    <3> QED
      BY <1>2, <2>1, <3>1 DEF Counted, Contact
  <2>6. CASE SendRotateRequest(p)
    <3>1. contact' = [contact EXCEPT ![p] = Counted(Requested(@, main[p].eph))]
      BY <2>6, Zenon DEF SendRotateRequest
    <3> QED
      BY <1>2, <2>1, <3>1, Zenon DEF Counted, Requested, Contact
  <2>7. CASE ReadTxKey(p) \/ SendText(p) \/ Tick(p) \/ TickLost(p) \/ Cut(p)
    BY <1>2, <2>7, Zenon DEF ReadTxKey, SendText, Tick, TickPush, TickPoll, TickLost, Cut
  <2>8. CASE Restart(p)
    <3>1. contact' = [contact EXCEPT ![p] = LoadedContact(disk[p])]
      BY <2>8, Zenon DEF Restart
    <3>2. LoadedContact(disk[p]).tx = contact[p].tx
      BY <2>1, SMTT(60) DEF LoadedContact, PeerInv, DiskCurrent, Persistent
    <3> QED
      BY <1>2, <2>1, <3>1, <3>2, Zenon
  <2>9. CASE OnFrameReceived(p)
    <3>1. f \in Frame
      BY <2>9 DEF OnFrameReceived, TypeInv, TypeOK
    <3>2. \/ DropFrame(p, f)
          \/ ProcessAckFrame(p, f)
          \/ HandleTextMessage(p, c, f)
          \/ HandlePfsRotateRequest(p, c, f)
          \/ HandlePfsRotateAck(p, c, f)
      BY <2>9, Zenon DEF OnFrameReceived, ProcessPushFrame
    <3>3. c \in Contact /\ c.tx = contact[p].tx /\ c.pending = contact[p].pending
      BY <2>1 DEF AfterPush, Contact
    <3> HIDE DEF f, c
    <3>4. CASE DropFrame(p, f) \/ ProcessAckFrame(p, f)
      BY <1>2, <3>4, Zenon DEF DropFrame, ProcessAckFrame, clientVars
    <3>5. CASE HandleTextMessage(p, c, f)
      BY <1>2, <2>1, <3>3, <3>5, Zenon DEF HandleTextMessage
    <3>6. CASE HandlePfsRotateRequest(p, c, f)
      <4>1. CASE ~c.complete /\ IsInitialPfsInitiator(p)
        <5>1. \/ contact' = [contact EXCEPT ![p] = c]
              \/ contact' = [contact EXCEPT ![p] = Requested(c, FreshKey(p))]
          BY <3>6, <4>1, Zenon DEF HandlePfsRotateRequest, MaybeStartInitialPfs
        <5> QED
          BY <1>2, <2>1, <3>3, <5>1, ZenonT(30) DEF Requested, Contact
      <4>2. CASE ~(~c.complete /\ IsInitialPfsInitiator(p))
        <5> DEFINE kept == IF c.complete THEN [c EXCEPT !.oldRx = c.rx]
                                         ELSE [c EXCEPT !.complete = TRUE,
                                                        !.pfsState = "IDLE"]
                   new == WithSession(kept, FreshKey(p), f.body.eph)
        <5>1. contact' = [contact EXCEPT ![p] = new]
          BY <3>6, <4>2, Zenon DEF HandlePfsRotateRequest
        <5>2. new.tx[1][2] = keys[p] + 1
          BY <3>3, Zenon DEF WithSession, Contact, FreshKey
        <5> HIDE DEF new
        <5>3. q = p /\ contact'[p].tx = new.tx
          BY <1>2, <2>1, <5>1, Zenon
        <5> QED
          BY <2>1, <2>2, <5>2, <5>3
      <4> QED
        BY <4>1, <4>2, Zenon
    <3>7. CASE HandlePfsRotateAck(p, c, f)
      <4>1. CASE AckAccepted(c, f)
        <5> DEFINE new == [WithSession(c, c.pending, f.body.eph)
                        EXCEPT !.pfsState = "IDLE", !.pending = None, !.complete = TRUE]
        <5>1. contact' = [contact EXCEPT ![p] = new]
          BY <3>7, <4>1, Zenon DEF HandlePfsRotateAck
        <5>2. new.tx[1] = contact[p].pending
          BY <3>3, Zenon DEF WithSession, Contact
        <5>3. contact[p].pending # None
          BY <3>1, <3>3, <3>7, <4>1, NoneAssumption
             DEF HandlePfsRotateAck, Frame, PushBody, AckBody, AckAccepted
        <5> HIDE DEF new
        <5>4. q = p /\ contact'[p].tx = new.tx
          BY <1>2, <2>1, <5>1, Zenon
        <5>5. \A ch \in past[p] : ch[1][2] # contact[p].pending[2]
          BY <2>1, <5>3, Zenon DEF PeerInv, KeysFresh, FreshFor
        <5> QED
          BY <5>2, <5>4, <5>5, Zenon
      <4>2. CASE ~AckAccepted(c, f)
        BY <1>2, <2>1, <3>3, <3>7, <4>2, Zenon DEF HandlePfsRotateAck
      <4> QED
        BY <4>1, <4>2, Zenon
    <3> QED
      BY <3>2, <3>4, <3>5, <3>6, <3>7, Zenon
  <2> QED
    BY <1>2, <2>3, <2>4, <2>5, <2>6, <2>7, <2>8, <2>9, Zenon DEF MainThread
<1> QED
  BY <1>1, <1>2, Zenon DEF Next

\* Rotation only moves forward: the handlers of rotation requests and
\* answers never bring back a sending channel that the client has left,
\* and neither does a restart, because each installs a key of its own that
\* no earlier session contains.
THEOREM SessionsAreNeverReinstalled == Spec => NeverReinstallsSession
<1>1. TypeInv /\ SessionInv /\ [Next]_vars =>
          [\A p \in Peers : contact'[p].tx # contact[p].tx =>
              contact'[p].tx \notin past[p]]_vars
  BY NoReinstallStep, Zenon
<1> QED
  BY <1>1, SessionAlways, PTL DEF Spec, NeverReinstallsSession

-----------------------------------------------------------------------------
(* Frames in transit. *)

Elements(s) == {s[i] : i \in DOMAIN s}

Transit ==
    {f \in Frame : \/ \E p \in Peers : f \in Elements(outbox[p]) \/ f \in Elements(down[p])
                   \/ \E ch \in Channel : f \in Elements(relay[ch])}

LEMMA AppendedElement ==
    ASSUME NEW S, NEW s \in Seq(S), NEW e \in S
    PROVE  Elements(Append(s, e)) = Elements(s) \cup {e}
<1>1. Elements(Append(s, e)) \subseteq Elements(s) \cup {e}
  BY AppendElements DEF Elements
<1>2. \A i \in DOMAIN s : i \in DOMAIN Append(s, e) /\ Append(s, e)[i] = s[i]
  OBVIOUS
<1>3. Len(s) + 1 \in DOMAIN Append(s, e) /\ Append(s, e)[Len(s) + 1] = e
  OBVIOUS
<1> QED
  BY <1>1, <1>2, <1>3, Zenon DEF Elements

LEMMA ElementsOf ==
    ASSUME NEW S, NEW s \in Seq(S)
    PROVE  /\ Elements(s) \subseteq S
           /\ s # <<>> => Elements(Tail(s)) \subseteq Elements(s) /\ Head(s) \in Elements(s)
           /\ Elements(<<>>) = {}
<1>1. Elements(s) \subseteq S
  BY DEF Elements
<1>2. ASSUME s # <<>>
      PROVE  Elements(Tail(s)) \subseteq Elements(s) /\ Head(s) \in Elements(s)
  <2>1. 1 \in DOMAIN s /\ Head(s) = s[1]
    BY <1>2
  <2> QED
    BY <1>2, <2>1, TailElements DEF Elements
<1>3. Elements(<<>>) = {}
  BY DEF Elements
<1> QED
  BY <1>1, <1>2, <1>3, Zenon

LEMMA GrownQueue ==
    ASSUME NEW S, NEW s \in Seq(S), NEW e \in S, NEW t, t = Append(s, e)
    PROVE  \A h \in Elements(t) : h \in Elements(s) \/ h = e
<1>1. Elements(Append(s, e)) = Elements(s) \cup {e}
  BY AppendedElement, SMTT(30)
<1> QED
  BY <1>1, SMTT(30)

\* One of a family of queues grows, or loses its front.
LEMMA ElementsAppend ==
    ASSUME NEW S, NEW D, NEW F \in [D -> Seq(S)], NEW d \in D, NEW e \in S
    PROVE  \A x \in D :
               Elements([F EXCEPT ![d] = Append(@, e)][x]) \subseteq Elements(F[x]) \cup {e}
<1> SUFFICES ASSUME NEW x \in D, NEW t, t = [F EXCEPT ![d] = Append(@, e)][x]
             PROVE  Elements(t) \subseteq Elements(F[x]) \cup {e}
  BY Zenon
<1>1. t = F[x] \/ t = Append(F[x], e)
  BY Zenon
<1>2. Elements(Append(F[x], e)) = Elements(F[x]) \cup {e}
  BY AppendedElement, SMTT(30)
<1> QED
  BY <1>1, <1>2, SMTT(30)

LEMMA ElementsTail ==
    ASSUME NEW S, NEW D, NEW F \in [D -> Seq(S)], NEW d \in D, F[d] # <<>>
    PROVE  \A x \in D : Elements([F EXCEPT ![d] = Tail(@)][x]) \subseteq Elements(F[x])
<1> SUFFICES ASSUME NEW x \in D
             PROVE  Elements([F EXCEPT ![d] = Tail(@)][x]) \subseteq Elements(F[x])
  BY Zenon
<1>1. F[x] \in Seq(S)
  BY Zenon
<1>2. \/ [F EXCEPT ![d] = Tail(@)][x] = F[x]
      \/ x = d /\ [F EXCEPT ![d] = Tail(@)][x] = Tail(F[x])
  BY Zenon
<1> QED
  BY <1>1, <1>2, ElementsOf, Zenon

LEMMA BodyTypes ==
    ASSUME NEW f \in Frame
    PROVE  /\ f.to \in Channel
           /\ f.body.op = "TEXT" => f.body.id \in 1 .. MaxTexts
           /\ f.body.op = "ROTATE_REQUEST" => f.body.eph \in Key
           /\ f.body.op = "ROTATE_ACK" => f.body.req \in Key /\ f.body.eph \in Key
           /\ f.body.op = "RECEIPT" => f.body.id \in 1 .. MaxTexts
  BY Zenon DEF Frame, PushBody, AckBody

LEMMA KeyTypes ==
    /\ \A k \in Key : k = <<k[1], k[2]>> /\ k[1] \in Peers /\ k[2] \in Nat /\ k # None
    /\ \A ch \in Channel : ch = <<ch[1], ch[2]>> /\ ch[1] \in Key /\ ch[2] \in Key /\ ch # None
  BY SessionAssumption, NoneAssumption DEF Key, Channel

\* The queues of frames have their types.
QueueTypes ==
    /\ outbox \in [Peers -> Seq(Frame)]
    /\ down \in [Peers -> Seq(Frame)]
    /\ relay \in [Channel -> Seq(Frame)]

\* Mailboxes whose frames p handles.
Listen(p) == {contact[p].rx, contact[p].oldRx} \ {None}

\* What a step of p may do to the queues.
Untouched == UNCHANGED <<outbox, relay, down>>

Popped(p) == down[p] # <<>> /\ down' = [down EXCEPT ![p] = Tail(@)]

Pushed(p) ==
    /\ outbox[p] # <<>> /\ outbox' = [outbox EXCEPT ![p] = Tail(@)] /\ down' = down
    /\ \/ relay' = relay
       \/ relay' = [relay EXCEPT ![Head(outbox[p]).to] = Append(@, Head(outbox[p]))]

Polled(p) ==
    \E m \in Listen(p) \cap Channel :
        /\ relay[m] # <<>> /\ relay' = [relay EXCEPT ![m] = Tail(@)]
        /\ down' = [down EXCEPT ![p] = Append(@, Head(relay[m]))]
        /\ outbox' = outbox

Cleared(p) ==
    /\ down' = [down EXCEPT ![p] = <<>>] /\ relay' = relay
    /\ outbox' = outbox \/ outbox' = [outbox EXCEPT ![p] = <<>>]

\* No frame, or only g, comes into being.
AddsNone(p) ==
    /\ Transit' \subseteq Transit
    /\ \/ Untouched \/ Pushed(p) \/ Polled(p) \/ Cleared(p)
       \/ Popped(p) /\ UNCHANGED <<outbox, relay>>
Adds(p, g) ==
    /\ Transit' \subseteq Transit \cup {g}
    /\ Enqueue(p, g) /\ relay' = relay /\ (down' = down \/ Popped(p))

LEMMA InTransit ==
    ASSUME QueueTypes
    PROVE  /\ \A p \in Peers : Elements(outbox[p]) \subseteq Transit
           /\ \A p \in Peers : Elements(down[p]) \subseteq Transit
           /\ \A ch \in Channel : Elements(relay[ch]) \subseteq Transit
<1>1. /\ \A p \in Peers : Elements(outbox[p]) \subseteq Frame /\ Elements(down[p]) \subseteq Frame
      /\ \A ch \in Channel : Elements(relay[ch]) \subseteq Frame
  BY ElementsOf, Zenon DEF QueueTypes
<1> QED
  BY <1>1, Zenon DEF Transit

LEMMA EnqueueAdds ==
    ASSUME QueueTypes, NEW p \in Peers, NEW g \in Frame, Enqueue(p, g), UNCHANGED <<down, relay>>
    PROVE  Adds(p, g)
<1>1. \A q \in Peers : Elements(outbox'[q]) \subseteq Elements(outbox[q]) \cup {g}
  BY ElementsAppend, Zenon DEF Enqueue, QueueTypes
<1>2. Transit' \subseteq Transit \cup {g}
  BY <1>1, Zenon DEF Transit
<1> QED
  BY <1>2, Zenon DEF Adds

\* OnFrameReceived takes a frame from `down` and may queue one.
LEMMA ReceiveAdds ==
    ASSUME QueueTypes, NEW p \in Peers, down[p] # <<>>,
           down' = [down EXCEPT ![p] = Tail(@)], UNCHANGED relay
    PROVE  /\ outbox' = outbox => AddsNone(p)
           /\ \A g \in Frame : Enqueue(p, g) => Adds(p, g)
<1>1. \A q \in Peers : Elements(down'[q]) \subseteq Elements(down[q])
  BY ElementsTail, Zenon DEF QueueTypes
<1>2. ASSUME NEW g \in Frame, Enqueue(p, g)
      PROVE  \A q \in Peers : Elements(outbox'[q]) \subseteq Elements(outbox[q]) \cup {g}
  BY <1>2, ElementsAppend, Zenon DEF Enqueue, QueueTypes
<1>3. outbox' = outbox => Transit' \subseteq Transit
  BY <1>1, Zenon DEF Transit
<1>4. \A g \in Frame : Enqueue(p, g) => Transit' \subseteq Transit \cup {g}
  BY <1>1, <1>2, Zenon DEF Transit
<1> QED
  BY <1>3, <1>4, Zenon DEF Adds, AddsNone, Popped

LEMMA TickAddsNone ==
    ASSUME TypeInv, NEW p \in Peers, Tick(p) \/ TickLost(p)
    PROVE  AddsNone(p)
<1>1. QueueTypes
  BY Zenon DEF TypeInv, TypeOK, QueueTypes
<1>2. CASE TickPush(p) \/ TickLost(p)
  <2> DEFINE f == Head(outbox[p])
  <2>1. /\ outbox[p] # <<>> /\ outbox' = [outbox EXCEPT ![p] = Tail(@)] /\ down' = down
        /\ relay' = relay \/ relay' = [relay EXCEPT ![f.to] = Append(@, f)]
    BY <1>2, Zenon DEF TickPush, TickLost
  <2>2. outbox[p] \in Seq(Frame)
    BY <1>1, Zenon DEF QueueTypes
  <2>3. f \in Elements(outbox[p]) /\ f \in Frame
    BY <2>1, <2>2, ElementsOf, Zenon
  <2> HIDE DEF f
  <2>4. \A q \in Peers : Elements(outbox'[q]) \subseteq Elements(outbox[q])
    BY <1>1, <2>1, ElementsTail, Zenon DEF QueueTypes
  <2>5. \A ch \in Channel : Elements(relay'[ch]) \subseteq Elements(relay[ch]) \cup {f}
    <3>1. f.to \in Channel
      BY <2>3, BodyTypes, Zenon
    <3>2. relay \in [Channel -> Seq(Frame)] /\ f \in Frame
      BY <1>1, <2>3, Zenon DEF QueueTypes
    <3>3. \A ch \in Channel : Elements([relay EXCEPT ![f.to] = Append(@, f)][ch])
                                \subseteq Elements(relay[ch]) \cup {f}
      BY <3>1, <3>2, ElementsAppend, Zenon
    <3> QED
      BY <2>1, <3>3, Zenon
  <2>6. Transit' \subseteq Transit
    BY <2>1, <2>3, <2>4, <2>5, Zenon DEF Transit
  <2> QED
    BY <2>1, <2>6, Zenon DEF AddsNone, Pushed, f
<1>3. CASE TickPoll(p)
  <2>1. PICK m \in Channel :
           /\ m \in {contact[p].rx, contact[p].oldRx}
           /\ \/ relay' = relay /\ down' = down
              \/ /\ relay[m] # <<>>
                 /\ relay' = [relay EXCEPT ![m] = Tail(@)]
                 /\ down' = [down EXCEPT ![p] = Append(@, Head(relay[m]))]
    BY <1>3, PollChannel, Zenon DEF TypeInv
  <2>2. outbox' = outbox
    BY <1>3, Zenon DEF TickPoll
  <2>3. CASE relay' = relay /\ down' = down
    BY <2>2, <2>3, Zenon DEF Transit, AddsNone, Untouched
  <2>4. CASE /\ relay[m] # <<>>
             /\ relay' = [relay EXCEPT ![m] = Tail(@)]
             /\ down' = [down EXCEPT ![p] = Append(@, Head(relay[m]))]
    <3> DEFINE f == Head(relay[m])
    <3>1. relay[m] \in Seq(Frame) /\ down \in [Peers -> Seq(Frame)]
      BY <1>1, Zenon DEF QueueTypes
    <3>2. f \in Elements(relay[m]) /\ f \in Frame
      BY <2>4, <3>1, ElementsOf, Zenon
    <3> HIDE DEF f
    <3>3. \A q \in Peers : Elements(down'[q]) \subseteq Elements(down[q]) \cup {f}
      <4>1. \A q \in Peers : Elements([down EXCEPT ![p] = Append(@, f)][q])
                              \subseteq Elements(down[q]) \cup {f}
        BY <3>1, <3>2, ElementsAppend, Zenon
      <4> QED
        BY <2>4, <4>1, Zenon DEF f
    <3>4. \A ch \in Channel : Elements(relay'[ch]) \subseteq Elements(relay[ch])
      BY <1>1, <2>4, ElementsTail, Zenon DEF QueueTypes
    <3>5. Polled(p)
      BY <2>1, <2>2, <2>4, KeyTypes, Zenon DEF Polled, Listen
    <3>6. Transit' \subseteq Transit
      BY <2>2, <3>2, <3>3, <3>4, Zenon DEF Transit
    <3> QED
      BY <3>5, <3>6, Zenon DEF AddsNone
  <2> QED
    BY <2>1, <2>3, <2>4, Zenon
<1> QED
  BY <1>2, <1>3, Zenon DEF Tick

-----------------------------------------------------------------------------
(* Moves: what a step of p does to its contact record and to the frames.   *)

\* The ids of the texts that p has stored.
Got(p) == Elements(received[p])

\* The texts of p that have been queued, or were given up with the process.
Queued(p) == IF main[p] = Prompt THEN sent[p] ELSE sent[p] - 1

\* Nobody has restarted or added a contact again.
Undisturbed == budget.restarts = MaxRestarts /\ budget.readds = MaxReadds

\* `send` is about to start a rotation.
Rotating(p) == main[p].at \in {"rotate", "request"}

\* The other clients are as before, and p generates at most one key.
Steady(p) ==
    /\ \A q \in Peers \ {p} :
           /\ contact'[q] = contact[q] /\ main'[q] = main[q] /\ keys'[q] = keys[q]
           /\ sent'[q] = sent[q] /\ received'[q] = received[q]
    /\ \/ keys'[p] = keys[p] /\ main'[p].eph \in {main[p].eph, None}
       \/ keys'[p] = keys[p] + 1 /\ main'[p].eph \in {main[p].eph, None, FreshKey(p)}
    /\ Queued(p) <= Queued(p)'
    /\ main'[p] # Prompt => main[p] # Prompt \/ contact[p].complete
    /\ Undisturbed' => Undisturbed
    /\ Rotating(p)' =>
           \/ Rotating(p)
           \/ Interval[p] > 0 /\ contact[p].pfsState = "IDLE" /\ contact'[p] = contact[p]

\* The contact keeps its session; it may cease to listen on the old mailbox.
Kept(p) ==
    /\ contact'[p].tx = contact[p].tx /\ contact'[p].rx = contact[p].rx
    /\ contact'[p].complete = contact[p].complete
    /\ contact'[p].oldRx \in {contact[p].oldRx, None}

\* The contact is added again.
Reset(p) ==
    /\ contact'[p].tx = DerivePairwiseMailboxes(p).tx
    /\ contact'[p].rx = DerivePairwiseMailboxes(p).rx
    /\ contact'[p].oldRx = None
    /\ main'[p] = Prompt
    /\ ~Undisturbed'

Quiet(p) ==
    /\ AddsNone(p) /\ received'[p] = received[p]
    /\ Kept(p) /\ contact'[p].pending = contact[p].pending
    /\ contact'[p].pfsState = contact[p].pfsState

\* A restart forgets the pending key, adding a contact the session too.
Forgets(p) ==
    /\ AddsNone(p) /\ received'[p] = received[p]
    /\ Kept(p) \/ Reset(p)
    /\ contact'[p].pending = None
    /\ ~Undisturbed'

Asks(p) ==
    \E g \in Frame :
        /\ Adds(p, g) /\ received'[p] = received[p]
        /\ Kept(p) \/ Reset(p)
        /\ g.to = contact'[p].tx /\ g.body.op = "ROTATE_REQUEST"
        /\ contact'[p].pending = g.body.eph
        /\ contact'[p].pfsState = "ROTATION_REQUESTED"
        /\ \/ /\ g.body.eph = FreshKey(p) /\ keys'[p] = keys[p] + 1 /\ main'[p] = main[p]
              /\ p = Initiator
              /\ Undisturbed' => contact[p].pfsState = "IDLE" /\ ~contact[p].complete
           \/ g.body.eph = main[p].eph /\ main'[p].eph = None /\ main[p].at = "request"

Sends(p) ==
    \E g \in Frame :
        /\ Adds(p, g) /\ received'[p] = received[p]
        /\ contact'[p] = contact[p]
        /\ g.to = contact[p].tx /\ g.body.op = "TEXT" /\ g.body.id = sent[p]
        /\ main[p].at = "send" /\ main'[p] = Prompt /\ sent'[p] = sent[p]

Takes(p, f) ==
    /\ f.body.op = "TEXT" /\ f.to \in Listen(p)
    /\ received'[p] = Append(received[p], f.body.id)
    /\ Kept(p) /\ contact'[p].pending = contact[p].pending
    /\ contact'[p].pfsState = contact[p].pfsState
    /\ f.to # contact[p].oldRx => contact'[p].oldRx = None
    /\ \E g \in Frame :
           /\ Adds(p, g) /\ g.to = contact[p].tx
           /\ g.body.op = "RECEIPT" /\ g.body.id = f.body.id

\* p answers request f with a new key.
Answers(p, f) ==
    /\ f.body.op = "ROTATE_REQUEST" /\ f.to \in Listen(p)
    /\ received'[p] = received[p]
    /\ keys'[p] = keys[p] + 1 /\ main'[p] = main[p] /\ FreshKey(p) \in Key
    /\ contact'[p].tx = <<FreshKey(p), f.body.eph>>
    /\ contact'[p].rx = <<f.body.eph, FreshKey(p)>>
    /\ contact'[p].complete
    /\ contact'[p].oldRx \in {None, IF contact[p].complete THEN contact[p].rx
                                                          ELSE contact[p].oldRx}
    /\ contact'[p].pending = contact[p].pending
    /\ contact'[p].pfsState \in {contact[p].pfsState, "IDLE"}
    /\ ~contact[p].complete => p # Initiator
    /\ \E g \in Frame :
           /\ Adds(p, g) /\ g.to = contact[p].tx /\ g.body.op = "ROTATE_ACK"
           /\ g.body.req = f.body.eph /\ g.body.eph = FreshKey(p)

\* p installs the session that f, the answer to its request, completes.
Installs(p, f) ==
    /\ f.body.op = "ROTATE_ACK" /\ f.to \in Listen(p)
    /\ f.body.req = contact[p].pending /\ contact[p].pfsState = "ROTATION_REQUESTED"
    /\ AddsNone(p) /\ received'[p] = received[p] /\ main'[p] = main[p] /\ keys'[p] = keys[p]
    /\ contact'[p].tx = <<f.body.req, f.body.eph>>
    /\ contact'[p].rx = <<f.body.eph, f.body.req>>
    /\ contact'[p].complete
    /\ contact'[p].oldRx = (IF f.to = contact[p].oldRx THEN contact[p].oldRx ELSE None)
    /\ contact'[p].pending = None /\ contact'[p].pfsState = "IDLE"

Moves(p) ==
    /\ Steady(p)
    /\ \/ Quiet(p) \/ Forgets(p) \/ Asks(p) \/ Sends(p)
       \/ \E f \in Frame : down[p] # <<>> /\ f = Head(down[p]) /\ down' = [down EXCEPT ![p] = Tail(@)]
              /\ (Takes(p, f) \/ Answers(p, f) \/ Installs(p, f))

\* A handler outside the main thread changes the contact and takes at most one key.
LEMMA HandlerSteady ==
    ASSUME TypeInv, NEW p \in Peers, UNCHANGED <<main, sent, received>>,
           \A q \in Peers \ {p} : contact'[q] = contact[q] /\ keys'[q] = keys[q],
           keys'[p] = keys[p] \/ keys'[p] = keys[p] + 1,
           Undisturbed' => Undisturbed
    PROVE  Steady(p)
<1>1. sent[p] \in Nat
  BY SessionAssumption, SMTT(30) DEF TypeInv, TypeOK
<1>2. Queued(p)' = Queued(p)
  BY Zenon DEF Queued
<1>3. Queued(p) <= Queued(p)'
  <2>1. Queued(p) <= Queued(p)
    BY <1>1, SMTT(30) DEF Queued
  <2> QED
    BY <1>2, <2>1, Zenon
<1>4. \A q \in Peers : main'[q] = main[q] /\ sent'[q] = sent[q] /\ received'[q] = received[q]
  BY Zenon
<1> QED
  BY <1>3, <1>4, Zenon DEF Steady, Rotating

LEMMA MaybeStartEffect ==
    ASSUME TypeInv, NEW p \in Peers, NEW c \in Contact, NEW connected,
           MaybeStartInitialPfs(p, c, connected)
    PROVE  \/ contact' = [contact EXCEPT ![p] = c] /\ UNCHANGED <<keys, outbox>>
           \/ /\ \E g \in Frame : /\ Enqueue(p, g) /\ g.to = c.tx
                                  /\ g.body.op = "ROTATE_REQUEST" /\ g.body.eph = FreshKey(p)
              /\ keys' = [keys EXCEPT ![p] = @ + 1]
              /\ contact' = [contact EXCEPT ![p] = Requested(c, FreshKey(p))]
              /\ ~c.complete /\ c.pfsState = "IDLE" /\ p = Initiator
<1> DEFINE starts == connected /\ ~c.complete /\ c.pfsState = "IDLE"
                        /\ IsInitialPfsInitiator(p)
           g == Push(c.tx, c.tx, RotateRequest(FreshKey(p)))
<1>1. CASE starts
  <2>1. /\ keys[p] < MaxKeys /\ keys' = [keys EXCEPT ![p] = @ + 1]
        /\ Enqueue(p, g) /\ contact' = [contact EXCEPT ![p] = Requested(c, FreshKey(p))]
    BY <1>1, Zenon DEF MaybeStartInitialPfs
  <2>2. g \in Frame
    BY <2>1, FreshKeyType, FrameTypes, Zenon DEF TypeInv, Contact
  <2>3. g.to = c.tx /\ g.body.op = "ROTATE_REQUEST" /\ g.body.eph = FreshKey(p)
    BY Zenon DEF Push, RotateRequest
  <2> HIDE DEF g
  <2>4. \E h \in Frame : /\ Enqueue(p, h) /\ h.to = c.tx
                         /\ h.body.op = "ROTATE_REQUEST" /\ h.body.eph = FreshKey(p)
    BY <2>1, <2>2, <2>3, Zenon
  <2> QED
    BY <1>1, <2>1, <2>4, Zenon DEF IsInitialPfsInitiator
<1>2. CASE ~starts
  BY <1>2, ZenonT(30) DEF MaybeStartInitialPfs
<1> QED
  BY <1>1, <1>2, Zenon

LEMMA RequestedFields ==
    ASSUME NEW c \in Contact, NEW k \in Key
    PROVE  /\ Requested(c, k).tx = c.tx /\ Requested(c, k).rx = c.rx
           /\ Requested(c, k).oldRx = c.oldRx /\ Requested(c, k).complete = c.complete
           /\ Requested(c, k).pending = k
           /\ Requested(c, k).pfsState = "ROTATION_REQUESTED"
           /\ Counted(c).tx = c.tx /\ Counted(c).rx = c.rx /\ Counted(c).oldRx = c.oldRx
           /\ Counted(c).complete = c.complete /\ Counted(c).pending = c.pending
           /\ Counted(c).pfsState = c.pfsState
  BY Zenon DEF Requested, Counted, Contact

\* MaybeStartInitialPfs on the contact as it is, or as a handler of p has it.
LEMMA StartMoves ==
    ASSUME TypeInv, NEW p \in Peers, NEW c \in Contact, NEW connected,
           MaybeStartInitialPfs(p, c, connected),
           c.tx = contact[p].tx, c.rx = contact[p].rx, c.complete = contact[p].complete,
           c.oldRx \in {contact[p].oldRx, None}, c.pending = contact[p].pending,
           c.pfsState = contact[p].pfsState,
           UNCHANGED <<main, sent, received, budget>>,
           outbox' = outbox => AddsNone(p),
           \A g \in Frame : Enqueue(p, g) => Adds(p, g)
    PROVE  Moves(p)
<1>1. contact \in [Peers -> Contact] /\ keys \in [Peers -> 0 .. MaxKeys]
  BY Zenon DEF TypeInv, TypeOK
<1>2. CASE contact' = [contact EXCEPT ![p] = c] /\ UNCHANGED <<keys, outbox>>
  <2>1. contact'[p] = c /\ \A q \in Peers \ {p} : contact'[q] = contact[q]
    BY <1>1, <1>2, Zenon
  <2>2. Steady(p)
    BY <1>2, <2>1, HandlerSteady, Zenon DEF Undisturbed
  <2> QED
    BY <1>2, <2>1, <2>2, Zenon DEF Moves, Quiet, Kept
<1>3. ASSUME NEW g \in Frame, Enqueue(p, g), g.to = c.tx, g.body.op = "ROTATE_REQUEST",
             g.body.eph = FreshKey(p), keys' = [keys EXCEPT ![p] = @ + 1],
             contact' = [contact EXCEPT ![p] = Requested(c, FreshKey(p))],
             ~c.complete, c.pfsState = "IDLE", p = Initiator
      PROVE  Moves(p)
  <2>1. FreshKey(p) \in Key
    BY <1>3, BodyTypes, Zenon
  <2>2. contact'[p] = Requested(c, FreshKey(p)) /\ keys'[p] = keys[p] + 1
    BY <1>1, <1>3, Zenon
  <2>3. Steady(p)
    <3>1. \A q \in Peers \ {p} : contact'[q] = contact[q] /\ keys'[q] = keys[q]
      BY <1>1, <1>3, Zenon
    <3> QED
      BY <2>2, <3>1, HandlerSteady, Zenon DEF Undisturbed
  <2>4. Kept(p) /\ contact'[p].pending = FreshKey(p) /\ contact'[p].tx = c.tx
        /\ contact'[p].pfsState = "ROTATION_REQUESTED"
    BY <2>1, <2>2, RequestedFields DEF Kept
  <2>5. Asks(p)
    BY <1>3, <2>2, <2>4, Zenon DEF Asks
  <2> QED
    BY <2>3, <2>5, Zenon DEF Moves
<1> QED
  BY <1>2, <1>3, MaybeStartEffect, Zenon

LEMMA ConnectMoves ==
    ASSUME TypeInv, NEW p \in Peers, HandleConnect(p) \/ HandleSendRefused(p)
    PROVE  Moves(p)
<1>1. /\ \E connected : MaybeStartInitialPfs(p, contact[p], connected)
      /\ UNCHANGED <<main, sent, received, budget, down, relay>>
  BY Zenon DEF HandleConnect, HandleSendRefused, historyVars
<1>2. contact[p] \in Contact /\ QueueTypes
  BY Zenon DEF TypeInv, TypeOK, QueueTypes
<1>3. outbox' = outbox => AddsNone(p)
  BY <1>1, Zenon DEF AddsNone, Transit, Untouched
<1>4. \A g \in Frame : Enqueue(p, g) => Adds(p, g)
  BY <1>1, <1>2, EnqueueAdds, Zenon
<1> QED
  BY <1>1, <1>2, <1>3, <1>4, StartMoves, Zenon

LEMMA AddContactMoves ==
    ASSUME TypeInv, NEW p \in Peers, HandleAddContact(p)
    PROVE  Moves(p)
<1> DEFINE c == BootstrapContact(p)
<1>1. /\ MaybeStartInitialPfs(p, c, link[p] # "none")
      /\ UNCHANGED <<main, sent, received, down, relay>> /\ main[p] = Prompt
      /\ budget.readds > 0 /\ budget' = [budget EXCEPT !.readds = @ - 1]
  BY Zenon DEF HandleAddContact, historyVars
<1>2. /\ c \in Contact /\ QueueTypes /\ contact \in [Peers -> Contact]
      /\ keys \in [Peers -> 0 .. MaxKeys]
  BY PeerTypes, Zenon DEF TypeInv, TypeOK, QueueTypes
<1>3. /\ c.tx = DerivePairwiseMailboxes(p).tx /\ c.rx = DerivePairwiseMailboxes(p).rx
      /\ c.oldRx = None /\ c.pending = None
  BY Zenon DEF BootstrapContact
<1> HIDE DEF c
<1>4. ~Undisturbed'
  <2>1. budget.readds \in 0 .. MaxReadds /\ budget'.readds = budget.readds - 1
    BY <1>1, SMTT(30) DEF TypeInv, TypeOK
  <2> QED
    BY <2>1, SessionAssumption DEF Undisturbed
<1>5. CASE contact' = [contact EXCEPT ![p] = c] /\ UNCHANGED <<keys, outbox>>
  <2>1. contact'[p] = c /\ Steady(p)
    <3>1. contact'[p] = c /\ \A q \in Peers \ {p} : contact'[q] = contact[q] /\ keys'[q] = keys[q]
      BY <1>2, <1>5, Zenon
    <3> QED
      BY <1>1, <1>4, <1>5, <3>1, HandlerSteady, Zenon
  <2>2. AddsNone(p)
    BY <1>1, <1>5, Zenon DEF AddsNone, Transit, Untouched
  <2>3. Reset(p)
    BY <1>1, <1>3, <1>4, <2>1, Zenon DEF Reset
  <2> QED
    BY <1>1, <1>3, <1>4, <2>1, <2>2, <2>3, Zenon DEF Moves, Forgets
<1>6. ASSUME NEW g \in Frame, Enqueue(p, g), g.to = c.tx, g.body.op = "ROTATE_REQUEST",
             g.body.eph = FreshKey(p), keys' = [keys EXCEPT ![p] = @ + 1],
             contact' = [contact EXCEPT ![p] = Requested(c, FreshKey(p))],
             ~c.complete, c.pfsState = "IDLE", p = Initiator
      PROVE  Moves(p)
  <2>1. FreshKey(p) \in Key
    BY <1>6, BodyTypes, Zenon
  <2>2. contact'[p] = Requested(c, FreshKey(p)) /\ keys'[p] = keys[p] + 1
    BY <1>2, <1>6, Zenon
  <2>3. Steady(p)
    <3>1. \A q \in Peers \ {p} : contact'[q] = contact[q] /\ keys'[q] = keys[q]
      BY <1>2, <1>6, Zenon
    <3> QED
      BY <1>1, <1>4, <2>2, <3>1, HandlerSteady, Zenon
  <2>4. /\ contact'[p].pending = FreshKey(p) /\ contact'[p].tx = c.tx
        /\ contact'[p].rx = c.rx /\ contact'[p].oldRx = c.oldRx
        /\ contact'[p].pfsState = "ROTATION_REQUESTED"
    BY <1>2, <2>1, <2>2, RequestedFields
  <2>5. Reset(p)
    BY <1>1, <1>3, <1>4, <2>4, Zenon DEF Reset
  <2>6. Adds(p, g)
    BY <1>1, <1>2, <1>6, EnqueueAdds, Zenon
  <2>7. Asks(p)
    BY <1>1, <1>4, <1>6, <2>2, <2>4, <2>5, <2>6, Zenon DEF Asks
  <2> QED
    BY <2>3, <2>7, Zenon DEF Moves
<1> QED
  BY <1>1, <1>2, <1>5, <1>6, MaybeStartEffect, Zenon

LEMMA SendMoves ==
    ASSUME TypeInv, NEW p \in Peers, HandleSend(p)
    PROVE  Moves(p)
<1>1. /\ main[p] = Prompt /\ contact[p].complete /\ sent' = [sent EXCEPT ![p] = @ + 1]
      /\ UNCHANGED <<outbox, down, relay, received, budget>>
  BY Zenon DEF HandleSend, SessionReady
<1>2. /\ contact \in [Peers -> Contact] /\ keys \in [Peers -> 0 .. MaxKeys]
      /\ main \in [Peers -> MainThreadState] /\ sent \in [Peers -> 0 .. MaxTexts]
  BY Zenon DEF TypeInv, TypeOK
<1>3. AddsNone(p)
  BY <1>1, Zenon DEF AddsNone, Transit, Untouched
<1>4. sent'[p] = sent[p] + 1 /\ sent[p] \in Nat
  BY <1>1, <1>2, SessionAssumption
<1>5. CASE RotationDue(p, contact[p])
  <2>1. /\ keys' = [keys EXCEPT ![p] = @ + 1] /\ contact' = contact
        /\ main' = [main EXCEPT ![p] = [at |-> "rotate", key |-> None, eph |-> FreshKey(p)]]
    BY <1>5, Zenon DEF HandleSend
  <2>2. /\ main'[p].eph = FreshKey(p) /\ main'[p] # Prompt /\ keys'[p] = keys[p] + 1
    BY <1>2, <2>1, Zenon DEF Prompt
  <2>3. Queued(p) <= Queued(p)'
    BY <1>1, <1>4, <2>2 DEF Queued
  <2>4. Interval[p] > 0 /\ contact[p].pfsState = "IDLE"
    BY <1>5, Zenon DEF RotationDue
  <2>5. Steady(p)
    BY <1>1, <1>2, <2>1, <2>2, <2>3, <2>4, Zenon DEF Steady, Rotating, Undisturbed
  <2> QED
    BY <1>1, <1>3, <2>1, <2>5, Zenon DEF Moves, Quiet, Kept
<1>6. CASE ~RotationDue(p, contact[p])
  <2>1. /\ keys' = keys /\ contact' = [contact EXCEPT ![p] = Counted(@)]
        /\ main' = [main EXCEPT ![p] = [at |-> "send", key |-> contact[p].tx, eph |-> None]]
    BY <1>6, Zenon DEF HandleSend
  <2>2. /\ main'[p].eph = None /\ main'[p] # Prompt /\ main'[p].at = "send"
        /\ contact'[p] = Counted(contact[p]) /\ contact[p] \in Contact
    BY <1>2, <2>1, Zenon DEF Prompt
  <2>3. Queued(p) <= Queued(p)'
    BY <1>1, <1>4, <2>2 DEF Queued
  <2>4. Steady(p)
    BY <1>1, <1>2, <2>1, <2>2, <2>3, Zenon DEF Steady, Rotating, Undisturbed
  <2>5. /\ Kept(p) /\ contact'[p].pending = contact[p].pending
        /\ contact'[p].pfsState = contact[p].pfsState
    BY <2>2, Zenon DEF Counted, Contact, Kept
  <2> QED
    BY <1>1, <1>3, <2>4, <2>5, Zenon DEF Moves, Quiet
<1> QED
  BY <1>5, <1>6, Zenon

LEMMA ReadTxKeyMoves ==
    ASSUME TypeInv, NEW p \in Peers, ReadTxKey(p)
    PROVE  Moves(p)
<1>1. /\ UNCHANGED <<contact, keys, outbox, down, relay, sent, received, budget>>
      /\ main \in [Peers -> MainThreadState] /\ main[p].at \in {"rotate", "text"}
  BY Zenon DEF ReadTxKey, TypeInv, TypeOK, historyVars
<1>2. \A q \in Peers \ {p} : main'[q] = main[q]
  BY <1>1, Zenon DEF ReadTxKey
<1>3. /\ main'[p].eph = main[p].eph /\ main'[p].at \in {"request", "send"}
      /\ main'[p].at = "request" => main[p].at = "rotate"
  BY <1>1, Zenon DEF ReadTxKey
<1>4. main[p] # Prompt /\ main'[p] # Prompt
  BY <1>1, <1>3 DEF Prompt
<1>5. sent[p] \in Nat
  BY SessionAssumption DEF TypeInv, TypeOK
<1>6. Queued(p)' = Queued(p) /\ Queued(p) <= Queued(p)'
  BY <1>1, <1>4, <1>5 DEF Queued
<1>7. Steady(p)
  BY <1>1, <1>2, <1>3, <1>4, <1>6, Zenon DEF Steady, Rotating, Undisturbed
<1>8. AddsNone(p)
  BY <1>1, Zenon DEF AddsNone, Transit, Untouched
<1> QED
  BY <1>1, <1>7, <1>8, Zenon DEF Moves, Quiet, Kept

LEMMA SendRotateRequestMoves ==
    ASSUME TypeInv, NEW p \in Peers, SendRotateRequest(p)
    PROVE  Moves(p)
<1> DEFINE g == Push(contact[p].tx, main[p].key, RotateRequest(main[p].eph))
<1>1. /\ main[p].at = "request" /\ Enqueue(p, g)
      /\ contact' = [contact EXCEPT ![p] = Counted(Requested(@, main[p].eph))]
      /\ main' = [main EXCEPT ![p] = [at |-> "text", key |-> None, eph |-> None]]
      /\ UNCHANGED <<keys, down, relay, sent, received, budget>>
  BY Zenon DEF SendRotateRequest, historyVars
<1>2. /\ main \in [Peers -> MainThreadState] /\ contact \in [Peers -> Contact]
      /\ contact[p] \in Contact /\ contact[p].tx \in Channel /\ QueueTypes
  BY Zenon DEF TypeInv, TypeOK, QueueTypes, Contact
<1>3. main[p].key \in Channel /\ main[p].eph \in Key
  BY <1>1, <1>2 DEF MainThreadState, Prompt
<1>4. g \in Frame /\ g.to = contact[p].tx /\ g.body.op = "ROTATE_REQUEST"
      /\ g.body.eph = main[p].eph
  BY <1>2, <1>3, FrameTypes, Zenon DEF Push, RotateRequest
<1> HIDE DEF g
<1>5. main'[p].eph = None /\ main'[p] # Prompt /\ main[p] # Prompt /\ main'[p].at = "text"
  BY <1>1, <1>2 DEF Prompt
<1>6. contact'[p] = Counted(Requested(contact[p], main[p].eph))
  BY <1>1, <1>2, Zenon
<1>7. Requested(contact[p], main[p].eph) \in Contact
  BY <1>2, <1>3, ContactTypes, Zenon
<1>8. /\ Kept(p) /\ contact'[p].pending = main[p].eph /\ contact'[p].tx = contact[p].tx
      /\ contact'[p].pfsState = "ROTATION_REQUESTED"
  BY <1>2, <1>3, <1>6, <1>7, RequestedFields DEF Kept
<1>9. sent[p] \in Nat
  BY SessionAssumption DEF TypeInv, TypeOK
<1>10. Queued(p) <= Queued(p)'
  BY <1>1, <1>5, <1>9 DEF Queued
<1>11. Steady(p)
  BY <1>1, <1>2, <1>5, <1>10, Zenon DEF Steady, Rotating, Undisturbed
<1>12. Adds(p, g)
  BY <1>1, <1>2, <1>4, EnqueueAdds, Zenon
<1>13. Asks(p)
  BY <1>1, <1>4, <1>5, <1>8, <1>12, Zenon DEF Asks
<1> QED
  BY <1>11, <1>13, Zenon DEF Moves

LEMMA SendTextMoves ==
    ASSUME TypeInv, NEW p \in Peers, SendText(p)
    PROVE  Moves(p)
<1> DEFINE g == Push(contact[p].tx, main[p].key, Text(sent[p]))
<1>1. /\ main[p].at = "send" /\ Enqueue(p, g) /\ main' = [main EXCEPT ![p] = Prompt]
      /\ UNCHANGED <<contact, keys, down, relay, sent, received, budget>>
  BY Zenon DEF SendText, historyVars
<1>2. /\ main \in [Peers -> MainThreadState] /\ contact[p].tx \in Channel /\ QueueTypes
  BY Zenon DEF TypeInv, TypeOK, QueueTypes, Contact
<1>3. main[p].key \in Channel /\ main[p] # Prompt
  BY <1>1, <1>2 DEF MainThreadState, Prompt
<1>4. sent[p] \in 1 .. MaxTexts
  BY <1>3, SessionAssumption, SMTT(30) DEF TypeInv, TypeOK, StoredBeforeSent
<1>5. g \in Frame /\ g.to = contact[p].tx /\ g.body.op = "TEXT" /\ g.body.id = sent[p]
  BY <1>2, <1>3, <1>4, FrameTypes, Zenon DEF Push, Text
<1> HIDE DEF g
<1>6. main'[p] = Prompt /\ main'[p].eph = None /\ main'[p].at = "prompt"
  BY <1>1, <1>2, Zenon DEF Prompt
<1>7. Queued(p) <= Queued(p)'
  BY <1>1, <1>3, <1>4, <1>6 DEF Queued
<1>8. Steady(p)
  BY <1>1, <1>2, <1>6, <1>7, Zenon DEF Steady, Rotating, Undisturbed
<1>9. Adds(p, g)
  BY <1>1, <1>2, <1>5, EnqueueAdds, Zenon
<1>10. Sends(p)
  BY <1>1, <1>5, <1>6, <1>9, Zenon DEF Sends
<1> QED
  BY <1>8, <1>10, Zenon DEF Moves

\* A step that leaves the client as it was.
LEMMA CalmMoves ==
    ASSUME TypeInv, NEW p \in Peers, AddsNone(p),
           UNCHANGED <<contact, main, keys, sent, received>>, Undisturbed' => Undisturbed
    PROVE  Moves(p)
<1>1. sent[p] \in Nat
  BY SessionAssumption DEF TypeInv, TypeOK
<1>2. Queued(p) <= Queued(p)'
  BY <1>1 DEF Queued
<1>3. Steady(p)
  BY <1>2, Zenon DEF Steady, Rotating
<1> QED
  BY <1>3, Zenon DEF Moves, Quiet, Kept

LEMMA TickMoves ==
    ASSUME TypeInv, NEW p \in Peers, Tick(p) \/ TickLost(p)
    PROVE  Moves(p)
<1>1. UNCHANGED <<contact, main, keys, sent, received, budget>>
  BY Zenon DEF Tick, TickPush, TickPoll, TickLost, historyVars
<1> QED
  BY <1>1, TickAddsNone, CalmMoves, Zenon DEF Undisturbed

LEMMA FailureMoves ==
    ASSUME TypeInv, SessionInv, NEW p \in Peers, Cut(p) \/ Restart(p)
    PROVE  Moves(p)
<1>1. /\ QueueTypes /\ contact \in [Peers -> Contact] /\ main \in [Peers -> MainThreadState]
      /\ sent[p] \in Nat
      /\ budget \in [cuts : 0 .. MaxCuts, restarts : 0 .. MaxRestarts, readds : 0 .. MaxReadds]
  BY SessionAssumption DEF TypeInv, TypeOK, QueueTypes
<1>2. /\ down' = [down EXCEPT ![p] = <<>>] /\ relay' = relay
      /\ outbox' = outbox \/ outbox' = [outbox EXCEPT ![p] = <<>>]
      /\ UNCHANGED <<keys, sent, received>>
  BY Zenon DEF Cut, Restart, historyVars
<1>3. AddsNone(p)
  <2>1. \A q \in Peers : /\ down'[q] = down[q] \/ down'[q] = <<>>
                         /\ outbox'[q] = outbox[q] \/ outbox'[q] = <<>>
    BY <1>1, <1>2, Zenon DEF QueueTypes
  <2>2. \A q \in Peers : /\ Elements(down'[q]) \subseteq Elements(down[q])
                         /\ Elements(outbox'[q]) \subseteq Elements(outbox[q])
    <3>1. Elements(<<>>) = {}
      BY DEF Elements
    <3> QED
      BY <2>1, <3>1, Zenon
  <2>3. Transit' \subseteq Transit
    BY <1>2, <2>2, Zenon DEF Transit
  <2> QED
    BY <1>2, <2>3, Zenon DEF AddsNone, Cleared
<1>4. CASE Cut(p)
  <2>1. UNCHANGED <<contact, main>> /\ budget' = [budget EXCEPT !.cuts = @ - 1]
    BY <1>4, Zenon DEF Cut
  <2>2. Undisturbed' => Undisturbed
    BY <1>1, <2>1, Zenon DEF Undisturbed
  <2> QED
    BY <1>2, <1>3, <2>1, <2>2, CalmMoves, Zenon
<1>5. CASE Restart(p)
  <2>1. /\ contact' = [contact EXCEPT ![p] = LoadedContact(disk[p])]
        /\ main' = [main EXCEPT ![p] = Prompt]
        /\ budget.restarts > 0 /\ budget' = [budget EXCEPT !.restarts = @ - 1]
    BY <1>5, Zenon DEF Restart
  <2>2. disk[p] = Persistent(contact[p])
    BY Zenon DEF SessionInv, PeerInv, DiskCurrent
  <2>3. /\ contact'[p].tx = contact[p].tx /\ contact'[p].rx = contact[p].rx
        /\ contact'[p].complete = contact[p].complete /\ contact'[p].oldRx = None
        /\ contact'[p].pending = None
    BY <1>1, <2>1, <2>2 DEF LoadedContact, Persistent
  <2>4. main'[p] = Prompt /\ main'[p].eph = None /\ main'[p].at = "prompt"
    BY <1>1, <2>1, Zenon DEF Prompt
  <2>5. ~Undisturbed'
    BY <1>1, <2>1, SessionAssumption DEF Undisturbed
  <2>6. Queued(p) <= Queued(p)'
    BY <1>1, <1>2, <2>4 DEF Queued
  <2>7. Steady(p)
    BY <1>1, <1>2, <2>1, <2>4, <2>5, <2>6, Zenon DEF Steady, Rotating
  <2> QED
    BY <1>2, <1>3, <2>3, <2>5, <2>7, Zenon DEF Moves, Forgets, Kept
<1> QED
  BY <1>4, <1>5, Zenon

LEMMA AfterPushFields ==
    ASSUME NEW c \in Contact, NEW f
    PROVE  /\ AfterPush(c, f) \in Contact
           /\ AfterPush(c, f).tx = c.tx /\ AfterPush(c, f).rx = c.rx
           /\ AfterPush(c, f).complete = c.complete /\ AfterPush(c, f).pending = c.pending
           /\ AfterPush(c, f).pfsState = c.pfsState
           /\ AfterPush(c, f).oldRx = IF UsedOldKey(c, f) THEN c.oldRx ELSE None
  BY Zenon DEF AfterPush, Contact

\* What the handlers of received frames leave alone.
LEMMA ReceivedMoves ==
    ASSUME TypeInv, NEW p \in Peers, OnFrameReceived(p)
    PROVE  Moves(p)
<1> DEFINE f == Head(down[p])
           c == AfterPush(contact[p], f)
<1>1. /\ down[p] # <<>> /\ down' = [down EXCEPT ![p] = Tail(@)] /\ UNCHANGED <<relay, budget>>
      /\ QueueTypes /\ contact \in [Peers -> Contact] /\ keys \in [Peers -> 0 .. MaxKeys]
      /\ contact[p] \in Contact /\ received \in [Peers -> Seq(1 .. MaxTexts)]
      /\ sent[p] \in Nat
  <2>1. down[p] # <<>> /\ down' = [down EXCEPT ![p] = Tail(@)] /\ UNCHANGED <<relay, budget>>
    BY Zenon DEF OnFrameReceived
  <2>2. sent[p] \in Nat
    BY SessionAssumption DEF TypeInv, TypeOK
  <2> QED
    BY <2>1, <2>2, Zenon DEF TypeInv, TypeOK, QueueTypes
<1>2. f \in Frame
  BY <1>1, ElementsOf, Zenon DEF QueueTypes
<1>3. /\ outbox' = outbox => AddsNone(p)
      /\ \A g \in Frame : Enqueue(p, g) => Adds(p, g)
  BY <1>1, ReceiveAdds, Zenon
<1>4. \/ DropFrame(p, f)
      \/ ProcessAckFrame(p, f)
      \/ Listening(contact[p], f) /\ HandleTextMessage(p, c, f)
      \/ Listening(contact[p], f) /\ HandlePfsRotateRequest(p, c, f)
      \/ Listening(contact[p], f) /\ HandlePfsRotateAck(p, c, f)
  BY Zenon DEF OnFrameReceived, ProcessPushFrame
<1>5. /\ c \in Contact /\ c.tx = contact[p].tx /\ c.rx = contact[p].rx
      /\ c.complete = contact[p].complete /\ c.pending = contact[p].pending
      /\ c.pfsState = contact[p].pfsState
      /\ c.oldRx = IF UsedOldKey(contact[p], f) THEN contact[p].oldRx ELSE None
  BY <1>1, AfterPushFields, Zenon
<1>6. f.to \in Channel /\ f.to # None
  BY <1>2, BodyTypes, KeyTypes, Zenon
<1>7. UsedOldKey(contact[p], f) <=> f.to = contact[p].oldRx
  BY <1>6, Zenon DEF UsedOldKey
<1>8. Listening(contact[p], f) => f.to \in Listen(p)
  BY <1>6, Zenon DEF Listening, Listen
<1> HIDE DEF f, c
<1>9. CASE DropFrame(p, f) \/ ProcessAckFrame(p, f)
  <2>1. UNCHANGED <<contact, main, keys, sent, received, outbox>>
    BY <1>9, Zenon DEF DropFrame, ProcessAckFrame, clientVars, historyVars
  <2> QED
    BY <1>1, <1>3, <2>1, CalmMoves, Zenon DEF Undisturbed
<1>10. CASE Listening(contact[p], f) /\ HandleTextMessage(p, c, f)
  <2>1. /\ f.body.op = "TEXT" /\ contact' = [contact EXCEPT ![p] = c]
        /\ UNCHANGED <<keys, main, sent>>
    BY <1>10, Zenon DEF HandleTextMessage
  <2>2. contact'[p] = c
    BY <1>1, <2>1, Zenon
  <2>3. \A q \in Peers \ {p} : received'[q] = received[q]
    BY <1>1, <1>10, Zenon DEF HandleTextMessage
  <2>4. Queued(p) <= Queued(p)'
    BY <1>1, <2>1 DEF Queued
  <2>5. Steady(p)
    BY <1>1, <2>1, <2>3, <2>4, Zenon DEF Steady, Rotating, Undisturbed
  <2>6. /\ Kept(p) /\ contact'[p].pending = contact[p].pending
        /\ contact'[p].pfsState = contact[p].pfsState
        /\ f.to # contact[p].oldRx => contact'[p].oldRx = None
    BY <1>5, <1>7, <2>2, Zenon DEF Kept
  <2>7. CASE c.complete
    <3> DEFINE g == ReceiptFor(c, f.body.id)
    <3>1. /\ received' = [received EXCEPT ![p] = Append(@, f.body.id)] /\ Enqueue(p, g)
      BY <1>10, <2>7, Zenon DEF HandleTextMessage
    <3>2. c.tx \in Channel /\ f.body.id \in 1 .. MaxTexts
      BY <1>2, <1>5, <2>1, BodyTypes, Zenon DEF Contact
    <3>3. /\ g \in Frame /\ g.to = contact[p].tx
          /\ g.body.op = "RECEIPT" /\ g.body.id = f.body.id
      BY <1>5, <3>2, FrameTypes, Zenon DEF ReceiptFor, Ack, Receipt
    <3> HIDE DEF g
    <3>4. Adds(p, g) /\ received'[p] = Append(received[p], f.body.id)
      BY <1>1, <1>3, <3>1, <3>3, Zenon
    <3>5. Takes(p, f)
      BY <1>8, <1>10, <2>1, <2>6, <3>3, <3>4, Zenon DEF Takes
    <3> QED
      BY <1>1, <1>2, <2>5, <3>5, Zenon DEF Moves, f
  <2>8. CASE ~c.complete
    <3>1. received' = received /\ outbox' = outbox
      BY <1>10, <2>8, Zenon DEF HandleTextMessage
    <3> QED
      BY <1>3, <2>5, <2>6, <3>1, Zenon DEF Moves, Quiet
  <2> QED
    BY <2>7, <2>8, Zenon
<1>11. CASE Listening(contact[p], f) /\ HandlePfsRotateRequest(p, c, f)
  <2>1. UNCHANGED <<main, sent, received>> /\ f.body.op = "ROTATE_REQUEST"
    BY <1>11, Zenon DEF HandlePfsRotateRequest, historyVars
  <2>2. CASE ~c.complete /\ IsInitialPfsInitiator(p)
    <3>1. MaybeStartInitialPfs(p, c, link[p] # "none")
      BY <1>11, <2>2, Zenon DEF HandlePfsRotateRequest
    <3> QED
      BY <1>1, <1>3, <1>5, <2>1, <3>1, StartMoves, Zenon
  <2>3. CASE ~(~c.complete /\ IsInitialPfsInitiator(p))
    <3> DEFINE mine == FreshKey(p)
               theirs == f.body.eph
               kept == IF c.complete THEN [c EXCEPT !.oldRx = c.rx]
                                     ELSE [c EXCEPT !.complete = TRUE, !.pfsState = "IDLE"]
               new == WithSession(kept, mine, theirs)
               g == Push(c.tx, c.tx, RotateAck(theirs, mine))
    <3>1. /\ keys[p] < MaxKeys /\ keys' = [keys EXCEPT ![p] = @ + 1]
          /\ Enqueue(p, g) /\ contact' = [contact EXCEPT ![p] = new]
      BY <1>11, <2>3, Zenon DEF HandlePfsRotateRequest
    <3>2. mine \in Key /\ theirs \in Key /\ c.tx \in Channel
      BY <1>2, <1>5, <2>1, <3>1, FreshKeyType, BodyTypes, Zenon DEF Contact, TypeInv
    <3>3. /\ kept \in Contact /\ kept.complete /\ kept.pending = c.pending
          /\ kept.pfsState \in {c.pfsState, "IDLE"}
          /\ kept.oldRx = IF c.complete THEN c.rx ELSE c.oldRx
      BY <1>5, Zenon DEF Contact
    <3>4. /\ g \in Frame /\ g.to = contact[p].tx /\ g.body.op = "ROTATE_ACK"
          /\ g.body.req = theirs /\ g.body.eph = mine
      BY <1>5, <3>2, FrameTypes, Zenon DEF Push, RotateAck
    <3> HIDE DEF kept, g, mine
    <3>5. /\ new.tx = <<mine, theirs>> /\ new.rx = <<theirs, mine>> /\ new.complete
          /\ new.oldRx = kept.oldRx /\ new.pending = kept.pending
          /\ new.pfsState = kept.pfsState
      BY <3>3, Zenon DEF WithSession, Contact
    <3> HIDE DEF new
    <3>6. contact'[p] = new /\ keys'[p] = keys[p] + 1
      BY <1>1, <3>1, Zenon
    <3>7. Queued(p) <= Queued(p)'
      BY <1>1, <2>1 DEF Queued
    <3>8. Steady(p)
      BY <1>1, <2>1, <3>1, <3>6, <3>7, Zenon DEF Steady, Rotating, Undisturbed
    <3>9. contact'[p].oldRx \in {None, IF contact[p].complete THEN contact[p].rx
                                                            ELSE contact[p].oldRx}
      BY <1>5, <3>3, <3>5, <3>6, Zenon
    <3>10. Adds(p, g)
      BY <1>3, <3>1, <3>4, Zenon
    <3>11. Answers(p, f)
      BY <1>5, <1>8, <1>11, <2>1, <2>3, <3>2, <3>3, <3>4, <3>5, <3>6, <3>9, <3>10, Zenon
         DEF Answers, IsInitialPfsInitiator, mine
    <3> QED
      BY <1>1, <1>2, <3>8, <3>11, Zenon DEF Moves, f
  <2> QED
    BY <2>2, <2>3, Zenon
<1>12. CASE Listening(contact[p], f) /\ HandlePfsRotateAck(p, c, f)
  <2>1. /\ UNCHANGED <<keys, outbox, main, sent, received>> /\ f.body.op = "ROTATE_ACK"
    BY <1>12, Zenon DEF HandlePfsRotateAck, historyVars
  <2>2. Queued(p) <= Queued(p)'
    BY <1>1, <2>1 DEF Queued
  <2>3. CASE AckAccepted(c, f)
    <3> DEFINE new == [WithSession(c, c.pending, f.body.eph)
                          EXCEPT !.pfsState = "IDLE", !.pending = None, !.complete = TRUE]
    <3>1. contact' = [contact EXCEPT ![p] = new]
      BY <1>12, <2>3, Zenon DEF HandlePfsRotateAck
    <3>2. c.pending = f.body.req /\ c.pfsState = "ROTATION_REQUESTED"
      BY <2>3, Zenon DEF AckAccepted
    <3>3. /\ new.tx = <<f.body.req, f.body.eph>> /\ new.rx = <<f.body.eph, f.body.req>>
          /\ new.complete /\ new.oldRx = c.oldRx /\ new.pending = None /\ new.pfsState = "IDLE"
      BY <1>5, <3>2, Zenon DEF WithSession, Contact
    <3> HIDE DEF new
    <3>4. contact'[p] = new
      BY <1>1, <3>1, Zenon
    <3>5. Steady(p)
      BY <1>1, <2>1, <2>2, <3>1, Zenon DEF Steady, Rotating, Undisturbed
    <3>6. Installs(p, f)
      BY <1>3, <1>5, <1>7, <1>8, <1>12, <2>1, <3>2, <3>3, <3>4, Zenon DEF Installs
    <3> QED
      BY <1>1, <1>2, <3>5, <3>6, Zenon DEF Moves, f
  <2>4. CASE ~AckAccepted(c, f)
    <3>1. contact' = [contact EXCEPT ![p] = c]
      BY <1>12, <2>4, Zenon DEF HandlePfsRotateAck
    <3>2. contact'[p] = c
      BY <1>1, <3>1, Zenon
    <3>3. Steady(p)
      BY <1>1, <2>1, <2>2, <3>1, Zenon DEF Steady, Rotating, Undisturbed
    <3> QED
      BY <1>3, <1>5, <2>1, <3>2, <3>3, Zenon DEF Moves, Quiet, Kept
  <2> QED
    BY <2>3, <2>4, Zenon
<1> QED
  BY <1>4, <1>9, <1>10, <1>11, <1>12, Zenon

\* Every step is a move of some client.
LEMMA NextMoves == TypeInv /\ SessionInv /\ [Next]_vars => \E p \in Peers : Moves(p)
<1> SUFFICES ASSUME TypeInv, SessionInv, [Next]_vars PROVE \E p \in Peers : Moves(p)
  BY Zenon
<1>1. CASE UNCHANGED vars
  <2>1. /\ UNCHANGED <<contact, main, keys, sent, received, outbox, down, relay, budget>>
    BY <1>1, Zenon DEF vars, clientVars, historyVars
  <2>2. AddsNone(Initiator)
    BY <2>1, Zenon DEF AddsNone, Transit, Untouched
  <2> QED
    BY <2>1, <2>2, CalmMoves, Zenon DEF Undisturbed, Peers
<1>2. ASSUME NEW p \in Peers,
             \/ MainThread(p) \/ Tick(p) \/ OnFrameReceived(p)
             \/ TickLost(p) \/ Cut(p) \/ Restart(p)
      PROVE  Moves(p)
  BY <1>2, ConnectMoves, AddContactMoves, SendMoves, ReadTxKeyMoves, SendRotateRequestMoves,
     SendTextMoves, TickMoves, ReceivedMoves, FailureMoves, Zenon DEF MainThread
<1> QED
  BY <1>1, <1>2, Zenon DEF Next
=============================================================================
