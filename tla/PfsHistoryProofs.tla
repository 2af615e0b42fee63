-------------------------- MODULE PfsHistoryProofs --------------------------
(***************************************************************************)
(* What a client shows its user is true, and a session that one side       *)
(* rotates stays common to both.  The invariants are about the moves of    *)
(* PfsSessionProofs (what a step does to one contact record and to the     *)
(* frames in transit) and about the order of texts in the queues.          *)
(***************************************************************************)
EXTENDS PfsSessionProofs

-----------------------------------------------------------------------------
(* Whose keys and frames are whose. *)

\* Key k has been generated, and not only for a request still to be sent.
Known(k) == k[2] <= keys[k[1]] /\ k # main[k[1]].eph

\* A channel on which p sends.
From(ch, p) ==
    /\ ch \in Channel /\ ch[1][1] = p /\ ch[2][1] = Other(p)
    /\ Known(ch[1]) /\ Known(ch[2])

SessionOwn(p) == From(contact[p].tx, p) /\ contact[p].rx = Mirror(contact[p].tx)

OldOwn(p) ==
    contact[p].oldRx # None =>
        /\ From(contact[p].oldRx, Other(p)) /\ ~IsBootstrap(contact[p].oldRx)
        /\ contact[p].complete

\* The pending key is in no session of p.
PendingOwn(p) ==
    contact[p].pending # None =>
        /\ contact[p].pending[1] = p /\ Known(contact[p].pending)
        /\ contact[p].tx[1] # contact[p].pending
        /\ contact[p].oldRx # None => contact[p].oldRx[2] # contact[p].pending

MainOwn(p) ==
    /\ main[p].eph # None => main[p].eph[1] = p
    /\ main[p] # Prompt => contact[p].complete

PeerOwn(p) == SessionOwn(p) /\ OldOwn(p) /\ PendingOwn(p) /\ MainOwn(p)

Sender(f) == f.to[1][1]

FrameOwn(f) ==
    /\ From(f.to, Sender(f))
    /\ f.body.op = "ROTATE_REQUEST" => f.body.eph[1] = Sender(f) /\ Known(f.body.eph)
    /\ f.body.op = "ROTATE_ACK" =>
           /\ f.body.eph[1] = Sender(f) /\ Known(f.body.eph)
           /\ f.body.req[1] = Other(Sender(f)) /\ Known(f.body.req)
    /\ f.body.op = "RECEIPT" => f.body.id \in Got(Sender(f))
    /\ f.body.op = "TEXT" => f.body.id <= Queued(Sender(f)) /\ ~IsBootstrap(f.to)

OwnInv ==
    /\ \A p \in Peers : PeerOwn(p)
    /\ \A f \in Transit : FrameOwn(f)
    /\ \A p \in Peers : \A id \in Got(p) : id <= Queued(Other(p))

LEMMA OthersOther == \A p \in Peers : Other(p) \in Peers /\ Other(p) # p /\ Other(Other(p)) = p
  BY SessionAssumption DEF Peers, Other

LEMMA MainTypes ==
    ASSUME TypeInv, SessionInv, NEW p \in Peers
    PROVE  /\ keys[p] \in Nat /\ sent[p] \in Nat /\ Queued(p) \in Nat
           /\ main[p].eph \in Key \cup {None}
           /\ main[p].eph # None => main[p].eph[2] \in 1 .. keys[p]
           /\ received[p] \in Seq(1 .. MaxTexts) /\ Got(p) \subseteq 1 .. MaxTexts
<1>1. keys[p] \in Nat /\ sent[p] \in Nat /\ received[p] \in Seq(1 .. MaxTexts)
  BY SessionAssumption DEF TypeInv, TypeOK
<1>2. main[p] \in MainThreadState
  BY Zenon DEF TypeInv, TypeOK
<1>3. main[p].eph \in Key \cup {None}
  BY <1>2 DEF MainThreadState, Prompt
<1>4. main[p].eph # None => main[p].eph[2] \in 1 .. keys[p]
  BY Zenon DEF SessionInv, PeerInv, KeysFresh, FreshFor
<1>5. Queued(p) \in Nat
  BY <1>1 DEF Queued, TypeInv, StoredBeforeSent
<1>6. Got(p) \subseteq 1 .. MaxTexts
  BY <1>1, ElementsOf, Zenon DEF Got
<1> QED
  BY <1>1, <1>3, <1>4, <1>5, <1>6, Zenon

LEMMA KnownKept ==
    ASSUME TypeInv, SessionInv, NEW p \in Peers, Steady(p), NEW k \in Key, Known(k)
    PROVE  Known(k)'
<1>1. k[1] \in Peers /\ k[2] \in Nat /\ k # None
  BY KeyTypes, Zenon
<1>2. CASE k[1] # p
  BY <1>1, <1>2, Zenon DEF Steady, Known
<1>3. CASE k[1] = p
  <2>1. k[2] <= keys[p] /\ k # main[p].eph /\ keys[p] \in Nat
    BY <1>3, MainTypes, Zenon DEF Known
  <2>2. k # FreshKey(p)
    BY <2>1, <1>1 DEF FreshKey
  <2>3. keys'[p] = keys[p] \/ keys'[p] = keys[p] + 1
    BY Zenon DEF Steady
  <2>4. k[2] <= keys'[p]
    BY <1>1, <2>1, <2>3
  <2>5. k # main'[p].eph
    BY <1>1, <2>1, <2>2, Zenon DEF Steady
  <2> QED
    BY <1>3, <2>4, <2>5, Zenon DEF Known
<1> QED
  BY <1>2, <1>3, Zenon

LEMMA FromKept ==
    ASSUME TypeInv, SessionInv, NEW p \in Peers, Steady(p), NEW ch, NEW q \in Peers, From(ch, q)
    PROVE  From(ch, q)'
<1>1. ch \in Channel /\ ch[1] \in Key /\ ch[2] \in Key
  BY KeyTypes, Zenon DEF From
<1>2. Known(ch[1])' /\ Known(ch[2])'
  BY <1>1, KnownKept, Zenon DEF From
<1> QED
  BY <1>2, Zenon DEF From

\* A key that is generated in this step was in no use.
LEMMA FreshIsNew ==
    ASSUME TypeInv, SessionInv, NEW p \in Peers, NEW k \in Key, Known(k)
    PROVE  k # FreshKey(p)
<1>1. k[1] \in Peers /\ k[2] \in Nat /\ keys[p] \in Nat
  BY KeyTypes, MainTypes, Zenon
<1> QED
  BY <1>1 DEF Known, FreshKey

LEMMA FreshThenKnown ==
    ASSUME TypeInv, SessionInv, NEW p \in Peers, keys'[p] = keys[p] + 1, main'[p] = main[p],
           NEW k \in Key, k = FreshKey(p)
    PROVE  Known(k)' /\ k[1] = p
<1>1. /\ keys[p] \in Nat
      /\ main[p].eph # None => main[p].eph[2] \in 1 .. keys[p]
  BY MainTypes, Zenon
<1>2. k[1] = p /\ k[2] = keys[p] + 1 /\ k # None
  BY KeyTypes, Zenon DEF FreshKey
<1>3. k # main[p].eph
  BY <1>1, <1>2
<1> QED
  BY <1>1, <1>2, <1>3 DEF Known

LEMMA RequestThenKnown ==
    ASSUME TypeInv, SessionInv, OwnInv, NEW p \in Peers, Steady(p), main'[p].eph = None,
           NEW k \in Key, k = main[p].eph
    PROVE  Known(k)' /\ k[1] = p
<1>1. keys[p] \in Nat /\ k[2] \in 1 .. keys[p] /\ k # None /\ k[1] = p
  BY KeyTypes, MainTypes, Zenon DEF OwnInv, PeerOwn, MainOwn
<1>2. keys'[p] = keys[p] \/ keys'[p] = keys[p] + 1
  BY Zenon DEF Steady
<1> QED
  BY <1>1, <1>2 DEF Known

\* The identity keys are known, and are no ephemeral keys.
LEMMA IdentityKnown ==
    ASSUME TypeInv, SessionInv, NEW p \in Peers
    PROVE  Identity(p) \in Key /\ Known(Identity(p))
<1>1. Identity(p) \in Key /\ Identity(p)[1] = p /\ Identity(p)[2] = 0 /\ Identity(p) # None
  BY PeerTypes, KeyTypes, Zenon DEF Identity
<1> QED
  BY <1>1, MainTypes DEF Known

LEMMA ListenFrom ==
    ASSUME OwnInv, NEW p \in Peers, NEW ch \in Listen(p)
    PROVE  From(ch, Other(p))
<1>1. SessionOwn(p) /\ OldOwn(p)
  BY Zenon DEF OwnInv, PeerOwn
<1>2. CASE ch = contact[p].rx
  <2>1. From(contact[p].tx, p) /\ ch = Mirror(contact[p].tx)
    BY <1>1, <1>2, Zenon DEF SessionOwn
  <2> QED
    BY <2>1, KeyTypes, OthersOther, Zenon DEF From, Mirror, Channel
<1>3. CASE ch # contact[p].rx
  BY <1>1, <1>3, Zenon DEF Listen, OldOwn
<1> QED
  BY <1>2, <1>3, Zenon

LEMMA ContactFields ==
    ASSUME TypeInv, NEW p \in Peers
    PROVE  /\ contact[p].tx \in Channel /\ contact[p].rx \in Channel
           /\ contact[p].oldRx \in Channel \cup {None}
           /\ contact[p].pending \in Key \cup {None}
           /\ contact[p].complete \in BOOLEAN
  BY Zenon DEF TypeInv, TypeOK, Contact

\* What a record that keeps its session, or loses it to the bootstrap session, owns.
LEMMA KeptOwn ==
    ASSUME TypeInv, SessionInv, TypeInv', SessionInv', OwnInv, NEW p \in Peers, Steady(p),
           Kept(p) \/ Reset(p)
    PROVE  SessionOwn(p)' /\ OldOwn(p)' /\ MainOwn(p)'
<1>1. PeerOwn(p) /\ contact[p].tx \in Channel
  BY ContactFields, Zenon DEF OwnInv
<1>2. SessionOwn(p)'
  <2>1. CASE Kept(p)
    <3>1. PICK ch : ch = contact[p].tx
      BY Zenon
    <3>2. From(ch, p)'
      BY <1>1, <3>1, FromKept, Zenon DEF PeerOwn, SessionOwn
    <3>3. contact'[p].tx = ch /\ contact'[p].rx = Mirror(ch)
      BY <1>1, <2>1, <3>1, Zenon DEF Kept, PeerOwn, SessionOwn
    <3> QED
      BY <3>2, <3>3, Zenon DEF SessionOwn, From, Known
  <2>2. CASE Reset(p)
    <3>1. PICK a \in Key, b \in Key : a = Identity(p) /\ b = Identity(Other(p))
      BY PeerTypes, Zenon
    <3>2. Known(a)' /\ Known(b)' /\ a[1] = p /\ b[1] = Other(p)
      BY <3>1, OthersOther, IdentityKnown, KnownKept, Zenon DEF Identity
    <3>3. contact'[p].tx = <<a, b>> /\ contact'[p].rx = Mirror(<<a, b>>)
      BY <2>2, <3>1, Zenon DEF Reset, DerivePairwiseMailboxes, Mirror
    <3> QED
      BY <3>1, <3>2, <3>3 DEF SessionOwn, From, Known, Channel
  <2> QED
    BY <2>1, <2>2, Zenon
<1>3. OldOwn(p)'
  <2>1. SUFFICES ASSUME contact'[p].oldRx # None PROVE OldOwn(p)'
    BY Zenon DEF OldOwn
  <2>2. /\ contact'[p].oldRx = contact[p].oldRx
        /\ contact'[p].complete = contact[p].complete
    BY <2>1, Zenon DEF Kept, Reset
  <2>3. PICK ch : ch = contact[p].oldRx
    BY Zenon
  <2>4. From(ch, Other(p)) /\ ~IsBootstrap(ch) /\ contact[p].complete
    BY <1>1, <2>1, <2>2, <2>3, Zenon DEF PeerOwn, OldOwn
  <2>5. From(ch, Other(p))'
    BY <2>4, FromKept, OthersOther, Zenon
  <2> QED
    BY <2>2, <2>3, <2>4, <2>5, Zenon DEF OldOwn, From, Known
<1>4. MainOwn(p)'
  <2>1. main'[p].eph # None => main'[p].eph[1] = p
    <3>1. main'[p].eph \in {main[p].eph, None, FreshKey(p)}
      BY Zenon DEF Steady
    <3> QED
      BY <1>1, <3>1 DEF PeerOwn, MainOwn, FreshKey
  <2>2. main'[p] # Prompt => contact'[p].complete
    BY <1>1, Zenon DEF PeerOwn, MainOwn, Steady, Kept, Reset
  <2> QED
    BY <2>1, <2>2, Zenon DEF MainOwn
<1> QED
  BY <1>2, <1>3, <1>4, Zenon

LEMMA OthersOwn ==
    ASSUME TypeInv, SessionInv, OwnInv, NEW p \in Peers, Steady(p), NEW q \in Peers, q # p
    PROVE  PeerOwn(q)'
<1>1. contact'[q] = contact[q] /\ main'[q] = main[q] /\ PeerOwn(q)
  BY Zenon DEF Steady, OwnInv
<1>2. SessionOwn(q)'
  <2>1. PICK ch : ch = contact[q].tx
    BY Zenon
  <2>2. From(ch, q)'
    BY <1>1, <2>1, FromKept, Zenon DEF PeerOwn, SessionOwn
  <2> QED
    BY <1>1, <2>1, <2>2, Zenon DEF PeerOwn, SessionOwn, From, Known
<1>3. OldOwn(q)'
  <2>1. SUFFICES ASSUME contact[q].oldRx # None PROVE OldOwn(q)'
    BY <1>1, Zenon DEF OldOwn
  <2>2. PICK ch : ch = contact[q].oldRx
    BY Zenon
  <2>3. From(ch, Other(q))'
    BY <1>1, <2>1, <2>2, FromKept, OthersOther, Zenon DEF PeerOwn, OldOwn
  <2> QED
    BY <1>1, <2>1, <2>2, <2>3, Zenon DEF PeerOwn, OldOwn, From, Known
<1>4. PendingOwn(q)'
  <2>1. SUFFICES ASSUME contact[q].pending # None PROVE PendingOwn(q)'
    BY <1>1, Zenon DEF PendingOwn
  <2>2. PICK k \in Key : k = contact[q].pending
    BY <2>1, ContactFields, Zenon
  <2>3. Known(k)'
    BY <1>1, <2>1, <2>2, KnownKept, Zenon DEF PeerOwn, PendingOwn
  <2> QED
    BY <1>1, <2>1, <2>2, <2>3, Zenon DEF PeerOwn, PendingOwn, Known
<1>5. MainOwn(q)'
  BY <1>1, Zenon DEF PeerOwn, MainOwn
<1> QED
  BY <1>2, <1>3, <1>4, <1>5, Zenon DEF PeerOwn

\* The channel of p that answers, or completes, a handshake.
LEMMA SessionFrom ==
    ASSUME NEW p \in Peers, NEW a \in Key, NEW b \in Key, a[1] = p, b[1] = Other(p),
           Known(a)', Known(b)', contact'[p].tx = <<a, b>>, contact'[p].rx = <<b, a>>
    PROVE  SessionOwn(p)'
  BY DEF SessionOwn, From, Known, Channel, Mirror

LEMMA PeersOwn ==
    ASSUME TypeInv, SessionInv, TypeInv', SessionInv', OwnInv, NEW p \in Peers, Moves(p)
    PROVE  \A q \in Peers : PeerOwn(q)'
<1>1. Steady(p) /\ PeerOwn(p) /\ QueueTypes
  BY Zenon DEF Moves, OwnInv, TypeInv, TypeOK, QueueTypes
<1>2. SUFFICES PeerOwn(p)'
  BY <1>1, OthersOwn, Zenon
<1>3. \/ Kept(p) /\ contact'[p].pending = contact[p].pending
      \/ contact'[p].pending = None
      => PendingOwn(p)'
  <2>1. SUFFICES ASSUME Kept(p), contact'[p].pending = contact[p].pending,
                        contact[p].pending # None
                 PROVE  PendingOwn(p)'
    BY Zenon DEF PendingOwn
  <2>2. PICK k \in Key : k = contact[p].pending
    BY <2>1, ContactFields, Zenon
  <2>3. Known(k)'
    BY <1>1, <2>1, <2>2, KnownKept, Zenon DEF PeerOwn, PendingOwn
  <2> QED
    BY <1>1, <2>1, <2>2, <2>3, Zenon DEF PeerOwn, PendingOwn, Known, Kept
<1>4. CASE Quiet(p) \/ Forgets(p) \/ Sends(p)
  <2>1. Kept(p) \/ Reset(p)
    BY <1>4, Zenon DEF Quiet, Forgets, Sends, Kept
  <2>2. PendingOwn(p)'
    BY <1>3, <1>4, <2>1, Zenon DEF Quiet, Forgets, Sends, Kept
  <2> QED
    BY <1>1, <2>1, <2>2, KeptOwn, Zenon DEF PeerOwn
<1>5. CASE Asks(p)
  <2>1. PICK g \in Frame :
           /\ Kept(p) \/ Reset(p)
           /\ g.body.op = "ROTATE_REQUEST" /\ contact'[p].pending = g.body.eph
           /\ \/ g.body.eph = FreshKey(p) /\ keys'[p] = keys[p] + 1 /\ main'[p] = main[p]
              \/ g.body.eph = main[p].eph /\ main'[p].eph = None
    BY <1>5, Zenon DEF Asks
  <2>2. PICK k \in Key : k = g.body.eph
    BY <2>1, BodyTypes, Zenon
  <2>3. Known(k)' /\ k[1] = p
    BY <1>1, <2>1, <2>2, FreshThenKnown, RequestThenKnown, Zenon
  <2>4. SessionOwn(p)' /\ OldOwn(p)' /\ MainOwn(p)'
    BY <1>1, <2>1, KeptOwn, Zenon
  <2>5. ~Known(k)
    <3>1. k = FreshKey(p) \/ k = main[p].eph
      BY <2>1, <2>2, Zenon
    <3> QED
      BY <2>3, <3>1, FreshIsNew, Zenon DEF Known
  <2>6. k[2] # 0
    <3>1. k = FreshKey(p) \/ k = main[p].eph
      BY <2>1, <2>2, Zenon
    <3> QED
      BY <3>1, MainTypes, KeyTypes DEF FreshKey
  <2>7. contact'[p].tx[1] # k
    <3>1. CASE Kept(p)
      BY <1>1, <2>5, <3>1, Zenon DEF Kept, PeerOwn, SessionOwn, From
    <3>2. CASE Reset(p)
      BY <2>6, <3>2 DEF Reset, DerivePairwiseMailboxes, Identity
    <3> QED
      BY <2>1, <3>1, <3>2, Zenon
  <2>8. contact'[p].oldRx # None => contact'[p].oldRx[2] # k
    BY <1>1, <2>1, <2>5, Zenon DEF Kept, Reset, PeerOwn, OldOwn, From
  <2>9. PendingOwn(p)'
    BY <2>1, <2>2, <2>3, <2>7, <2>8, Zenon DEF PendingOwn, Known
  <2> QED
    BY <2>4, <2>9, Zenon DEF PeerOwn
<1>6. ASSUME NEW f \in Frame, down[p] # <<>>, f = Head(down[p]),
             Takes(p, f) \/ Answers(p, f) \/ Installs(p, f)
      PROVE  PeerOwn(p)'
  <2>1. f \in Transit /\ f.to \in Listen(p) /\ FrameOwn(f)
    <3>1. f \in Elements(down[p])
      BY <1>1, <1>6, ElementsOf, Zenon DEF QueueTypes
    <3>2. f \in Transit
      BY <1>1, <3>1, InTransit, Zenon
    <3> QED
      BY <1>6, <3>2, Zenon DEF OwnInv, Takes, Answers, Installs
  <2>2. Sender(f) = Other(p)
    BY <2>1, ListenFrom, Zenon DEF From, Sender
  <2>3. CASE Takes(p, f)
    <3>1. Kept(p) /\ contact'[p].pending = contact[p].pending
      BY <2>3, Zenon DEF Takes
    <3> QED
      BY <1>1, <1>3, <3>1, KeptOwn, Zenon DEF PeerOwn
  <2>4. CASE Answers(p, f)
    <3>1. /\ keys'[p] = keys[p] + 1 /\ main'[p] = main[p] /\ f.body.op = "ROTATE_REQUEST"
          /\ contact'[p].tx = <<FreshKey(p), f.body.eph>>
          /\ contact'[p].rx = <<f.body.eph, FreshKey(p)>>
          /\ contact'[p].complete /\ FreshKey(p) \in Key
          /\ contact'[p].oldRx \in {None, IF contact[p].complete THEN contact[p].rx
                                                               ELSE contact[p].oldRx}
          /\ contact'[p].pending = contact[p].pending
      BY <2>4, Zenon DEF Answers
    <3>2. PICK a \in Key, b \in Key : a = FreshKey(p) /\ b = f.body.eph
      BY <3>1, BodyTypes, Zenon
    <3>3. Known(a)' /\ a[1] = p
      BY <3>1, <3>2, FreshThenKnown, Zenon
    <3>4. Known(b) /\ Known(b)' /\ b[1] = Other(p)
      BY <1>1, <2>1, <2>2, <3>1, <3>2, KnownKept, Zenon DEF FrameOwn
    <3>5. SessionOwn(p)'
      BY <3>1, <3>2, <3>3, <3>4, SessionFrom, Zenon
    <3>6. contact'[p].oldRx # None =>
             contact[p].complete /\ contact'[p].oldRx = contact[p].rx
      BY <1>1, <3>1, Zenon DEF PeerOwn, OldOwn
    <3>7. OldOwn(p)'
      <4>1. SUFFICES ASSUME contact'[p].oldRx # None PROVE OldOwn(p)'
        BY Zenon DEF OldOwn
      <4>2. PICK ch : ch = contact[p].rx
        BY Zenon
      <4>3. ch \in Listen(p)
        BY <4>2, ContactFields, KeyTypes, Zenon DEF Listen
      <4>4. From(ch, Other(p))'
        BY <1>1, <4>3, ListenFrom, FromKept, OthersOther, Zenon
      <4>5. ~IsBootstrap(ch)
        <5>1. ~IsBootstrap(contact[p].tx)
          BY <3>6, <4>1, Zenon DEF SessionInv, PeerInv, Protected
        <5>2. ch = Mirror(contact[p].tx)
          BY <1>1, <4>2, Zenon DEF PeerOwn, SessionOwn
        <5> QED
          BY <5>1, <5>2, Zenon DEF IsBootstrap, Mirror
      <4> QED
        BY <3>1, <3>6, <4>1, <4>2, <4>4, <4>5, Zenon DEF OldOwn, From, Known
    <3>8. PendingOwn(p)'
      <4>1. SUFFICES ASSUME contact[p].pending # None PROVE PendingOwn(p)'
        BY <3>1, Zenon DEF PendingOwn
      <4>2. PICK k \in Key : k = contact[p].pending
        BY <4>1, ContactFields, Zenon
      <4>3. Known(k) /\ k[1] = p /\ contact[p].tx[1] # k
        BY <1>1, <4>1, <4>2, Zenon DEF PeerOwn, PendingOwn
      <4>4. Known(k)' /\ k # a
        BY <1>1, <3>2, <4>3, KnownKept, FreshIsNew, Zenon
      <4>5. contact'[p].tx[1] # k
        BY <3>1, <3>2, <4>4
      <4>6. contact'[p].oldRx # None => contact'[p].oldRx[2] # k
        BY <1>1, <3>6, <4>3 DEF PeerOwn, SessionOwn, Mirror
      <4> QED
        BY <3>1, <4>2, <4>3, <4>4, <4>5, <4>6, Zenon DEF PendingOwn, Known
    <3>9. MainOwn(p)'
      BY <1>1, <3>1, Zenon DEF PeerOwn, MainOwn
    <3> QED
      BY <3>5, <3>7, <3>8, <3>9, Zenon DEF PeerOwn
  <2>5. CASE Installs(p, f)
    <3>1. /\ main'[p] = main[p] /\ f.body.op = "ROTATE_ACK" /\ f.body.req = contact[p].pending
          /\ contact'[p].tx = <<f.body.req, f.body.eph>>
          /\ contact'[p].rx = <<f.body.eph, f.body.req>>
          /\ contact'[p].complete /\ contact'[p].pending = None
          /\ contact'[p].oldRx \in {contact[p].oldRx, None}
      BY <2>5, Zenon DEF Installs
    <3>2. PICK a \in Key, b \in Key : a = f.body.req /\ b = f.body.eph
      BY <3>1, BodyTypes, Zenon
    <3>3. Known(a)' /\ a[1] = p /\ Known(b)' /\ b[1] = Other(p)
      BY <1>1, <2>1, <2>2, <3>1, <3>2, KnownKept, OthersOther, Zenon DEF FrameOwn
    <3>4. SessionOwn(p)'
      BY <3>1, <3>2, <3>3, SessionFrom, Zenon
    <3>5. OldOwn(p)'
      <4>1. SUFFICES ASSUME contact'[p].oldRx # None PROVE OldOwn(p)'
        BY Zenon DEF OldOwn
      <4>2. PICK ch : ch = contact[p].oldRx
        BY Zenon
      <4>3. contact'[p].oldRx = ch /\ ~IsBootstrap(ch) /\ From(ch, Other(p))
        BY <1>1, <3>1, <4>1, <4>2, Zenon DEF PeerOwn, OldOwn
      <4>4. From(ch, Other(p))'
        BY <1>1, <4>3, FromKept, OthersOther, Zenon
      <4> QED
        BY <3>1, <4>3, <4>4, Zenon DEF OldOwn, From, Known
    <3>6. PendingOwn(p)' /\ MainOwn(p)'
      BY <1>1, <3>1, Zenon DEF PeerOwn, PendingOwn, MainOwn
    <3> QED
      BY <3>4, <3>5, <3>6, Zenon DEF PeerOwn
  <2> QED
    BY <1>6, <2>3, <2>4, <2>5, Zenon
<1> QED
  BY <1>4, <1>5, <1>6, Zenon DEF Moves

LEMMA QueuedNext == ASSUME TypeInv', NEW p \in Peers PROVE Queued(p)' \in Nat
  BY SessionAssumption DEF Queued, TypeInv, TypeOK, StoredBeforeSent

LEMMA FrameOwnKept ==
    ASSUME TypeInv, SessionInv, NEW p \in Peers, Steady(p), Got(p) \subseteq Got(p)',
           NEW f \in Frame, FrameOwn(f), TypeInv', SessionInv'
    PROVE  FrameOwn(f)'
<1>1. Sender(f) \in Peers /\ From(f.to, Sender(f))
  BY BodyTypes, KeyTypes, Zenon DEF Sender, FrameOwn
<1>2. From(f.to, Sender(f))'
  BY <1>1, FromKept, Zenon DEF Sender
<1>3. \A q \in Peers : Got(q) \subseteq Got(q)' /\ Queued(q) <= Queued(q)'
  <2> SUFFICES ASSUME NEW q \in Peers, q # p
               PROVE  Got(q) \subseteq Got(q)' /\ Queued(q) <= Queued(q)'
    BY Zenon DEF Steady
  <2>1. main'[q] = main[q] /\ sent'[q] = sent[q] /\ received'[q] = received[q]
    BY Zenon DEF Steady
  <2>2. Queued(q)' = Queued(q) /\ Queued(q) \in Nat
    BY <2>1, MainTypes, Zenon DEF Queued
  <2> QED
    BY <2>1, <2>2 DEF Got
<1>4. f.body.op = "ROTATE_REQUEST" => Known(f.body.eph)'
  BY BodyTypes, KnownKept, Zenon DEF FrameOwn
<1>5. f.body.op = "ROTATE_ACK" => Known(f.body.eph)' /\ Known(f.body.req)'
  BY BodyTypes, KnownKept, Zenon DEF FrameOwn
<1>6. f.body.op = "TEXT" => f.body.id <= Queued(Sender(f))'
  <2>1. f.body.op = "TEXT" => f.body.id \in Nat /\ f.body.id <= Queued(Sender(f))
    BY BodyTypes, SessionAssumption DEF FrameOwn
  <2>2. Queued(Sender(f)) \in Nat /\ Queued(Sender(f))' \in Nat
        /\ Queued(Sender(f)) <= Queued(Sender(f))'
    BY <1>1, <1>3, MainTypes, QueuedNext, Zenon DEF Sender
  <2> QED
    BY <2>1, <2>2
<1>7. f.body.op = "RECEIPT" => f.body.id \in Got(Sender(f))'
  BY <1>1, <1>3, Zenon DEF FrameOwn, Sender
<1> QED
  BY <1>2, <1>4, <1>5, <1>6, <1>7, Zenon DEF FrameOwn, Sender

LEMMA TakenText ==
    ASSUME TypeInv, NEW p \in Peers, NEW f \in Frame, f.body.op = "TEXT",
           received'[p] = Append(received[p], f.body.id)
    PROVE  Got(p)' = Got(p) \cup {f.body.id}
<1>0. PICK S : S = 1 .. MaxTexts
  BY Zenon
<1>1. PICK n \in S : n = f.body.id
  BY <1>0, BodyTypes, Zenon
<1>2. PICK s \in Seq(S) : s = received[p]
  BY <1>0, Zenon DEF TypeInv, TypeOK
<1>3. Elements(Append(s, n)) = Elements(s) \cup {n}
  BY AppendedElement, SMTT(30)
<1>4. PICK t : t = received'[p]
  BY Zenon
<1>5. t = Append(s, n)
  BY <1>1, <1>2, <1>4, Zenon
<1>6. Elements(t) = Elements(s) \cup {n}
  BY <1>3, <1>5, SMTT(30)
<1> QED
  BY <1>1, <1>2, <1>4, <1>6, SMTT(30) DEF Got

\* What a client has stored, it has stored for ever.
LEMMA GotGrows ==
    ASSUME TypeInv, SessionInv, NEW p \in Peers, Moves(p)
    PROVE  \A q \in Peers : Got(q) \subseteq Got(q)'
<1>1. received'[p] = received[p] \/
         \E f \in Frame : f.body.op = "TEXT" /\ received'[p] = Append(received[p], f.body.id)
  BY Zenon DEF Moves, Quiet, Forgets, Asks, Sends, Takes, Answers, Installs
<1>2. Got(p) \subseteq Got(p)'
  <2>1. CASE received'[p] = received[p]
    BY <2>1, Zenon DEF Got
  <2>2. ASSUME NEW f \in Frame, f.body.op = "TEXT", received'[p] = Append(received[p], f.body.id)
        PROVE  Got(p) \subseteq Got(p)'
    <3>1. Got(p)' = Got(p) \cup {f.body.id}
      BY <2>2, TakenText, Zenon
    <3> QED
      BY <3>1, Zenon
  <2> QED
    BY <1>1, <2>1, <2>2, Zenon
<1>3. \A q \in Peers \ {p} : received'[q] = received[q]
  BY Zenon DEF Moves, Steady
<1> QED
  BY <1>2, <1>3 DEF Got

\* The frame that p takes from its socket comes from the other client.
LEMMA HeadOwn ==
    ASSUME TypeInv, OwnInv, NEW p \in Peers, NEW f \in Frame, down[p] # <<>>,
           f = Head(down[p]), f.to \in Listen(p)
    PROVE  f \in Transit /\ FrameOwn(f) /\ Sender(f) = Other(p)
<1>1. QueueTypes
  BY Zenon DEF TypeInv, TypeOK, QueueTypes
<1>2. f \in Elements(down[p])
  BY <1>1, ElementsOf, Zenon DEF QueueTypes
<1>3. f \in Transit
  BY <1>1, <1>2, InTransit, Zenon
<1> QED
  BY <1>3, ListenFrom, Zenon DEF OwnInv, From, Sender

LEMMA FramesOwn ==
    ASSUME TypeInv, SessionInv, TypeInv', SessionInv', OwnInv, NEW p \in Peers, Moves(p),
           NEW f \in Transit'
    PROVE  FrameOwn(f)'
<1>1. Steady(p) /\ PeerOwn(p)' /\ PeerOwn(p) /\ f \in Frame
  BY PeersOwn, Zenon DEF Moves, OwnInv, Transit
<1>2. CASE f \in Transit
  BY <1>1, <1>2, GotGrows, FrameOwnKept, Zenon DEF OwnInv
<1>3. ASSUME f \notin Transit, f.to = contact'[p].tx
      PROVE  Sender(f) = p /\ From(f.to, Sender(f))'
  BY <1>1, <1>3, Zenon DEF PeerOwn, SessionOwn, From, Known, Sender
<1>4. CASE f \notin Transit /\ Asks(p)
  <2>1. /\ f.to = contact'[p].tx /\ f.body.op = "ROTATE_REQUEST"
        /\ contact'[p].pending = f.body.eph
    BY <1>4, Zenon DEF Asks, Adds
  <2>2. f.body.eph \in Key /\ f.body.eph # None
    BY <1>1, <2>1, BodyTypes, KeyTypes, Zenon
  <2>3. f.body.eph[1] = p /\ Known(f.body.eph)'
    BY <1>1, <2>1, <2>2, Zenon DEF PeerOwn, PendingOwn, Known
  <2> QED
    BY <1>3, <1>4, <2>1, <2>3, Zenon DEF FrameOwn, Sender
<1>5. CASE f \notin Transit /\ Sends(p)
  <2>1. /\ f.to = contact'[p].tx /\ f.to = contact[p].tx
        /\ f.body.op = "TEXT" /\ f.body.id = sent[p]
        /\ main[p].at = "send" /\ main'[p] = Prompt /\ sent'[p] = sent[p]
    BY <1>5, Zenon DEF Sends, Adds
  <2>2. f.body.id <= Queued(p)'
    BY <2>1, MainTypes DEF Queued
  <2>3. ~IsBootstrap(f.to)
    <3>1. main[p] # Prompt
      BY <2>1 DEF Prompt
    <3> QED
      BY <1>1, <2>1, <3>1, Zenon DEF PeerOwn, MainOwn, SessionInv, PeerInv, Protected
  <2> QED
    BY <1>3, <1>5, <2>1, <2>2, <2>3, Zenon DEF FrameOwn, Sender
<1>6. ASSUME NEW h \in Frame, down[p] # <<>>, h = Head(down[p]), f \notin Transit,
             Takes(p, h) \/ Answers(p, h) \/ Installs(p, h)
      PROVE  FrameOwn(f)'
  <2>1. CASE Takes(p, h)
    <3>1. /\ f.to = contact'[p].tx /\ f.body.op = "RECEIPT" /\ f.body.id = h.body.id
          /\ received'[p] = Append(received[p], h.body.id) /\ h.body.op = "TEXT"
      BY <1>6, <2>1, Zenon DEF Takes, Adds, Kept
    <3>2. f.body.id \in Got(p)'
      <4>1. Got(p)' = Got(p) \cup {h.body.id}
        BY <1>6, <3>1, TakenText, Zenon
      <4> QED
        BY <3>1, <4>1, Zenon
    <3> QED
      BY <1>3, <1>6, <3>1, <3>2, Zenon DEF FrameOwn, Sender
  <2>2. CASE Answers(p, h)
    <3>1. /\ f.to = contact[p].tx /\ f.body.op = "ROTATE_ACK"
          /\ f.body.eph = contact'[p].tx[1] /\ f.body.req = contact'[p].tx[2]
      BY <1>6, <2>2 DEF Answers, Adds
    <3>2. From(f.to, p)
      BY <1>1, <3>1, Zenon DEF PeerOwn, SessionOwn
    <3>3. From(f.to, p)' /\ Sender(f) = p
      BY <1>1, <3>2, FromKept, Zenon DEF Sender, From
    <3>4. /\ Known(f.body.eph)' /\ f.body.eph[1] = p
          /\ Known(f.body.req)' /\ f.body.req[1] = Other(p)
      BY <1>1, <3>1, Zenon DEF PeerOwn, SessionOwn, From, Known
    <3> QED
      BY <3>1, <3>3, <3>4, Zenon DEF FrameOwn, Sender
  <2>3. CASE Installs(p, h)
    BY <1>6, <2>3, Zenon DEF Installs, AddsNone
  <2> QED
    BY <1>6, <2>1, <2>2, <2>3, Zenon
<1>7. CASE f \notin Transit /\ (Quiet(p) \/ Forgets(p))
  BY <1>7, Zenon DEF Quiet, Forgets, AddsNone
<1> QED
  BY <1>2, <1>4, <1>5, <1>6, <1>7, Zenon DEF Moves

LEMMA GotOwn ==
    ASSUME TypeInv, SessionInv, TypeInv', OwnInv, NEW p \in Peers, Moves(p),
           NEW q \in Peers, NEW id \in Got(q)'
    PROVE  id <= Queued(Other(q))'
<1>1. /\ Queued(Other(q)) \in Nat /\ Queued(Other(q))' \in Nat
      /\ Queued(Other(q)) <= Queued(Other(q))'
  <2>1. Other(q) \in Peers
    BY OthersOther, Zenon
  <2>2. CASE Other(q) = p
    BY <2>1, <2>2, MainTypes, QueuedNext, Zenon DEF Moves, Steady
  <2>3. CASE Other(q) # p
    <3>1. main'[Other(q)] = main[Other(q)] /\ sent'[Other(q)] = sent[Other(q)]
      BY <2>1, <2>3, Zenon DEF Moves, Steady
    <3>2. Queued(Other(q))' = Queued(Other(q))
      BY <3>1, Zenon DEF Queued
    <3> QED
      BY <2>1, <3>2, MainTypes
  <2> QED
    BY <2>2, <2>3, Zenon
<1>2. id \in Nat /\ (id \in Got(q) => id <= Queued(Other(q)))
  <2>1. received'[q] \in Seq(1 .. MaxTexts)
    BY Zenon DEF TypeInv, TypeOK
  <2>2. Got(q)' \subseteq 1 .. MaxTexts
    BY <2>1, ElementsOf, Zenon DEF Got
  <2> QED
    BY <2>2, SessionAssumption DEF OwnInv
<1>3. CASE id \in Got(q)
  BY <1>1, <1>2, <1>3
<1>4. CASE id \notin Got(q)
  <2>1. q = p
    BY <1>4, Zenon DEF Moves, Steady, Got
  <2>2. PICK f \in Frame : down[p] # <<>> /\ f = Head(down[p]) /\ Takes(p, f)
    BY <1>4, <2>1, Zenon DEF Moves, Quiet, Forgets, Asks, Sends, Answers, Installs, Got
  <2>3. /\ f.body.op = "TEXT" /\ f.to \in Listen(p)
        /\ received'[p] = Append(received[p], f.body.id)
    BY <2>2, Zenon DEF Takes
  <2>4. id = f.body.id
    <3>1. Got(p)' = Got(p) \cup {f.body.id}
      BY <2>3, TakenText, Zenon
    <3> QED
      BY <1>4, <2>1, <3>1, Zenon
  <2>5. FrameOwn(f) /\ Sender(f) = Other(p)
    BY <2>2, <2>3, HeadOwn, Zenon
  <2>6. id <= Queued(Other(q))
    BY <2>1, <2>3, <2>4, <2>5, Zenon DEF FrameOwn
  <2> QED
    BY <1>1, <1>2, <2>6
<1> QED
  BY <1>3, <1>4, Zenon

LEMMA NothingInTransit == Init => Transit = {}
  BY DEF Init, Transit, Elements

LEMMA OwnInit == Init => OwnInv
<1> SUFFICES ASSUME Init PROVE OwnInv
  BY Zenon
<1>1. TypeInv /\ SessionInv
  BY TypeInit, SessionInit, Zenon
<1>2. ASSUME NEW p \in Peers PROVE PeerOwn(p)
  <2>1. /\ contact[p].tx = <<Identity(p), Identity(Other(p))>>
        /\ contact[p].rx = <<Identity(Other(p)), Identity(p)>>
        /\ contact[p].oldRx = None /\ contact[p].pending = None
        /\ main[p] = Prompt
    BY Zenon DEF Init, BootstrapContact, DerivePairwiseMailboxes
  <2>2. /\ Identity(p) \in Key /\ Known(Identity(p))
        /\ Identity(Other(p)) \in Key /\ Known(Identity(Other(p)))
    BY <1>1, OthersOther, IdentityKnown, Zenon
  <2>3. SessionOwn(p)
    BY <2>1, <2>2 DEF SessionOwn, From, Channel, Mirror, Identity
  <2> QED
    BY <2>1, <2>3 DEF PeerOwn, OldOwn, PendingOwn, MainOwn, Prompt
<1>3. \A p \in Peers : Got(p) = {}
  BY DEF Init, Got, Elements
<1> QED
  BY <1>2, <1>3, NothingInTransit, Zenon DEF OwnInv

LEMMA OwnStep ==
    ASSUME TypeInv, SessionInv, TypeInv', SessionInv', OwnInv, NEW p \in Peers, Moves(p)
    PROVE  OwnInv'
  BY PeersOwn, FramesOwn, GotOwn, Zenon DEF OwnInv

-----------------------------------------------------------------------------
(* Receipts. *)

DeliveredInv == \A p \in Peers : delivered[p] \subseteq Got(Other(p))

\* Only ProcessAckFrame changes `delivered`.
LEMMA OnlyReceipts ==
    ASSUME TypeInv, [Next]_vars, delivered' # delivered
    PROVE  \E p \in Peers, f \in Frame :
               /\ down[p] # <<>> /\ f = Head(down[p]) /\ f.to \in Listen(p)
               /\ f.body.op = "RECEIPT"
               /\ delivered' = [delivered EXCEPT ![p] = @ \cup {f.body.id}]
<1>1. PICK p \in Peers :
         \/ MainThread(p) \/ Tick(p) \/ OnFrameReceived(p)
         \/ TickLost(p) \/ Cut(p) \/ Restart(p)
  BY Zenon DEF Next, vars, historyVars
<1>2. ~MainThread(p)
  BY Zenon DEF MainThread, HandleConnect, HandleAddContact, HandleSendRefused, HandleSend,
         ReadTxKey, SendRotateRequest, SendText, historyVars
<1>3. ~Tick(p) /\ ~TickLost(p) /\ ~Cut(p) /\ ~Restart(p)
  BY Zenon DEF Tick, TickPush, TickPoll, TickLost, Cut, Restart, historyVars
<1>4. OnFrameReceived(p)
  BY <1>1, <1>2, <1>3, Zenon
<1> DEFINE f == Head(down[p])
<1>5. down[p] # <<>> /\ down[p] \in Seq(Frame)
  BY <1>4, Zenon DEF OnFrameReceived, TypeInv, TypeOK
<1>6. f \in Frame
  BY <1>5, ElementsOf, Zenon
<1>7. Listening(contact[p], f) /\ ProcessAckFrame(p, f)
  <2>1. ~DropFrame(p, f)
    BY Zenon DEF DropFrame, historyVars
  <2>2. \A c : /\ ~HandleTextMessage(p, c, f) /\ ~HandlePfsRotateRequest(p, c, f)
               /\ ~HandlePfsRotateAck(p, c, f)
    BY Zenon DEF HandleTextMessage, HandlePfsRotateRequest, HandlePfsRotateAck, historyVars
  <2> QED
    BY <1>4, <2>1, <2>2, Zenon DEF OnFrameReceived, ProcessPushFrame
<1> HIDE DEF f
<1>8. /\ f.action = "ACK" /\ f.to \in Channel
      /\ delivered' = [delivered EXCEPT ![p] = @ \cup {f.body.id}]
  BY <1>6, <1>7, BodyTypes, Zenon DEF ProcessAckFrame
<1>9. f.body.op = "RECEIPT"
  BY <1>6, <1>8, Zenon DEF Frame, AckBody
<1>10. f.to \in Listen(p)
  BY <1>7, <1>8, KeyTypes, Zenon DEF Listening, Listen
<1> QED
  BY <1>5, <1>6, <1>8, <1>9, <1>10, Zenon DEF f

LEMMA DeliveredStep ==
    ASSUME TypeInv, SessionInv, OwnInv, DeliveredInv, [Next]_vars
    PROVE  DeliveredInv'
<1>1. \A q \in Peers : Got(q) \subseteq Got(q)'
  BY NextMoves, GotGrows, Zenon
<1>2. CASE delivered' = delivered
  BY <1>1, <1>2, OthersOther, Zenon DEF DeliveredInv
<1>3. CASE delivered' # delivered
  <2>1. PICK p \in Peers, f \in Frame :
               /\ down[p] # <<>> /\ f = Head(down[p]) /\ f.to \in Listen(p)
               /\ f.body.op = "RECEIPT"
               /\ delivered' = [delivered EXCEPT ![p] = @ \cup {f.body.id}]
    BY <1>3, OnlyReceipts, Zenon
  <2>2. f.body.id \in Got(Other(p))
    BY <2>1, HeadOwn, Zenon DEF FrameOwn
  <2>3. delivered \in [Peers -> SUBSET (1 .. MaxTexts)]
    BY Zenon DEF TypeInv, TypeOK
  <2>4. \A q \in Peers : \/ delivered'[q] = delivered[q]
                         \/ q = p /\ delivered'[q] = delivered[q] \cup {f.body.id}
    BY <2>1, <2>3, Zenon
  <2> QED
    BY <1>1, <2>2, <2>4, OthersOther DEF DeliveredInv
<1> QED
  BY <1>2, <1>3, Zenon

-----------------------------------------------------------------------------
(* The order of frames: from the outbox of the sender through the mailbox  *)
(* to the socket of the receiver, the texts of a channel stay in order.    *)

\* Of two frames for ch of the kind at hand the first precedes the second: texts
\* have ascending numbers, of requests there is only one.
Fine(f, g, ch, kind) ==
    f.to = ch /\ g.to = ch /\ f.body.op = kind /\ g.body.op = kind =>
        kind = "TEXT" /\ f.body.id < g.body.id

Ascends(s, ch, kind) == \A i, j \in DOMAIN s : i < j => Fine(s[i], s[j], ch, kind)

Below(a, b, ch, kind) == \A f \in Elements(a), g \in Elements(b) : Fine(f, g, ch, kind)

Path(a, b, c, ch, kind) ==
    /\ Ascends(a, ch, kind) /\ Ascends(b, ch, kind) /\ Ascends(c, ch, kind)
    /\ Below(a, b, ch, kind) /\ Below(a, c, ch, kind) /\ Below(b, c, ch, kind)

LEMMA AscendsTail ==
    ASSUME NEW s \in Seq(Frame), s # <<>>, NEW ch, NEW kind, Ascends(s, ch, kind)
    PROVE  /\ Ascends(Tail(s), ch, kind)
           /\ \A g \in Elements(Tail(s)) : Fine(Head(s), g, ch, kind)
<1>1. \A i \in DOMAIN Tail(s) : i \in Nat /\ i + 1 \in DOMAIN s /\ Tail(s)[i] = s[i + 1]
  <2>1. Tail(s) \in Seq(Frame)
    OBVIOUS
  <2> QED
    BY <2>1, TailElements
<1>2. 1 \in DOMAIN s /\ Head(s) = s[1]
  OBVIOUS
<1>3. Ascends(Tail(s), ch, kind)
  BY <1>1 DEF Ascends
<1>4. ASSUME NEW i \in DOMAIN Tail(s)
      PROVE  Fine(Head(s), Tail(s)[i], ch, kind)
  <2>1. i + 1 \in DOMAIN s /\ 1 < i + 1 /\ Tail(s)[i] = s[i + 1]
    <3>1. i \in Nat /\ i > 0
      OBVIOUS
    <3> QED
      BY <1>1, <3>1
  <2> QED
    BY <1>2, <1>4, <2>1, Zenon DEF Ascends
<1> QED
  BY <1>3, <1>4, Zenon DEF Elements

LEMMA AscendsAppend ==
    ASSUME NEW s \in Seq(Frame), NEW g \in Frame, NEW ch, NEW kind, Ascends(s, ch, kind),
           \A f \in Elements(s) : Fine(f, g, ch, kind)
    PROVE  Ascends(Append(s, g), ch, kind)
<1> SUFFICES ASSUME NEW i \in DOMAIN Append(s, g), NEW j \in DOMAIN Append(s, g), i < j
             PROVE  Fine(Append(s, g)[i], Append(s, g)[j], ch, kind)
  BY Zenon DEF Ascends
<1>1. i \in DOMAIN s /\ Append(s, g)[i] = s[i] /\ s[i] \in Elements(s)
  BY DEF Elements
<1>2. CASE j \in DOMAIN s
  BY <1>1, <1>2 DEF Ascends
<1>3. CASE j \notin DOMAIN s
  <2>1. Append(s, g)[j] = g
    BY <1>3
  <2> QED
    BY <1>1, <2>1, Zenon
<1> QED
  BY <1>2, <1>3, Zenon

\* A frame is queued behind all others of its channel.
LEMMA PathAppend ==
    ASSUME NEW a \in Seq(Frame), NEW b \in Seq(Frame), NEW c \in Seq(Frame), NEW ch, NEW kind,
           Path(a, b, c, ch, kind), NEW g \in Frame,
           \A f \in Elements(a) \cup Elements(b) \cup Elements(c) :
               Fine(f, g, ch, kind)
    PROVE  Path(a, b, Append(c, g), ch, kind)
<1>1. Elements(Append(c, g)) = Elements(c) \cup {g}
  BY AppendedElement, SMTT(30)
<1>2. Ascends(Append(c, g), ch, kind)
  BY AscendsAppend, Zenon DEF Path
<1> QED
  BY <1>1, <1>2, Zenon DEF Path, Below

\* The frame at the head of the outbox leaves it.
LEMMA PathPush ==
    ASSUME NEW a \in Seq(Frame), NEW b \in Seq(Frame), NEW c \in Seq(Frame), NEW ch, NEW kind,
           Path(a, b, c, ch, kind), c # <<>>
    PROVE  Path(a, b, Tail(c), ch, kind) /\ Path(a, Append(b, Head(c)), Tail(c), ch, kind)
<1>1. /\ Head(c) \in Elements(c) /\ Elements(Tail(c)) \subseteq Elements(c)
      /\ Head(c) \in Frame
  BY ElementsOf, Zenon
<1>2. /\ Ascends(Tail(c), ch, kind)
      /\ \A g \in Elements(Tail(c)) : Fine(Head(c), g, ch, kind)
  BY AscendsTail, Zenon DEF Path
<1>3. Elements(Append(b, Head(c))) = Elements(b) \cup {Head(c)}
  BY <1>1, AppendedElement, SMTT(30)
<1>4. Ascends(Append(b, Head(c)), ch, kind)
  BY <1>1, AscendsAppend, Zenon DEF Path, Below
<1> QED
  BY <1>1, <1>2, <1>3, <1>4, Zenon DEF Path, Below

\* The frame at the head of the mailbox leaves it.
LEMMA PathPoll ==
    ASSUME NEW a \in Seq(Frame), NEW b \in Seq(Frame), NEW c \in Seq(Frame), NEW ch, NEW kind,
           Path(a, b, c, ch, kind), b # <<>>
    PROVE  Path(Append(a, Head(b)), Tail(b), c, ch, kind)
<1>1. /\ Head(b) \in Elements(b) /\ Elements(Tail(b)) \subseteq Elements(b)
      /\ Head(b) \in Frame
  BY ElementsOf, Zenon
<1>2. /\ Ascends(Tail(b), ch, kind)
      /\ \A g \in Elements(Tail(b)) : Fine(Head(b), g, ch, kind)
  BY AscendsTail, Zenon DEF Path
<1>3. Elements(Append(a, Head(b))) = Elements(a) \cup {Head(b)}
  BY <1>1, AppendedElement, SMTT(30)
<1>4. Ascends(Append(a, Head(b)), ch, kind)
  BY <1>1, AscendsAppend, Zenon DEF Path, Below
<1> QED
  BY <1>1, <1>2, <1>3, <1>4, Zenon DEF Path, Below

\* A frame of another channel arrives.
LEMMA PathSkip ==
    ASSUME NEW a \in Seq(Frame), NEW b \in Seq(Frame), NEW c \in Seq(Frame), NEW ch, NEW kind,
           Path(a, b, c, ch, kind), NEW g \in Frame, g.to # ch
    PROVE  Path(Append(a, g), b, c, ch, kind)
<1>1. Elements(Append(a, g)) = Elements(a) \cup {g}
  BY AppendedElement, SMTT(30)
<1>2. \A f : Fine(f, g, ch, kind) /\ Fine(g, f, ch, kind)
  BY Zenon DEF Fine
<1>3. Ascends(Append(a, g), ch, kind)
  BY <1>2, AscendsAppend, Zenon DEF Path
<1> QED
  BY <1>1, <1>2, <1>3, Zenon DEF Path, Below

\* A frame is taken: its text precedes all others of the channel.
LEMMA PathTake ==
    ASSUME NEW a \in Seq(Frame), NEW b \in Seq(Frame), NEW c \in Seq(Frame), NEW ch, NEW kind,
           Path(a, b, c, ch, kind), a # <<>>
    PROVE  /\ Path(Tail(a), b, c, ch, kind)
           /\ \A g \in Elements(Tail(a)) \cup Elements(b) \cup Elements(c) :
                  Fine(Head(a), g, ch, kind)
<1>1. Head(a) \in Elements(a) /\ Elements(Tail(a)) \subseteq Elements(a)
  BY ElementsOf, Zenon
<1>2. /\ Ascends(Tail(a), ch, kind)
      /\ \A g \in Elements(Tail(a)) : Fine(Head(a), g, ch, kind)
  BY AscendsTail, Zenon DEF Path
<1> QED
  BY <1>1, <1>2, Zenon DEF Path, Below

LEMMA PathClear ==
    ASSUME NEW a \in Seq(Frame), NEW b \in Seq(Frame), NEW c \in Seq(Frame), NEW ch, NEW kind,
           Path(a, b, c, ch, kind)
    PROVE  Path(<<>>, b, c, ch, kind) /\ Path(a, b, <<>>, ch, kind)
<1>1. Elements(<<>>) = {} /\ Ascends(<<>>, ch, kind)
  BY DEF Elements, Ascends
<1> QED
  BY <1>1, Zenon DEF Path, Below

\* A frame is only where its way from the sender to the receiver leads.
Placed ==
    /\ \A p \in Peers : \A f \in Elements(outbox[p]) : Sender(f) = p
    /\ \A p \in Peers : \A f \in Elements(down[p]) : Sender(f) = Other(p)
    /\ \A ch \in Channel : \A f \in Elements(relay[ch]) : f.to = ch

Owner(ch) == ch[1][1]
ChannelPath(ch, kind) ==
    Path(down[Other(Owner(ch))], relay[ch], outbox[Owner(ch)], ch, kind)

OrderInv == Placed /\ \A ch \in Channel : ChannelPath(ch, "TEXT")

\* A new frame of p is addressed by p; a new text is the last that was stored.
LEMMA MoveAdds ==
    ASSUME TypeInv, SessionInv, TypeInv', SessionInv', OwnInv, NEW p \in Peers, Moves(p)
    PROVE  \/ AddsNone(p)
           \/ \E g \in Frame :
                  /\ Adds(p, g) /\ Sender(g) = p
                  /\ g.body.op = "TEXT" =>
                         /\ g.body.id = sent[p] /\ main[p].at = "send" /\ g.to = contact[p].tx
                         /\ contact'[p] = contact[p] /\ received'[p] = received[p]
<1>1. contact[p].tx[1][1] = p /\ contact'[p].tx[1][1] = p
  BY PeersOwn, Zenon DEF OwnInv, PeerOwn, SessionOwn, From
<1>2. CASE Quiet(p) \/ Forgets(p)
  BY <1>2, Zenon DEF Quiet, Forgets
<1>3. CASE Asks(p)
  BY <1>1, <1>3, Zenon DEF Asks, Sender
<1>4. CASE Sends(p)
  BY <1>1, <1>4, Zenon DEF Sends, Sender
<1>5. ASSUME NEW f \in Frame, Takes(p, f) \/ Answers(p, f) \/ Installs(p, f)
      PROVE  \/ AddsNone(p)
             \/ \E g \in Frame : Adds(p, g) /\ Sender(g) = p /\ g.body.op # "TEXT"
  BY <1>1, <1>5, Zenon DEF Takes, Answers, Installs, Sender
<1> QED
  BY <1>2, <1>3, <1>4, <1>5, Zenon DEF Moves

\* A text that is queued now has a greater number than any that its sender
\* has queued before.
LEMMA LastText ==
    ASSUME TypeInv, SessionInv, OwnInv, NEW p \in Peers, main[p].at = "send",
           NEW g \in Frame, g.body.op = "TEXT", g.body.id = sent[p]
    PROVE  /\ \A f \in Transit : f.body.op = "TEXT" /\ Sender(f) = p => f.body.id < g.body.id
           /\ \A id \in Got(Other(p)) : id < g.body.id
<1>1. main[p] # Prompt /\ sent[p] \in Nat /\ Queued(p) = sent[p] - 1
  BY MainTypes DEF Prompt, Queued
<1>2. \A f \in Transit : f.body.op = "TEXT" /\ Sender(f) = p =>
          f.body.id \in Nat /\ f.body.id <= Queued(p)
  BY BodyTypes, SessionAssumption DEF OwnInv, FrameOwn, Transit
<1>3. \A id \in Got(Other(p)) : id \in Nat /\ id <= Queued(p)
  BY MainTypes, OthersOther, SessionAssumption DEF OwnInv
<1> QED
  BY <1>1, <1>2, <1>3

LEMMA PlacedStep ==
    ASSUME TypeInv, SessionInv, TypeInv', SessionInv', OwnInv, OrderInv, NEW p \in Peers,
           Moves(p)
    PROVE  Placed'
<1>1. QueueTypes /\ Placed
  BY Zenon DEF TypeInv, TypeOK, QueueTypes, OrderInv
<1>2. ASSUME NEW g \in Frame, Adds(p, g), Sender(g) = p PROVE Placed'
  <2>1. \A q \in Peers : \A h \in Elements(outbox'[q]) :
            h \in Elements(outbox[q]) \/ (h = g /\ q = p)
    <3>1. outbox'[p] = Append(outbox[p], g) /\ \A q \in Peers \ {p} : outbox'[q] = outbox[q]
      BY <1>1, <1>2, Zenon DEF Adds, Enqueue, QueueTypes
    <3>2. \A h \in Elements(outbox'[p]) : h \in Elements(outbox[p]) \/ h = g
      BY <1>1, <1>2, <3>1, GrownQueue, Zenon DEF QueueTypes
    <3> QED
      BY <3>1, <3>2, Zenon
  <2>2. \A q \in Peers : Elements(down'[q]) \subseteq Elements(down[q])
    <3>1. \A q \in Peers :
             \/ down'[q] = down[q]
             \/ q = p /\ down[p] # <<>> /\ down'[q] = Tail(down[q])
      BY <1>1, <1>2, Zenon DEF Adds, Popped, QueueTypes
    <3> QED
      BY <1>1, <3>1, ElementsOf, Zenon DEF QueueTypes
  <2> QED
    BY <1>1, <1>2, <2>1, <2>2, Zenon DEF Placed, Adds
<1>3. CASE Untouched
  BY <1>1, <1>3, Zenon DEF Placed, Untouched
<1>4. CASE Pushed(p)
  <2> DEFINE f == Head(outbox[p])
  <2>1. outbox[p] # <<>> /\ f \in Frame
    BY <1>1, <1>4, ElementsOf, Zenon DEF Pushed, QueueTypes
  <2>2. \A q \in Peers : Elements(outbox'[q]) \subseteq Elements(outbox[q])
    <3>1. outbox'[p] = Tail(outbox[p]) /\ \A q \in Peers \ {p} : outbox'[q] = outbox[q]
      BY <1>1, <1>4, Zenon DEF Pushed, QueueTypes
    <3> QED
      BY <1>1, <2>1, <3>1, ElementsOf, Zenon DEF QueueTypes
  <2>3. \A ch \in Channel : \A h \in Elements(relay'[ch]) :
            h \in Elements(relay[ch]) \/ (h = f /\ ch = f.to)
    <3>1. \A ch \in Channel : \/ relay'[ch] = relay[ch]
                              \/ ch = f.to /\ relay'[ch] = Append(relay[ch], f)
      BY <1>1, <1>4, Zenon DEF Pushed, QueueTypes
    <3> HIDE DEF f
    <3>2. \A ch \in Channel : relay'[ch] = Append(relay[ch], f) =>
              \A h \in Elements(relay'[ch]) : h \in Elements(relay[ch]) \/ h = f
      BY <1>1, <2>1, GrownQueue, Zenon DEF QueueTypes
    <3> QED
      BY <3>1, <3>2, Zenon
  <2>4. down' = down
    BY <1>4, Zenon DEF Pushed
  <2> HIDE DEF f
  <2> QED
    BY <1>1, <2>2, <2>3, <2>4, Zenon DEF Placed
<1>5. CASE Polled(p)
  <2>1. PICK m \in Channel :
            /\ m \in Listen(p) /\ relay[m] # <<>> /\ relay' = [relay EXCEPT ![m] = Tail(@)]
            /\ down' = [down EXCEPT ![p] = Append(@, Head(relay[m]))]
            /\ outbox' = outbox
    BY <1>5, Zenon DEF Polled
  <2> DEFINE f == Head(relay[m])
  <2>2. f \in Frame /\ f.to = m
    BY <1>1, <2>1, ElementsOf DEF QueueTypes, Placed
  <2>3. Sender(f) = Other(p)
    BY <2>1, <2>2, ListenFrom, Zenon DEF Sender, From
  <2>4. \A ch \in Channel : Elements(relay'[ch]) \subseteq Elements(relay[ch])
    <3>1. relay'[m] = Tail(relay[m]) /\ \A ch \in Channel \ {m} : relay'[ch] = relay[ch]
      BY <1>1, <2>1, Zenon DEF QueueTypes
    <3> QED
      BY <1>1, <2>1, <3>1, ElementsOf, Zenon DEF QueueTypes
  <2>5. \A q \in Peers : \A h \in Elements(down'[q]) :
            h \in Elements(down[q]) \/ (h = f /\ q = p)
    <3>1. down'[p] = Append(down[p], f) /\ \A q \in Peers \ {p} : down'[q] = down[q]
      BY <1>1, <2>1, Zenon DEF QueueTypes
    <3> HIDE DEF f
    <3>2. \A h \in Elements(down'[p]) : h \in Elements(down[p]) \/ h = f
      BY <1>1, <2>2, <3>1, GrownQueue, Zenon DEF QueueTypes
    <3> QED
      BY <3>1, <3>2, Zenon
  <2> HIDE DEF f
  <2> QED
    BY <1>1, <2>1, <2>3, <2>4, <2>5, Zenon DEF Placed
<1>6. CASE Cleared(p) \/ (Popped(p) /\ UNCHANGED <<outbox, relay>>)
  <2>1. \A q \in Peers :
           /\ outbox'[q] = outbox[q] \/ outbox'[q] = <<>>
           /\ \/ down'[q] = down[q] \/ down'[q] = <<>>
              \/ down[q] # <<>> /\ down'[q] = Tail(down[q])
    BY <1>1, <1>6, Zenon DEF Cleared, Popped, QueueTypes
  <2>2. \A q \in Peers : /\ Elements(outbox'[q]) \subseteq Elements(outbox[q])
                         /\ Elements(down'[q]) \subseteq Elements(down[q])
    BY <1>1, <2>1, ElementsOf, Zenon DEF QueueTypes
  <2>3. relay' = relay
    BY <1>6, Zenon DEF Cleared
  <2> QED
    BY <1>1, <2>2, <2>3, Zenon DEF Placed
<1> QED
  BY <1>2, <1>3, <1>4, <1>5, <1>6, MoveAdds, Zenon DEF AddsNone

LEMMA PathStep ==
    ASSUME TypeInv, OwnInv, Placed, NEW p \in Peers, NEW ch \in Channel, NEW kind,
           ChannelPath(ch, kind),
           \/ AddsNone(p)
           \/ \E g \in Frame : Adds(p, g) /\ \A f \in Transit : Fine(f, g, ch, kind)
    PROVE  ChannelPath(ch, kind)'
<1> DEFINE s == Owner(ch)
           r == Other(Owner(ch))
<1>1. QueueTypes /\ Placed /\ Path(down[r], relay[ch], outbox[s], ch, kind)
  BY Zenon DEF TypeInv, TypeOK, QueueTypes, ChannelPath
<1>2. s \in Peers /\ r \in Peers /\ r # s /\ (p = s \/ p = r)
  BY KeyTypes, OthersOther, Zenon DEF Owner, Peers
<1>3. /\ down[r] \in Seq(Frame) /\ relay[ch] \in Seq(Frame) /\ outbox[s] \in Seq(Frame)
  BY <1>1, <1>2, Zenon DEF QueueTypes
<1> HIDE DEF s, r
<1>4. SUFFICES Path(down'[r], relay'[ch], outbox'[s], ch, kind)
  BY Zenon DEF ChannelPath, s, r
<1>5. ASSUME NEW g \in Frame, Adds(p, g), \A f \in Transit : Fine(f, g, ch, kind)
      PROVE  Path(down'[r], relay'[ch], outbox'[s], ch, kind)
  <2>1. relay' = relay
    BY <1>5, Zenon DEF Adds
  <2>2. CASE p = s
    <3>1. down'[r] = down[r] /\ outbox'[s] = Append(outbox[s], g)
      BY <1>1, <1>2, <1>5, <2>2, Zenon DEF Adds, Popped, Enqueue, QueueTypes
    <3>2. \A f \in Elements(down[r]) \cup Elements(relay[ch]) \cup Elements(outbox[s]) :
             Fine(f, g, ch, kind)
      BY <1>1, <1>2, <1>5, InTransit, Zenon
    <3> QED
      BY <1>1, <1>3, <2>1, <3>1, <3>2, PathAppend, Zenon
  <2>3. CASE p = r
    <3>1. outbox'[s] = outbox[s]
      BY <1>1, <1>2, <1>5, <2>3, Zenon DEF Adds, Enqueue, QueueTypes
    <3>2. down'[r] = down[r] \/ (down[r] # <<>> /\ down'[r] = Tail(down[r]))
      BY <1>1, <1>2, <1>5, <2>3, Zenon DEF Adds, Popped, QueueTypes
    <3> QED
      BY <1>1, <1>3, <2>1, <3>1, <3>2, PathTake, Zenon
  <2> QED
    BY <1>2, <2>2, <2>3, Zenon
<1>6. CASE Untouched
  BY <1>1, <1>6, Zenon DEF Untouched
<1>7. CASE Pushed(p)
  <2> DEFINE f == Head(outbox[p])
  <2>1. Sender(f) = p /\ outbox[p] # <<>> /\ down' = down
    BY <1>1, <1>7, ElementsOf, Zenon DEF Pushed, QueueTypes, Placed
  <2>2. relay'[ch] = relay[ch] \/ (ch = f.to /\ relay'[ch] = Append(relay[ch], f))
    BY <1>1, <1>7, Zenon DEF Pushed, QueueTypes
  <2>3. CASE p = s
    <3>1. outbox'[s] = Tail(outbox[s])
      BY <1>1, <1>2, <1>7, <2>3, Zenon DEF Pushed, QueueTypes
    <3> QED
      BY <1>1, <1>3, <2>1, <2>2, <2>3, <3>1, PathPush, Zenon
  <2>4. CASE p = r
    <3>1. outbox'[s] = outbox[s]
      BY <1>1, <1>2, <1>7, <2>4, Zenon DEF Pushed, QueueTypes
    <3>2. ch # f.to
      BY <1>2, <2>1, <2>4, Zenon DEF Sender, s, Owner
    <3> QED
      BY <1>1, <2>1, <2>2, <3>1, <3>2, Zenon
  <2> QED
    BY <1>2, <2>3, <2>4, Zenon
<1>8. CASE Polled(p)
  <2>1. PICK m \in Channel :
            /\ m \in Listen(p) /\ relay[m] # <<>> /\ relay' = [relay EXCEPT ![m] = Tail(@)]
            /\ down' = [down EXCEPT ![p] = Append(@, Head(relay[m]))]
            /\ outbox' = outbox
    BY <1>8, Zenon DEF Polled
  <2> DEFINE f == Head(relay[m])
  <2>2. f \in Frame /\ f.to = m /\ Owner(m) = Other(p)
    BY <1>1, <2>1, ElementsOf, ListenFrom DEF QueueTypes, Placed, From, Owner
  <2>3. CASE ch = m
    <3>1. p = r
      BY <1>2, <2>2, <2>3, OthersOther, Zenon DEF s, r
    <3>2. relay'[ch] = Tail(relay[ch]) /\ down'[r] = Append(down[r], Head(relay[ch]))
      BY <1>1, <1>2, <2>1, <2>3, <3>1, Zenon DEF QueueTypes
    <3> QED
      BY <1>1, <1>3, <2>1, <2>3, <3>2, PathPoll, Zenon
  <2>4. CASE ch # m
    <3>1. relay'[ch] = relay[ch]
      BY <1>1, <2>1, <2>4, Zenon DEF QueueTypes
    <3>2. down'[r] = down[r] \/ down'[r] = Append(down[r], f)
      BY <1>1, <1>2, <2>1, Zenon DEF QueueTypes
    <3> HIDE DEF f
    <3> QED
      BY <1>1, <1>3, <2>1, <2>2, <2>4, <3>1, <3>2, PathSkip, Zenon
  <2> QED
    BY <2>3, <2>4, Zenon
<1>9. CASE Cleared(p) \/ (Popped(p) /\ UNCHANGED <<outbox, relay>>)
  <2>1. /\ outbox'[s] = outbox[s] \/ outbox'[s] = <<>>
        /\ \/ down'[r] = down[r] \/ down'[r] = <<>>
           \/ down[r] # <<>> /\ down'[r] = Tail(down[r])
        /\ relay' = relay
    BY <1>1, <1>2, <1>9, Zenon DEF Cleared, Popped, QueueTypes
  <2>2. Path(down'[r], relay[ch], outbox[s], ch, kind) /\ down'[r] \in Seq(Frame)
    <3>1. CASE down'[r] = down[r]
      BY <1>1, <1>3, <3>1, Zenon
    <3>2. CASE down'[r] = <<>>
      BY <1>1, <1>3, <3>2, PathClear
    <3>3. CASE down[r] # <<>> /\ down'[r] = Tail(down[r])
      <4>1. Tail(down[r]) \in Seq(Frame)
        BY <1>3, <3>3
      <4> QED
        BY <1>1, <1>3, <3>3, <4>1, PathTake, Zenon
    <3> QED
      BY <2>1, <3>1, <3>2, <3>3, Zenon
  <2> QED
    BY <1>3, <2>1, <2>2, PathClear, Zenon
<1> QED
  BY <1>5, <1>6, <1>7, <1>8, <1>9, Zenon DEF AddsNone

LEMMA OrderStep ==
    ASSUME TypeInv, SessionInv, TypeInv', SessionInv', OwnInv, OrderInv, NEW p \in Peers,
           Moves(p)
    PROVE  OrderInv'
<1>1. ASSUME NEW ch \in Channel PROVE ChannelPath(ch, "TEXT")'
  <2>1. ASSUME NEW g \in Frame, Sender(g) = p,
               g.body.op = "TEXT" => g.body.id = sent[p] /\ main[p].at = "send"
        PROVE  \A f \in Transit : Fine(f, g, ch, "TEXT")
    <3> SUFFICES ASSUME NEW f \in Transit, f.to = g.to, f.body.op = "TEXT", g.body.op = "TEXT"
                 PROVE  f.body.id < g.body.id
      BY Zenon DEF Fine
    <3> QED
      BY <2>1, LastText, Zenon DEF Sender
  <2>2. \/ AddsNone(p)
        \/ \E g \in Frame : Adds(p, g) /\ \A f \in Transit : Fine(f, g, ch, "TEXT")
    BY <2>1, MoveAdds, Zenon
  <2> QED
    BY <2>2, PathStep, Zenon DEF OrderInv
<1> QED
  BY <1>1, PlacedStep, Zenon DEF OrderInv

LEMMA PathInit == Init => \A ch \in Channel : \A kind : ChannelPath(ch, kind)
<1> SUFFICES ASSUME Init, NEW ch \in Channel, NEW kind PROVE ChannelPath(ch, kind)
  BY Zenon
<1>1. Owner(ch) \in Peers /\ Other(Owner(ch)) \in Peers
  BY KeyTypes, OthersOther, Zenon DEF Owner
<1>2. /\ outbox[Owner(ch)] = <<>> /\ down[Other(Owner(ch))] = <<>> /\ relay[ch] = <<>>
  BY <1>1, Zenon DEF Init
<1>3. Elements(<<>>) = {} /\ Ascends(<<>>, ch, kind)
  BY DEF Elements, Ascends
<1>4. Path(<<>>, <<>>, <<>>, ch, kind)
  BY <1>3, Zenon DEF Path, Below
<1> QED
  BY <1>2, <1>4, Zenon DEF ChannelPath

LEMMA OrderInit == Init => OrderInv
<1> SUFFICES ASSUME Init PROVE OrderInv
  BY Zenon
<1>1. /\ \A p \in Peers : outbox[p] = <<>> /\ down[p] = <<>>
      /\ \A ch \in Channel : relay[ch] = <<>>
  BY Zenon DEF Init
<1>2. Elements(<<>>) = {}
  BY DEF Elements
<1>3. Placed
  BY <1>1, <1>2, Zenon DEF Placed
<1> QED
  BY <1>3, PathInit, Zenon DEF OrderInv

\* When a frame is taken, what is left of its channel comes later.
LEMMA TakenFirst ==
    ASSUME TypeInv, OwnInv, Placed', NEW p \in Peers, NEW f \in Frame, down[p] # <<>>,
           f = Head(down[p]), down' = [down EXCEPT ![p] = Tail(@)], f.to \in Listen(p),
           NEW h \in Frame, Adds(p, h), NEW kind, ChannelPath(f.to, kind),
           NEW g \in Transit', g.to = f.to
    PROVE  Fine(f, g, f.to, kind)
<1> DEFINE s == Owner(f.to)
<1>1. QueueTypes /\ f.to \in Channel
  BY BodyTypes, Zenon DEF TypeInv, TypeOK, QueueTypes
<1>2. s = Other(p) /\ s \in Peers /\ s # p /\ Other(s) = p
  BY HeadOwn, OthersOther, Zenon DEF Sender, Owner
<1>3. Path(down[p], relay[f.to], outbox[s], f.to, kind)
  BY <1>2, Zenon DEF ChannelPath
<1>4. down'[p] = Tail(down[p]) /\ relay' = relay /\ outbox'[s] = outbox[s]
  BY <1>1, <1>2, Zenon DEF QueueTypes, Adds, Enqueue
<1>5. Sender(g) = s
  BY Zenon DEF Sender, Owner
<1>6. g \in Elements(Tail(down[p])) \cup Elements(relay[f.to]) \cup Elements(outbox[s])
  <2>1. CASE \E q \in Peers : g \in Elements(outbox'[q])
    BY <1>4, <1>5, <2>1, Zenon DEF Placed
  <2>2. CASE \E q \in Peers : g \in Elements(down'[q])
    <3>1. PICK q \in Peers : g \in Elements(down'[q])
      BY <2>2, Zenon
    <3>2. Other(q) = Other(p)
      BY <1>2, <1>5, <3>1, Zenon DEF Placed
    <3>3. q = p
      BY <3>2, OthersOther, Zenon
    <3> QED
      BY <1>4, <3>1, <3>3, Zenon
  <2>3. CASE \E ch \in Channel : g \in Elements(relay'[ch])
    BY <1>4, <2>3, Zenon DEF Placed
  <2> QED
    BY <2>1, <2>2, <2>3, Zenon DEF Transit
<1>7. down[p] \in Seq(Frame) /\ relay[f.to] \in Seq(Frame) /\ outbox[s] \in Seq(Frame)
  BY <1>1, <1>2, Zenon DEF QueueTypes
<1> HIDE DEF s
<1> QED
  BY <1>3, <1>6, <1>7, PathTake, Zenon

-----------------------------------------------------------------------------
(* Rotations do not reorder texts: what is still to come on the mailboxes  *)
(* a client listens on is later than what it has stored, and what comes on *)
(* the old mailbox is earlier than what comes on the new one.              *)

OnText(f, ch) == f.body.op = "TEXT" /\ f.to = ch

Texts(ch) == {f \in Transit : OnText(f, ch)}

After(p, ch) == \A id \in Got(p) : \A g \in Texts(ch) : id < g.body.id

Before(a, b) == \A f \in Texts(a), g \in Texts(b) : f.body.id < g.body.id

\* The sender does not use ch, nor will it.
Gone(ch) ==
    /\ ch # contact[Owner(ch)].tx /\ ch[1] # contact[Owner(ch)].pending
    /\ ~IsBootstrap(ch)

NewInv(p) == \A ch \in Listen(p) : After(p, ch)

\* As long as p listens on two mailboxes, the sender has left the old one, or
\* has not begun to use the new one.
PairInv(p) ==
    \A old, rx \in Channel :
        old = contact[p].oldRx /\ rx = contact[p].rx =>
            /\ rx # old /\ Before(old, rx)
            /\ Gone(old) \/ (rx # contact[Other(p)].tx /\ Texts(rx) = {})

\* The receiving channel of the session that answer f completes.
NewOf(f) == <<f.body.eph, f.body.req>>

\* The answer to a pending request: the sender has left the channel on which
\* it answers, and what it sends on the new one comes later.
AnswerInv(p) ==
    \A f \in Transit :
        f.body.op = "ROTATE_ACK" /\ f.to \in Listen(p) /\ f.body.req = contact[p].pending =>
            /\ After(p, NewOf(f)) /\ Before(f.to, NewOf(f))
            /\ Gone(f.to) \/ IsBootstrap(f.to)
            /\ \A old \in Channel :
                   old = contact[p].oldRx /\ f.to = contact[p].rx =>
                       Gone(old) /\ Before(old, NewOf(f))

HistoryInv == \A p \in Peers : NewInv(p) /\ PairInv(p) /\ AnswerInv(p)

StepOf(p) ==
    /\ TypeInv /\ SessionInv /\ OwnInv /\ OrderInv
    /\ TypeInv' /\ SessionInv' /\ OwnInv' /\ OrderInv'
    /\ Moves(p)

LEMMA NewTexts ==
    ASSUME NEW p \in Peers, StepOf(p), NEW ch, NEW f \in Texts(ch)', f \notin Texts(ch)
    PROVE  /\ Owner(ch) = p /\ ch = contact[p].tx /\ ~IsBootstrap(ch)
           /\ \A h \in Transit : h.body.op = "TEXT" /\ Sender(h) = p => h.body.id < f.body.id
           /\ \A id \in Got(Other(p)) : id < f.body.id
<1>1. f \in Transit' /\ f \notin Transit /\ f.body.op = "TEXT" /\ f.to = ch /\ f \in Frame
  BY Zenon DEF Texts, OnText, Transit
<1>2. /\ Sender(f) = p /\ f.body.id = sent[p] /\ main[p].at = "send" /\ f.to = contact[p].tx
  BY <1>1, MoveAdds DEF StepOf, Adds, AddsNone
<1>3. ~IsBootstrap(ch)
  BY <1>1, Zenon DEF StepOf, OwnInv, FrameOwn
<1> QED
  BY <1>1, <1>2, <1>3, LastText, Zenon DEF StepOf, Sender, Owner

LEMMA TextOwner ==
    ASSUME NEW ch, NEW f \in Texts(ch)
    PROVE  f \in Transit /\ f.body.op = "TEXT" /\ Sender(f) = Owner(ch) /\ f.to = ch
  BY Zenon DEF Texts, OnText, Sender, Owner

LEMMA AfterKept ==
    ASSUME NEW p \in Peers, StepOf(p), NEW q \in Peers, NEW ch, Owner(ch) = Other(q),
           After(q, ch), received'[q] = received[q]
    PROVE  After(q, ch)'
<1> SUFFICES ASSUME NEW id \in Got(q), NEW g \in Texts(ch)' PROVE id < g.body.id
  BY Zenon DEF After, Got
<1>1. CASE g \in Texts(ch)
  BY <1>1, Zenon DEF After
<1>2. CASE g \notin Texts(ch)
  <2>1. Owner(ch) = p /\ \A n \in Got(Other(p)) : n < g.body.id
    BY <1>2, NewTexts, Zenon
  <2>2. q = Other(p)
    BY <2>1, OthersOther, Zenon
  <2> QED
    BY <2>1, <2>2, Zenon
<1> QED
  BY <1>1, <1>2, Zenon

LEMMA BeforeKept ==
    ASSUME NEW p \in Peers, StepOf(p), NEW a, NEW b, Owner(a) = Owner(b), Before(a, b),
           Texts(a)' \subseteq Texts(a)
    PROVE  Before(a, b)'
<1> SUFFICES ASSUME NEW f \in Texts(a)', NEW g \in Texts(b)' PROVE f.body.id < g.body.id
  BY Zenon DEF Before
<1>1. f \in Texts(a)
  BY Zenon
<1>2. CASE g \in Texts(b)
  BY <1>1, <1>2, Zenon DEF Before
<1>3. CASE g \notin Texts(b)
  BY <1>1, <1>3, NewTexts, TextOwner
<1> QED
  BY <1>2, <1>3, Zenon

\* Only the channel on which the mover sends gets a text.
LEMMA NoNewTexts ==
    ASSUME NEW p \in Peers, StepOf(p), NEW ch,
           Gone(ch) \/ IsBootstrap(ch) \/ Owner(ch) # p \/ ch # contact[p].tx
    PROVE  Texts(ch)' \subseteq Texts(ch)
  BY NewTexts, Zenon DEF Gone

LEMMA GoneKept ==
    ASSUME NEW p \in Peers, StepOf(p), NEW ch, NEW s \in Peers, From(ch, s), Gone(ch)
    PROVE  Gone(ch)'
<1>1. /\ ch \in Channel /\ Owner(ch) = s /\ Known(ch[1]) /\ ch[1] \in Key /\ ch[1] # None
      /\ ch # contact[s].tx /\ ch[1] # contact[s].pending /\ ~IsBootstrap(ch)
  BY KeyTypes, Zenon DEF From, Owner, Gone
<1>2. CASE s # p
  <2>1. contact'[s] = contact[s]
    BY <1>2, Zenon DEF StepOf, Moves, Steady
  <2> QED
    BY <1>1, <2>1, Zenon DEF Gone
<1>3. CASE s = p
  <2>1. ch # contact'[p].tx
    <3>1. CASE Kept(p)
      BY <1>1, <1>3, <3>1, Zenon DEF Kept
    <3>2. CASE Reset(p)
      BY <1>1, <3>2 DEF Reset, DerivePairwiseMailboxes, IsBootstrap, Identity
    <3>3. ASSUME NEW f, Answers(p, f) PROVE ch # contact'[p].tx
      <4>1. contact'[p].tx[1] = FreshKey(p)
        BY <3>3 DEF Answers
      <4> QED
        BY <1>1, <4>1, FreshIsNew, Zenon DEF StepOf
    <3>4. ASSUME NEW f, Installs(p, f) PROVE ch # contact'[p].tx
      <4>1. contact'[p].tx[1] = contact[p].pending
        BY <3>4 DEF Installs
      <4> QED
        BY <1>1, <1>3, <4>1, Zenon
    <3> QED
      BY <3>1, <3>2, <3>3, <3>4, Zenon DEF StepOf, Moves, Quiet, Forgets, Asks, Sends, Takes, Kept
  <2>2. ch[1] # contact'[p].pending
    <3>1. CASE Asks(p)
      <4>1. contact'[p].pending = FreshKey(p) \/ contact'[p].pending = main[p].eph
        BY <3>1, Zenon DEF Asks
      <4> QED
        BY <1>1, <1>3, <4>1, FreshIsNew, Zenon DEF StepOf, Known, From
    <3>2. CASE contact'[p].pending = contact[p].pending \/ contact'[p].pending = None
      BY <1>1, <1>3, <3>2, Zenon
    <3> QED
      BY <3>1, <3>2, Zenon DEF StepOf, Moves, Quiet, Forgets, Sends, Takes, Answers, Installs
  <2> QED
    BY <1>1, <1>3, <2>1, <2>2, Zenon DEF Gone
<1> QED
  BY <1>2, <1>3, Zenon

\* Nothing is on its way on a channel whose keys are not both known.
LEMMA FreshChannel ==
    ASSUME NEW p \in Peers, StepOf(p), NEW ch \in Channel,
           ch[1] = FreshKey(p) \/ ch[2] = FreshKey(p)
    PROVE  /\ Texts(ch)' = {} /\ \A q \in Peers : ch # contact[q].tx
           /\ \A f \in Transit : f.to # ch
           /\ \A q \in Peers : ch # contact[q].rx
<1>1. ch[1] \in Key /\ ch[2] \in Key
  BY KeyTypes, Zenon
<1>2. ~(Known(ch[1]) /\ Known(ch[2]))
  BY <1>1, FreshIsNew, Zenon DEF StepOf
<1>3. \A f \in Transit : f.to # ch
  BY <1>2, Zenon DEF StepOf, OwnInv, FrameOwn, From
<1>4. \A q \in Peers : ch # contact[q].tx
  BY <1>2, Zenon DEF StepOf, OwnInv, PeerOwn, SessionOwn, From
<1>5. \A q \in Peers : ch # contact[q].rx
  BY <1>2 DEF StepOf, OwnInv, PeerOwn, SessionOwn, From, Mirror
<1>6. Texts(ch)' = {}
  <2> SUFFICES ASSUME NEW f \in Texts(ch)' PROVE FALSE
    BY Zenon
  <2>1. CASE f \in Texts(ch)
    BY <1>3, <2>1, TextOwner, Zenon
  <2>2. CASE f \notin Texts(ch)
    BY <1>4, <2>2, NewTexts, Zenon
  <2> QED
    BY <2>1, <2>2, Zenon
<1> QED
  BY <1>3, <1>4, <1>5, <1>6, Zenon

\* The channels on which p listens, before and after the step.
LEMMA ListenOwner ==
    ASSUME NEW p \in Peers, StepOf(p), NEW q \in Peers
    PROVE  /\ \A ch \in Listen(q) : ch \in Channel /\ From(ch, Other(q)) /\ Owner(ch) = Other(q)
           /\ \A ch \in Listen(q)' : ch \in Channel /\ Owner(ch) = Other(q)
<1>1. \A ch \in Listen(q) : ch \in Channel /\ From(ch, Other(q)) /\ Owner(ch) = Other(q)
  BY ListenFrom, Zenon DEF StepOf, From, Owner
<1>2. ASSUME NEW ch \in Listen(q)' PROVE ch \in Channel /\ Owner(ch) = Other(q)
  <2>1. PeerOwn(q)'
    BY Zenon DEF StepOf, OwnInv
  <2>2. CASE ch = contact'[q].rx
    BY <2>1, <2>2, KeyTypes, Zenon DEF PeerOwn, SessionOwn, From, Mirror, Owner, Channel
  <2>3. CASE ch = contact'[q].oldRx
    BY <1>2, <2>1, <2>3, Zenon DEF PeerOwn, OldOwn, From, Owner, Listen
  <2> QED
    BY <1>2, <2>2, <2>3, Zenon DEF Listen
<1> QED
  BY <1>1, <1>2, Zenon

LEMMA KeptListen ==
    ASSUME NEW p \in Peers, Kept(p)
    PROVE  Listen(p)' \subseteq Listen(p)
  BY Zenon DEF Kept, Listen

LEMMA NewStep ==
    ASSUME NEW p \in Peers, StepOf(p), HistoryInv, NEW q \in Peers
    PROVE  NewInv(q)'
<1> SUFFICES ASSUME NEW ch \in Listen(q)' PROVE After(q, ch)'
  BY Zenon DEF NewInv
<1>1. ch \in Channel /\ Owner(ch) = Other(q)
  BY ListenOwner, Zenon
<1>2. ASSUME ch \in Listen(q), received'[q] = received[q] PROVE After(q, ch)'
  <2>1. After(q, ch)
    BY <1>2, Zenon DEF HistoryInv, NewInv
  <2> QED
    BY <1>1, <1>2, <2>1, AfterKept, Zenon
<1>3. CASE q # p
  <2>1. contact'[q] = contact[q] /\ received'[q] = received[q]
    BY <1>3, Zenon DEF StepOf, Moves, Steady
  <2>2. ch \in Listen(q)
    BY <2>1, Zenon DEF Listen
  <2> QED
    BY <1>2, <2>1, <2>2, Zenon
<1>4. CASE q = p /\ Kept(p) /\ received'[p] = received[p]
  BY <1>2, <1>4, KeptListen, Zenon
<1>5. CASE q = p /\ Reset(p) /\ received'[p] = received[p]
  <2>1. IsBootstrap(ch)
    BY <1>5 DEF Reset, Listen, DerivePairwiseMailboxes, IsBootstrap, Identity
  <2>2. Texts(ch)' = {}
    BY <2>1, Zenon DEF Texts, OnText, StepOf, OwnInv, FrameOwn
  <2> QED
    BY <2>2, Zenon DEF After
<1>6. ASSUME q = p, NEW f \in Frame, down[p] # <<>>, f = Head(down[p]),
             down' = [down EXCEPT ![p] = Tail(@)], Takes(p, f)
      PROVE  After(q, ch)'
  <2>1. /\ f.body.op = "TEXT" /\ f.to \in Listen(p) /\ Kept(p)
        /\ received'[p] = Append(received[p], f.body.id)
        /\ f.to # contact[p].oldRx => contact'[p].oldRx = None
    BY <1>6, Zenon DEF Takes
  <2>2. ch \in Listen(p) /\ f \in Transit /\ f \in Texts(f.to)
    BY <1>6, <2>1, KeptListen, HeadOwn, Zenon DEF StepOf, Texts, OnText
  <2>3. Got(p)' = Got(p) \cup {f.body.id}
    BY <1>6, <2>1, TakenText, Zenon DEF StepOf
  <2>4. Texts(ch)' \subseteq Texts(ch)
    BY <1>1, <1>6, OthersOther, NoNewTexts, Zenon
  <2>5. ASSUME NEW g \in Texts(ch)' PROVE f.body.id < g.body.id
    <3>1. CASE ch = f.to
      <4>1. PICK h \in Frame : Adds(p, h)
        BY <1>6, Zenon DEF Takes
      <4>2. g \in Transit' /\ g.to = f.to /\ g.body.op = "TEXT"
        BY <2>5, <3>1, Zenon DEF Texts, OnText
      <4>3. Placed' /\ ChannelPath(f.to, "TEXT")
        BY <1>1, <3>1, Zenon DEF StepOf, OrderInv
      <4>4. Fine(f, g, f.to, "TEXT")
        BY <1>6, <2>1, <4>1, <4>2, <4>3, TakenFirst, Zenon DEF StepOf
      <4> QED
        BY <2>1, <4>2, <4>4, Zenon DEF Fine
    <3>2. CASE ch # f.to
      <4>1. f.to = contact[p].oldRx /\ ch = contact[p].rx
        BY <1>6, <2>1, <3>2, Zenon DEF Listen, Kept
      <4>2. Before(f.to, ch)
        BY <1>1, <4>1, BodyTypes, Zenon DEF HistoryInv, PairInv
      <4> QED
        BY <2>2, <2>4, <4>2, Zenon DEF Before
    <3> QED
      BY <3>1, <3>2, Zenon
  <2>6. After(p, ch)
    BY <2>2, Zenon DEF HistoryInv, NewInv
  <2> QED
    BY <1>6, <2>3, <2>4, <2>5, <2>6, Zenon DEF After
<1>7. ASSUME q = p, NEW f \in Frame, Answers(p, f) PROVE After(q, ch)'
  <2>1. /\ contact'[p].rx = <<f.body.eph, FreshKey(p)>>
        /\ contact'[p].oldRx \in {None, contact[p].rx, contact[p].oldRx}
        /\ received'[p] = received[p]
    BY <1>7, Zenon DEF Answers
  <2>2. CASE ch = contact'[p].rx
    <3>1. Texts(ch)' = {}
      BY <1>1, <2>1, <2>2, FreshChannel, Zenon
    <3> QED
      BY <3>1, Zenon DEF After
  <2>3. CASE ch # contact'[p].rx
    <3>1. ch \in Listen(p)
      BY <1>7, <2>1, <2>3, Zenon DEF Listen
    <3> QED
      BY <1>2, <1>7, <2>1, <3>1, Zenon
  <2> QED
    BY <2>2, <2>3, Zenon
<1>8. ASSUME q = p, NEW f \in Frame, down[p] # <<>>, f = Head(down[p]), Installs(p, f)
      PROVE  After(q, ch)'
  <2>1. /\ f.body.op = "ROTATE_ACK" /\ f.to \in Listen(p) /\ f.body.req = contact[p].pending
        /\ contact'[p].rx = NewOf(f)
        /\ contact'[p].oldRx \in {contact[p].oldRx, None} /\ received'[p] = received[p]
    BY <1>8, Zenon DEF Installs, NewOf
  <2>2. CASE ch = NewOf(f)
    <3>1. f \in Transit
      BY <1>8, <2>1, HeadOwn, Zenon DEF StepOf
    <3>2. After(p, ch)
      BY <2>1, <2>2, <3>1, Zenon DEF HistoryInv, AnswerInv
    <3> QED
      BY <1>1, <1>8, <2>1, <3>2, AfterKept, Zenon
  <2>3. CASE ch # NewOf(f)
    <3>1. ch \in Listen(p)
      BY <1>8, <2>1, <2>3, Zenon DEF Listen
    <3> QED
      BY <1>2, <1>8, <2>1, <3>1, Zenon
  <2> QED
    BY <2>2, <2>3, Zenon
<1>9. CASE q = p /\ (Quiet(p) \/ Forgets(p) \/ Asks(p) \/ Sends(p))
  <2>1. (Kept(p) \/ Reset(p)) /\ received'[p] = received[p]
    BY <1>9, Zenon DEF Quiet, Forgets, Asks, Sends, Kept
  <2> QED
    BY <1>4, <1>5, <1>9, <2>1, Zenon
<1> QED
  BY <1>3, <1>6, <1>7, <1>8, <1>9, Zenon DEF StepOf, Moves

\* The two channels on which a client listens during a rotation.
LEMMA PairFacts ==
    ASSUME NEW p \in Peers, StepOf(p), NEW q \in Peers, NEW old \in Channel,
           old = contact[q].oldRx
    PROVE  /\ From(old, Other(q)) /\ Owner(old) = Other(q) /\ ~IsBootstrap(old)
           /\ ~IsBootstrap(contact[q].rx)
<1>1. old # None /\ PeerOwn(q)
  BY KeyTypes, Zenon DEF StepOf, OwnInv
<1>2. From(old, Other(q)) /\ ~IsBootstrap(old) /\ contact[q].complete
  BY <1>1, Zenon DEF PeerOwn, OldOwn
<1>3. ~IsBootstrap(contact[q].tx) /\ contact[q].rx = Mirror(contact[q].tx)
  BY <1>1, <1>2, Zenon DEF PeerOwn, SessionOwn, StepOf, SessionInv, PeerInv, Protected
<1> QED
  BY <1>2, <1>3 DEF From, Owner, IsBootstrap, Mirror

LEMMA RxOwner ==
    ASSUME NEW p \in Peers, StepOf(p), NEW q \in Peers, NEW rx, rx = contact[q].rx
    PROVE  rx \in Listen(q) /\ From(rx, Other(q)) /\ Owner(rx) = Other(q) /\ rx \in Channel
<1>1. rx \in Listen(q)
  BY ContactFields, KeyTypes, Zenon DEF StepOf, Listen
<1> QED
  BY <1>1, ListenOwner, Zenon

LEMMA RxNext ==
    ASSUME NEW p \in Peers, StepOf(p), NEW q \in Peers, NEW rx \in Channel, rx = contact'[q].rx
    PROVE  Owner(rx) = Other(q)
  BY KeyTypes, ListenOwner, Zenon DEF Listen

LEMMA PairStep ==
    ASSUME NEW p \in Peers, StepOf(p), HistoryInv, NEW q \in Peers
    PROVE  PairInv(q)'
<1> SUFFICES ASSUME NEW old \in Channel, NEW rx \in Channel,
                    old = contact'[q].oldRx, rx = contact'[q].rx
             PROVE  /\ rx # old /\ Before(old, rx)'
                    /\ Gone(old)' \/ (rx # contact'[Other(q)].tx /\ Texts(rx)' = {})
  BY Zenon DEF PairInv
<1>1. old # None
  BY KeyTypes, Zenon
<1>2. CASE q # p
  <2>1. contact'[q] = contact[q] /\ p = Other(q)
    BY <1>2, OthersOther DEF StepOf, Moves, Steady, Peers
  <2>2. /\ From(old, p) /\ Owner(old) = p /\ ~IsBootstrap(old) /\ ~IsBootstrap(rx)
        /\ From(rx, p) /\ Owner(rx) = p
    BY <2>1, PairFacts, RxOwner, Zenon
  <2>3. rx # old /\ Before(old, rx) /\ (Gone(old) \/ (rx # contact[p].tx /\ Texts(rx) = {}))
    BY <2>1, Zenon DEF HistoryInv, PairInv
  <2>4. CASE Gone(old)
    BY <2>2, <2>3, <2>4, GoneKept, NoNewTexts, BeforeKept, Zenon
  <2>5. CASE rx # contact[p].tx /\ Texts(rx) = {}
    <3>1. Texts(rx)' = {}
      BY <2>5, NoNewTexts, Zenon
    <3>2. Before(old, rx)'
      BY <3>1, Zenon DEF Before
    <3>3. Gone(old)' \/ rx # contact'[p].tx
      <4>1. CASE Kept(p)
        BY <2>5, <4>1, Zenon DEF Kept
      <4>2. CASE Reset(p)
        BY <2>2, <4>2 DEF Reset, DerivePairwiseMailboxes, IsBootstrap, Identity
      <4>3. ASSUME NEW f, Answers(p, f) PROVE rx # contact'[p].tx
        <5>1. contact'[p].tx[1] = FreshKey(p)
          BY <4>3 DEF Answers
        <5> QED
          BY <2>2, <5>1, KeyTypes, FreshIsNew, Zenon DEF StepOf, From
      <4>4. ASSUME NEW f, Installs(p, f), rx = contact'[p].tx PROVE Gone(old)'
        <5>1. contact'[p].pending = None
          BY <4>4, Zenon DEF Installs
        <5>2. old[1] # None
          BY KeyTypes, Zenon
        <5> QED
          BY <2>2, <2>3, <4>4, <5>1, <5>2, Zenon DEF Gone
      <4> QED
        BY <4>1, <4>2, <4>3, <4>4, Zenon DEF StepOf, Moves, Quiet, Forgets, Asks, Sends, Takes, Kept
    <3> QED
      BY <2>1, <2>3, <3>1, <3>2, <3>3, Zenon
  <2> QED
    BY <2>3, <2>4, <2>5, Zenon
<1>3. CASE q = p /\ Kept(p)
  <2>1. old = contact[p].oldRx /\ rx = contact[p].rx
    BY <1>1, <1>3, Zenon DEF Kept
  <2>2. /\ From(old, Other(p)) /\ Owner(old) = Other(p) /\ Owner(rx) = Other(p)
        /\ Other(p) # p /\ Other(p) \in Peers
    BY <2>1, PairFacts, RxOwner, OthersOther, Zenon
  <2>3. rx # old /\ Before(old, rx)
        /\ (Gone(old) \/ (rx # contact[Other(p)].tx /\ Texts(rx) = {}))
    BY <2>1, Zenon DEF HistoryInv, PairInv
  <2>4. Texts(old)' \subseteq Texts(old) /\ Texts(rx)' \subseteq Texts(rx)
    BY <2>2, NoNewTexts, Zenon
  <2>5. Before(old, rx)'
    BY <2>2, <2>3, <2>4, BeforeKept, Zenon
  <2>6. contact'[Other(p)] = contact[Other(p)]
    BY <2>2, Zenon DEF StepOf, Moves, Steady
  <2> QED
    BY <1>3, <2>2, <2>3, <2>4, <2>5, <2>6, GoneKept, Zenon
<1>4. CASE q = p /\ Reset(p)
  BY <1>1, <1>4, Zenon DEF Reset
<1>5. ASSUME q = p, NEW f, Answers(p, f)
      PROVE  /\ rx # old /\ Before(old, rx)'
             /\ rx # contact'[Other(p)].tx /\ Texts(rx)' = {}
  <2>1. /\ rx[2] = FreshKey(p)
        /\ old = IF contact[p].complete THEN contact[p].rx ELSE contact[p].oldRx
    BY <1>1, <1>5 DEF Answers
  <2>2. old = contact[p].rx
    BY <1>1, <2>1, Zenon DEF StepOf, OwnInv, PeerOwn, OldOwn
  <2>3. /\ Texts(rx)' = {} /\ rx # contact[p].rx /\ rx # contact[Other(p)].tx
    BY <2>1, OthersOther, FreshChannel, Zenon
  <2>4. contact'[Other(p)] = contact[Other(p)]
    BY OthersOther, Zenon DEF StepOf, Moves, Steady
  <2> QED
    BY <2>2, <2>3, <2>4, Zenon DEF Before
<1>6. ASSUME q = p, NEW f \in Frame, down[p] # <<>>, f = Head(down[p]), Installs(p, f)
      PROVE  rx # old /\ Before(old, rx)' /\ Gone(old)'
  <2>1. /\ f.body.op = "ROTATE_ACK" /\ f.to \in Listen(p) /\ f.body.req = contact[p].pending
        /\ rx = NewOf(f) /\ old = contact[p].oldRx /\ f.to = old
    BY <1>1, <1>6, Zenon DEF Installs, NewOf
  <2>2. f \in Transit
    BY <1>6, <2>1, HeadOwn, Zenon DEF StepOf
  <2>3. Before(old, rx) /\ (Gone(old) \/ IsBootstrap(old))
    BY <2>1, <2>2, Zenon DEF HistoryInv, AnswerInv
  <2>4. From(old, Other(p)) /\ Owner(old) = Other(p) /\ ~IsBootstrap(old) /\ Other(p) \in Peers
    BY <2>1, PairFacts, OthersOther, Zenon
  <2>5. Owner(rx) = Other(p)
    BY <1>6, RxNext, Zenon
  <2>6. Gone(old)' /\ Texts(old)' \subseteq Texts(old)
    BY <2>3, <2>4, GoneKept, NoNewTexts, Zenon
  <2>7. Before(old, rx)'
    BY <2>3, <2>4, <2>5, <2>6, BeforeKept, Zenon
  <2>8. rx # old
    <3>1. rx[2] = contact[p].pending /\ contact[p].pending # None
      BY <2>1, BodyTypes, KeyTypes DEF NewOf
    <3> QED
      BY <1>1, <2>1, <3>1 DEF StepOf, OwnInv, PeerOwn, PendingOwn
  <2> QED
    BY <2>6, <2>7, <2>8, Zenon
<1>7. CASE q = p /\ (Quiet(p) \/ Forgets(p) \/ Asks(p) \/ Sends(p) \/ \E f \in Frame : Takes(p, f))
  <2>1. Kept(p) \/ Reset(p)
    BY <1>7, Zenon DEF Quiet, Forgets, Asks, Sends, Takes, Kept
  <2> QED
    BY <1>3, <1>4, <1>7, <2>1, Zenon
<1> QED
  BY <1>2, <1>5, <1>6, <1>7, Zenon DEF StepOf, Moves

\* What AnswerInv says of answer f.
AnswerOf(p, f) ==
    /\ After(p, NewOf(f)) /\ Before(f.to, NewOf(f))
    /\ Gone(f.to) \/ IsBootstrap(f.to)
    /\ \A old \in Channel :
           old = contact[p].oldRx /\ f.to = contact[p].rx =>
               Gone(old) /\ Before(old, NewOf(f))

\* It stays so while the record keeps its session and no text is stored.
LEMMA AnswerKept ==
    ASSUME NEW p \in Peers, StepOf(p), NEW q \in Peers, NEW f \in Transit,
           f.body.op = "ROTATE_ACK", f.to \in Listen(q), f.body.req = contact[q].pending,
           AnswerOf(q, f), After(q, NewOf(f))',
           \/ contact'[q].oldRx = contact[q].oldRx /\ contact'[q].rx = contact[q].rx
           \/ contact'[q].oldRx = None \/ contact'[q].rx # f.to
    PROVE  AnswerOf(q, f)'
<1>1. /\ f \in Frame /\ NewOf(f) \in Channel /\ Owner(NewOf(f)) = Other(q)
      /\ From(f.to, Other(q)) /\ Owner(f.to) = Other(q)
  <2>1. f \in Frame /\ FrameOwn(f)
    BY Zenon DEF Transit, StepOf, OwnInv
  <2>2. From(f.to, Other(q)) /\ Owner(f.to) = Other(q)
    BY ListenOwner, Zenon
  <2> QED
    BY <2>1, <2>2, BodyTypes, Zenon DEF FrameOwn, NewOf, Owner, Channel, Sender
<1>2. Texts(f.to)' \subseteq Texts(f.to)
  BY NoNewTexts, Zenon DEF AnswerOf
<1>3. Before(f.to, NewOf(f))'
  BY <1>1, <1>2, BeforeKept, Zenon DEF AnswerOf
<1>4. (Gone(f.to) \/ IsBootstrap(f.to))'
  BY <1>1, OthersOther, GoneKept, Zenon DEF AnswerOf
<1>5. ASSUME NEW old \in Channel, old = contact'[q].oldRx, f.to = contact'[q].rx
      PROVE  Gone(old)' /\ Before(old, NewOf(f))'
  <2>1. old = contact[q].oldRx /\ f.to = contact[q].rx
    BY <1>5, KeyTypes, Zenon
  <2>2. Gone(old) /\ Before(old, NewOf(f))
    BY <2>1, Zenon DEF AnswerOf
  <2>3. From(old, Other(q)) /\ Owner(old) = Other(q)
    BY <2>1, PairFacts, Zenon
  <2> QED
    BY <1>1, <2>2, <2>3, OthersOther, GoneKept, NoNewTexts, BeforeKept, Zenon
<1> QED
  BY <1>3, <1>4, <1>5, Zenon DEF AnswerOf

LEMMA AnswerStep ==
    ASSUME NEW p \in Peers, StepOf(p), HistoryInv, NEW q \in Peers
    PROVE  AnswerInv(q)'
<1> SUFFICES ASSUME NEW f \in Transit', f.body.op = "ROTATE_ACK", f.to \in Listen(q)',
                    f.body.req = contact'[q].pending
             PROVE  AnswerOf(q, f)'
  BY Zenon DEF AnswerInv, AnswerOf
<1>1. /\ f \in Frame /\ f.body.req \in Key /\ f.body.eph \in Key /\ f.body.req # None
      /\ f.to \in Channel /\ Owner(f.to) = Other(q) /\ NewOf(f) \in Channel
  <2>1. f \in Frame
    BY Zenon DEF Transit
  <2> QED
    BY <2>1, BodyTypes, KeyTypes, ListenOwner, Zenon DEF NewOf, Channel
<1>2. ASSUME f \in Transit, f.to \in Listen(q), f.body.req = contact[q].pending
      PROVE  AnswerOf(q, f) /\ FrameOwn(f) /\ Owner(NewOf(f)) = Other(q)
  <2>1. AnswerOf(q, f)
    BY <1>2, Zenon DEF HistoryInv, AnswerInv, AnswerOf
  <2>2. FrameOwn(f)
    BY <1>2, Zenon DEF StepOf, OwnInv
  <2> QED
    BY <1>1, <2>1, <2>2, Zenon DEF FrameOwn, NewOf, Owner, Sender
<1>3. ASSUME f \in Transit, f.to \in Listen(q), f.body.req = contact[q].pending,
             received'[q] = received[q]
      PROVE  After(q, NewOf(f))'
  <2>1. After(q, NewOf(f))
    BY <1>2, <1>3, Zenon DEF AnswerOf
  <2> QED
    BY <1>2, <1>3, <2>1, AfterKept, Zenon
<1>4. CASE f \in Transit /\ q # p
  <2>1. contact'[q] = contact[q] /\ received'[q] = received[q]
    BY <1>4, Zenon DEF StepOf, Moves, Steady
  <2>2. f.to \in Listen(q) /\ f.body.req = contact[q].pending
    BY <2>1, Zenon DEF Listen
  <2> QED
    BY <1>2, <1>3, <1>4, <2>1, <2>2, AnswerKept, Zenon
<1>5. CASE f \in Transit /\ q = p
  <2>1. CASE Quiet(p) \/ Sends(p)
    <3>1. Kept(p) /\ contact'[p].pending = contact[p].pending /\ received'[p] = received[p]
      BY <2>1, Zenon DEF Quiet, Sends, Kept
    <3>2. f.to \in Listen(p) /\ f.body.req = contact[p].pending
      BY <1>5, <3>1, KeptListen, Zenon
    <3> QED
      BY <1>2, <1>3, <1>5, <3>1, <3>2, AnswerKept, Zenon DEF Kept
  <2>2. ~Forgets(p)
    BY <1>1, <1>5, Zenon DEF Forgets
  <2>3. ~Asks(p)
    <3> SUFFICES ASSUME Asks(p) PROVE FALSE
      BY Zenon
    <3>1. f.body.req = FreshKey(p) \/ f.body.req = main[p].eph
      BY <1>5, Zenon DEF Asks
    <3>2. Known(f.body.req) /\ f.body.req[1] = p
      <4>1. FrameOwn(f)
        BY <1>5, Zenon DEF StepOf, OwnInv
      <4>2. Sender(f) = Other(p)
        BY <1>1, <1>5, Zenon DEF Sender, Owner
      <4> QED
        BY <4>1, <4>2, OthersOther, Zenon DEF FrameOwn
    <3> QED
      BY <1>1, <3>1, <3>2, FreshIsNew, Zenon DEF StepOf, Known
  <2>4. ASSUME NEW h \in Frame, down[p] # <<>>, h = Head(down[p]),
               down' = [down EXCEPT ![p] = Tail(@)], Takes(p, h)
        PROVE  AnswerOf(q, f)'
    <3>1. /\ Kept(p) /\ contact'[p].pending = contact[p].pending
          /\ h.body.op = "TEXT" /\ h.to \in Listen(p)
          /\ received'[p] = Append(received[p], h.body.id)
          /\ h.to # contact[p].oldRx => contact'[p].oldRx = None
      BY <2>4, Zenon DEF Takes
    <3>2. f.to \in Listen(p) /\ f.body.req = contact[p].pending
      BY <1>5, <3>1, KeptListen, Zenon
    <3>3. AnswerOf(p, f) /\ Owner(NewOf(f)) = Other(p)
      BY <1>2, <1>5, <3>2, Zenon
    <3>4. Got(p)' = Got(p) \cup {h.body.id}
      BY <2>4, <3>1, TakenText, Zenon DEF StepOf
    <3>5. Texts(NewOf(f))' \subseteq Texts(NewOf(f))
      BY <3>3, OthersOther, NoNewTexts, Zenon
    <3>6. Before(h.to, NewOf(f))
      <4>1. CASE h.to = f.to
        BY <3>3, <4>1, Zenon DEF AnswerOf
      <4>2. CASE h.to # f.to
        <5>1. h.to = contact[p].oldRx /\ f.to = contact[p].rx
          BY <1>5, <3>1, <3>2, <4>2, Zenon DEF Listen, Kept
        <5> QED
          BY <3>3, <5>1, BodyTypes, Zenon DEF AnswerOf
      <4> QED
        BY <4>1, <4>2, Zenon
    <3>7. h \in Texts(h.to)
      BY <2>4, <3>1, HeadOwn, Zenon DEF StepOf, Texts, OnText
    <3>8. After(p, NewOf(f))'
      BY <3>3, <3>4, <3>5, <3>6, <3>7, Zenon DEF AnswerOf, After, Before
    <3> QED
      BY <1>5, <3>1, <3>2, <3>3, <3>8, AnswerKept, Zenon DEF Kept
  <2>5. ASSUME NEW h \in Frame, Answers(p, h) PROVE AnswerOf(q, f)'
    <3>1. /\ contact'[p].rx = <<h.body.eph, FreshKey(p)>>
          /\ contact'[p].oldRx \in {None, contact[p].rx, contact[p].oldRx}
          /\ contact'[p].pending = contact[p].pending /\ received'[p] = received[p]
      BY <2>5, Zenon DEF Answers
    <3>2. f.to # contact'[p].rx
      BY <1>1, <1>5, <3>1, FreshChannel, Zenon
    <3>3. f.to \in Listen(p) /\ f.body.req = contact[p].pending
      BY <1>5, <3>1, <3>2, Zenon DEF Listen
    <3> QED
      BY <1>2, <1>3, <1>5, <3>1, <3>2, <3>3, AnswerKept, Zenon
  <2>6. ASSUME NEW h \in Frame, Installs(p, h) PROVE FALSE
    BY <1>1, <1>5, <2>6, Zenon DEF Installs
  <2> QED
    BY <1>5, <2>1, <2>2, <2>3, <2>4, <2>5, <2>6, Zenon DEF StepOf, Moves
<1>6. CASE f \notin Transit
  <2>1. PICK h \in Frame : Answers(p, h)
    <3>1. ~Quiet(p) /\ ~Forgets(p) /\ ~Asks(p) /\ ~Sends(p)
      BY <1>6, Zenon DEF Quiet, Forgets, Asks, Sends, Adds, AddsNone
    <3>2. \A h \in Frame : ~Takes(p, h) /\ ~Installs(p, h)
      BY <1>6, Zenon DEF Takes, Installs, Adds, AddsNone
    <3> QED
      BY <3>1, <3>2, Zenon DEF StepOf, Moves
  <2>2. /\ f.to = contact[p].tx /\ f.body.eph = FreshKey(p)
        /\ contact'[p].tx = <<FreshKey(p), h.body.eph>> /\ FreshKey(p) \in Key
        /\ contact'[p].pending = contact[p].pending
    BY <1>6, <2>1, Zenon DEF Answers, Adds
  <2>3. Owner(f.to) = p /\ q = Other(p) /\ q # p /\ Other(q) = p
    BY <1>1, <2>2, OthersOther DEF StepOf, OwnInv, PeerOwn, SessionOwn, From, Owner
  <2>4. contact'[q] = contact[q]
    BY <2>3, Zenon DEF StepOf, Moves, Steady
  <2>5. Texts(NewOf(f))' = {}
    BY <1>1, <2>2, FreshChannel, Zenon DEF NewOf
  <2>6. After(q, NewOf(f))' /\ \A a : Before(a, NewOf(f))'
    BY <2>5, Zenon DEF After, Before
  <2>7. (Gone(f.to) \/ IsBootstrap(f.to))'
    <3>1. From(f.to, p) /\ Known(f.to[1]) /\ f.to[1] \in Key /\ f.to[1] # None
      BY <1>1, <2>2, KeyTypes, Zenon DEF StepOf, OwnInv, PeerOwn, SessionOwn, From
    <3>2. f.to[1] # FreshKey(p)
      BY <3>1, FreshIsNew, Zenon DEF StepOf
    <3>3. f.to # contact'[p].tx
      BY <2>2, <3>2
    <3>4. f.to[1] # contact'[p].pending
      BY <2>2, <3>1 DEF StepOf, OwnInv, PeerOwn, PendingOwn
    <3> QED
      BY <2>3, <3>3, <3>4, Zenon DEF Gone
  <2>8. ASSUME NEW old \in Channel, old = contact'[q].oldRx, f.to = contact'[q].rx
        PROVE  Gone(old)'
    <3>1. old = contact[q].oldRx /\ contact[q].rx = contact[p].tx /\ contact[q].rx \in Channel
      BY <1>1, <2>2, <2>4, <2>8, Zenon
    <3>2. Gone(old)
      BY <2>3, <3>1, Zenon DEF HistoryInv, PairInv
    <3> QED
      BY <2>3, <3>1, <3>2, PairFacts, GoneKept, Zenon
  <2> QED
    BY <2>6, <2>7, <2>8, Zenon DEF AnswerOf
<1> QED
  BY <1>4, <1>5, <1>6, Zenon

LEMMA HistoryStep ==
    ASSUME NEW p \in Peers, StepOf(p), HistoryInv
    PROVE  HistoryInv'
  BY NewStep, PairStep, AnswerStep, Zenon DEF HistoryInv

LEMMA HistoryInit == Init => HistoryInv
<1> SUFFICES ASSUME Init PROVE HistoryInv
  BY Zenon
<1>1. Transit = {} /\ \A ch : Texts(ch) = {}
  BY NothingInTransit, Zenon DEF Texts
<1>2. \A p \in Peers : contact[p].oldRx = None
  BY Zenon DEF Init, BootstrapContact
<1>3. \A p \in Peers : NewInv(p) /\ AnswerInv(p)
  BY <1>1, Zenon DEF NewInv, After, AnswerInv
<1>4. \A p \in Peers : PairInv(p)
  BY <1>2, KeyTypes, Zenon DEF PairInv
<1> QED
  BY <1>3, <1>4, Zenon DEF HistoryInv

\* What a client has stored comes before what it stores next.
LEMMA InOrderStep ==
    ASSUME NEW p \in Peers, StepOf(p), HistoryInv, InOrderAtMostOnce
    PROVE  InOrderAtMostOnce'
<1> SUFFICES ASSUME NEW q \in Peers, NEW i \in DOMAIN received'[q], NEW j \in DOMAIN received'[q],
                    i < j
             PROVE  received'[q][i] < received'[q][j]
  BY Zenon DEF InOrderAtMostOnce
<1>1. CASE received'[q] = received[q]
  BY <1>1, Zenon DEF InOrderAtMostOnce
<1>2. CASE received'[q] # received[q]
  <2>1. q = p
    BY <1>2, Zenon DEF StepOf, Moves, Steady
  <2>2. PICK f \in Frame : down[p] # <<>> /\ f = Head(down[p]) /\ Takes(p, f)
    BY <1>2, <2>1, Zenon DEF StepOf, Moves, Quiet, Forgets, Asks, Sends, Answers, Installs
  <2>3. /\ f.body.op = "TEXT" /\ f.to \in Listen(p)
        /\ received'[p] = Append(received[p], f.body.id)
    BY <2>2, Zenon DEF Takes
  <2>4. f \in Texts(f.to)
    BY <2>2, <2>3, HeadOwn, Zenon DEF StepOf, Texts, OnText
  <2>5. \A id \in Got(p) : id < f.body.id
    BY <2>3, <2>4, Zenon DEF HistoryInv, NewInv, After
  <2>6. received[p] \in Seq(1 .. MaxTexts) /\ f.body.id \in 1 .. MaxTexts
    BY <2>3, MainTypes, BodyTypes, Zenon DEF StepOf
  <2>7. i \in DOMAIN received[p] /\ received'[p][i] = received[p][i]
    BY <2>1, <2>3, <2>6
  <2>8. CASE j \in DOMAIN received[p]
    <3>1. received'[p][j] = received[p][j]
      BY <2>1, <2>3, <2>6, <2>8
    <3> QED
      BY <2>1, <2>7, <2>8, <3>1, Zenon DEF InOrderAtMostOnce
  <2>9. CASE j \notin DOMAIN received[p]
    <3>1. received'[p][j] = f.body.id
      BY <2>1, <2>3, <2>6, <2>9
    <3>2. received[p][i] \in Got(p)
      BY <2>7, Zenon DEF Got, Elements
    <3> QED
      BY <2>1, <2>5, <2>7, <3>1, <3>2, Zenon
  <2> QED
    BY <2>8, <2>9, Zenon
<1> QED
  BY <1>1, <1>2, Zenon

\* The inductive invariant of the history.
HonestInv ==
    /\ TypeInv /\ SessionInv /\ OwnInv /\ OrderInv /\ HistoryInv
    /\ DeliveredInv /\ InOrderAtMostOnce

LEMMA HonestInit == Init => HonestInv
<1> SUFFICES ASSUME Init PROVE HonestInv
  BY Zenon
<1>1. \A p \in Peers : received[p] = <<>> /\ delivered[p] = {}
  BY Zenon DEF Init
<1>2. DeliveredInv /\ InOrderAtMostOnce
  BY <1>1 DEF DeliveredInv, InOrderAtMostOnce
<1> QED
  BY <1>2, TypeInit, SessionInit, OwnInit, OrderInit, HistoryInit, Zenon DEF HonestInv

LEMMA HonestStep == HonestInv /\ [Next]_vars => HonestInv'
<1> SUFFICES ASSUME HonestInv, [Next]_vars PROVE HonestInv'
  BY Zenon
<1>1. TypeInv' /\ SessionInv' /\ DeliveredInv'
  BY TypeStep, SessionStep, DeliveredStep, Zenon DEF HonestInv
<1>2. PICK p \in Peers : Moves(p)
  BY NextMoves, Zenon DEF HonestInv
<1>3. OwnInv' /\ OrderInv'
  BY <1>1, <1>2, OwnStep, OrderStep, Zenon DEF HonestInv
<1>4. StepOf(p)
  BY <1>1, <1>2, <1>3, Zenon DEF StepOf, HonestInv
<1> QED
  BY <1>1, <1>3, <1>4, HistoryStep, InOrderStep, Zenon DEF HonestInv

\* What a client shows its user is true, for any number of keys, texts and
\* failures: texts are stored in the order in which they were sent and at most
\* once, through rotations, lost frames, restarts and re-added contacts, and
\* DELIVERED is shown only for texts that the other side has stored.
THEOREM HistoryIsHonest == Spec => []HonestHistory
<1>1. HonestInv => HonestHistory
  BY OthersOther, Zenon
     DEF HonestInv, HonestHistory, DeliveredInv, DeliveredMeansReceived, Got, Elements
<1> QED
  BY <1>1, HonestInit, HonestStep, PTL DEF Spec

-----------------------------------------------------------------------------
(* Sessions converge when only the side with the smaller identity key      *)
(* rotates, as long as nobody restarts or adds a contact again.            *)

OneSided == Interval[Responder] = 0

Requests == {f \in Transit : f.body.op = "ROTATE_REQUEST"}
AnswersTo(k) == {f \in Transit : f.body.op = "ROTATE_ACK" /\ f.body.req = k}

Common == contact[Initiator].tx = contact[Responder].rx

\* A request is not answered yet, or its answer is all that the initiator lacks.
Unanswered == Common /\ AnswersTo(contact[Initiator].pending) = {}
Answered ==
    /\ Requests = {} /\ contact[Responder].tx[2] = contact[Initiator].pending
    /\ \A f \in AnswersTo(contact[Initiator].pending) : f.body.eph = contact[Responder].tx[1]

RolesInv ==
    /\ contact[Responder].pfsState = "IDLE" /\ ~Rotating(Responder)
    /\ Rotating(Initiator) => contact[Initiator].pfsState = "IDLE"

RequestInv ==
    /\ \A f \in Requests :
           /\ Sender(f) = Initiator /\ contact[Initiator].pfsState # "IDLE"
           /\ f.body.eph = contact[Initiator].pending
    /\ \A f, g \in Requests : f.to = g.to

CommonInv ==
    IF contact[Initiator].pfsState = "IDLE" THEN Common ELSE Unanswered \/ Answered

LoneInv == \A ch \in Channel : ChannelPath(ch, "ROTATE_REQUEST")

ConvergeInv == OneSided /\ Undisturbed => RolesInv /\ RequestInv /\ CommonInv /\ LoneInv

\* A step of an undisturbed one-sided session.
OneSidedStep(p) ==
    /\ StepOf(p) /\ OneSided /\ Undisturbed /\ Undisturbed'
    /\ RolesInv /\ RequestInv /\ CommonInv /\ LoneInv

\* The moves that are left, and who makes them.
LEMMA OneSidedMoves ==
    ASSUME NEW p \in Peers, OneSidedStep(p)
    PROVE  \/ Quiet(p) \/ Sends(p) \/ \E f \in Frame : Takes(p, f)
           \/ /\ p = Initiator /\ Asks(p) /\ Kept(p) /\ contact[p].pfsState = "IDLE"
              /\ Requests = {} /\ ~Rotating(p)'
           \/ \E f \in Frame :
                  /\ p = Responder /\ Answers(p, f) /\ f \in Requests
                  /\ contact'[p].pfsState = "IDLE" /\ Requests' = {}
           \/ \E f \in Frame : p = Initiator /\ Installs(p, f) /\ f \in Transit
<1>1. /\ Moves(p) /\ Undisturbed' /\ OwnInv /\ TypeInv /\ RolesInv /\ RequestInv
      /\ p \in {Initiator, Responder}
  BY Zenon DEF OneSidedStep, StepOf, Peers
<1>2. ~Forgets(p) /\ ~Reset(p)
  BY <1>1, Zenon DEF Forgets, Reset
<1>3. ASSUME Asks(p)
      PROVE  /\ p = Initiator /\ Kept(p) /\ contact[p].pfsState = "IDLE"
             /\ Requests = {} /\ ~Rotating(p)'
  <2>1. \/ p = Initiator /\ contact[p].pfsState = "IDLE" /\ ~contact[p].complete
           /\ main'[p] = main[p]
        \/ main[p].at = "request" /\ main'[p].eph = None
    BY <1>1, <1>3, Zenon DEF Asks
  <2>2. p = Initiator /\ contact[p].pfsState = "IDLE"
    BY <1>1, <2>1, Zenon DEF RolesInv, Rotating
  <2>3. Requests = {}
    BY <1>1, <2>2, Zenon DEF RequestInv
  <2>4. ~Rotating(p)'
    <3>1. CASE ~contact[p].complete /\ main'[p] = main[p]
      BY <1>1, <3>1 DEF OwnInv, PeerOwn, MainOwn, Rotating, Prompt
    <3>2. CASE main'[p].eph = None
      <4>1. main'[p] \in MainThreadState
        BY Zenon DEF OneSidedStep, StepOf, TypeInv, TypeOK
      <4> QED
        BY <3>2, <4>1, KeyTypes DEF MainThreadState, Rotating, Prompt
    <3> QED
      BY <2>1, <3>1, <3>2, Zenon
  <2> QED
    BY <1>2, <1>3, <2>2, <2>3, <2>4, Zenon DEF Asks
<1>4. ASSUME NEW f \in Frame, down[p] # <<>>, f = Head(down[p]),
             down' = [down EXCEPT ![p] = Tail(@)], Answers(p, f)
      PROVE  /\ p = Responder /\ f \in Requests
             /\ contact'[p].pfsState = "IDLE" /\ Requests' = {}
  <2>1. f.body.op = "ROTATE_REQUEST" /\ f.to \in Listen(p)
    BY <1>4, Zenon DEF Answers
  <2>2. f \in Requests /\ Sender(f) = Other(p)
    BY <1>1, <1>4, <2>1, HeadOwn, Zenon DEF Requests
  <2>3. p = Responder
    BY <1>1, <2>2, OthersOther, Zenon DEF RequestInv
  <2>4. contact'[p].pfsState = "IDLE"
    BY <1>1, <1>4, <2>3, Zenon DEF Answers, RolesInv
  <2>5. Requests' = {}
    <3> SUFFICES ASSUME NEW g \in Requests' PROVE FALSE
      BY Zenon
    <3>1. PICK h \in Frame : Adds(p, h) /\ h.body.op = "ROTATE_ACK"
      BY <1>4, Zenon DEF Answers
    <3>2. g \in Requests /\ g \in Transit' /\ g.body.op = "ROTATE_REQUEST"
      BY <3>1, Zenon DEF Requests, Adds
    <3>3. g.to = f.to
      BY <1>1, <2>2, <3>2, Zenon DEF RequestInv
    <3>4. Placed' /\ ChannelPath(f.to, "ROTATE_REQUEST")
      BY BodyTypes, Zenon DEF OneSidedStep, StepOf, OrderInv, LoneInv
    <3>5. Fine(f, g, f.to, "ROTATE_REQUEST")
      BY <1>1, <1>4, <2>1, <3>1, <3>2, <3>3, <3>4, TakenFirst, Zenon
    <3> QED
      BY <2>1, <3>2, <3>3, <3>5, Zenon DEF Fine
  <2> QED
    BY <2>2, <2>3, <2>4, <2>5, Zenon
<1>5. ASSUME NEW f \in Frame, down[p] # <<>>, f = Head(down[p]), Installs(p, f)
      PROVE  p = Initiator /\ f \in Transit
  <2>1. f.to \in Listen(p) /\ contact[p].pfsState = "ROTATION_REQUESTED"
    BY <1>5, Zenon DEF Installs
  <2> QED
    BY <1>1, <1>5, <2>1, HeadOwn, Zenon DEF RolesInv
<1> QED
  BY <1>1, <1>2, <1>3, <1>4, <1>5, Zenon DEF Moves

LEMMA OthersContact ==
    ASSUME NEW p \in Peers, OneSidedStep(p), NEW q \in Peers, q # p
    PROVE  contact'[q] = contact[q] /\ main'[q] = main[q]
  BY Zenon DEF OneSidedStep, StepOf, Moves, Steady

LEMMA RolesStep ==
    ASSUME NEW p \in Peers, OneSidedStep(p)
    PROVE  RolesInv'
<1>1. /\ p \in {Initiator, Responder} /\ Initiator # Responder
      /\ Initiator \in Peers /\ Responder \in Peers
  BY SessionAssumption, Zenon DEF Peers
<1>2. /\ RolesInv /\ OneSided
      /\ Rotating(p)' => \/ Rotating(p)
                         \/ Interval[p] > 0 /\ contact[p].pfsState = "IDLE" /\ contact'[p] = contact[p]
  BY Zenon DEF OneSidedStep, StepOf, Moves, Steady
<1>3. CASE p = Responder
  <2>1. contact'[Initiator] = contact[Initiator] /\ main'[Initiator] = main[Initiator]
    BY <1>1, <1>3, OthersContact, Zenon
  <2>2. ~Rotating(Responder)'
    BY <1>2, <1>3, SMT DEF RolesInv, OneSided
  <2>3. contact'[Responder].pfsState = "IDLE"
    BY <1>1, <1>2, <1>3, OneSidedMoves, Zenon DEF Quiet, Sends, Takes, RolesInv
  <2> QED
    BY <1>2, <2>1, <2>2, <2>3, Zenon DEF RolesInv, Rotating
<1>4. CASE p = Initiator
  <2>1. contact'[Responder] = contact[Responder] /\ main'[Responder] = main[Responder]
    BY <1>1, <1>4, OthersContact, Zenon
  <2>2. ASSUME Rotating(Initiator)' PROVE contact'[Initiator].pfsState = "IDLE"
    <3>1. contact[Initiator].pfsState = "IDLE"
      BY <1>2, <1>4, <2>2, Zenon DEF RolesInv
    <3> QED
      BY <1>1, <1>4, <2>2, <3>1, OneSidedMoves, Zenon DEF Quiet, Sends, Takes, Installs
  <2> QED
    BY <1>2, <2>1, <2>2, Zenon DEF RolesInv, Rotating
<1> QED
  BY <1>1, <1>3, <1>4, Zenon

\* Requests come into being only when none is under way.
LEMMA RequestsStep ==
    ASSUME NEW p \in Peers, OneSidedStep(p)
    PROVE  RequestInv' /\ LoneInv'
<1>1. RequestInv /\ LoneInv /\ TypeInv /\ OwnInv /\ Placed
  BY Zenon DEF OneSidedStep, StepOf, OrderInv
<1>2. ASSUME NEW g \in Frame, Adds(p, g), g.body.op # "ROTATE_REQUEST" \/ Requests = {},
             NEW ch \in Channel
      PROVE  ChannelPath(ch, "ROTATE_REQUEST")'
  <2>1. \A f \in Transit : Fine(f, g, ch, "ROTATE_REQUEST")
    BY <1>2, Zenon DEF Fine, Requests
  <2> QED
    BY <1>1, <1>2, <2>1, PathStep, Zenon DEF LoneInv
<1>3. ASSUME AddsNone(p) PROVE LoneInv' /\ Requests' \subseteq Requests
  BY <1>1, <1>3, PathStep, Zenon DEF LoneInv, AddsNone, Requests
<1>4. ASSUME NEW g \in Frame, Adds(p, g), g.body.op # "ROTATE_REQUEST"
      PROVE  LoneInv' /\ Requests' \subseteq Requests
  BY <1>2, <1>4, Zenon DEF LoneInv, Adds, Requests
<1>5. CASE Quiet(p) \/ Sends(p) \/ \E f \in Frame : Takes(p, f)
  <2>1. LoneInv' /\ Requests' \subseteq Requests
    BY <1>3, <1>4, <1>5, Zenon DEF Quiet, Sends, Takes
  <2>2. \A q \in Peers : /\ contact'[q].pfsState = contact[q].pfsState
                         /\ contact'[q].pending = contact[q].pending
    BY <1>5, OthersContact, Zenon DEF Quiet, Sends, Takes
  <2> QED
    BY <1>1, <2>1, <2>2, Zenon DEF RequestInv, Peers
<1>6. CASE p = Initiator /\ Asks(p) /\ Requests = {}
  <2>1. PICK g \in Frame :
           /\ Adds(p, g) /\ g.to = contact'[p].tx /\ contact'[p].pending = g.body.eph
           /\ contact'[p].pfsState = "ROTATION_REQUESTED"
    BY <1>6, Zenon DEF Asks
  <2>2. LoneInv'
    BY <1>2, <1>6, <2>1, Zenon DEF LoneInv
  <2>3. \A f \in Requests' : f = g
    BY <1>6, <2>1, Zenon DEF Requests, Adds
  <2>4. Sender(g) = p
    BY <2>1, Zenon DEF OneSidedStep, StepOf, OwnInv, PeerOwn, SessionOwn, From, Sender
  <2> QED
    BY <1>6, <2>1, <2>2, <2>3, <2>4, Zenon DEF RequestInv
<1>7. ASSUME NEW f \in Frame, Answers(p, f), Requests' = {} PROVE RequestInv' /\ LoneInv'
  <2>1. PICK g \in Frame : Adds(p, g) /\ g.body.op = "ROTATE_ACK"
    BY <1>7, Zenon DEF Answers
  <2> QED
    BY <1>4, <1>7, <2>1, Zenon DEF RequestInv
<1>8. ASSUME NEW f \in Frame, p = Initiator, Installs(p, f), f \in Transit
      PROVE  RequestInv' /\ LoneInv'
  <2>1. LoneInv' /\ Requests' \subseteq Requests
    BY <1>3, <1>8, Zenon DEF Installs
  <2>2. Requests = {}
    <3>1. /\ f \in AnswersTo(contact[Initiator].pending)
          /\ contact[Initiator].pfsState # "IDLE"
      BY <1>8, Zenon DEF Installs, AnswersTo
    <3> QED
      BY <3>1, Zenon DEF OneSidedStep, CommonInv, Unanswered, Answered
  <2> QED
    BY <2>1, <2>2, Zenon DEF RequestInv
<1> QED
  BY <1>5, <1>6, <1>7, <1>8, OneSidedMoves, Zenon

LEMMA CommonStep ==
    ASSUME NEW p \in Peers, OneSidedStep(p)
    PROVE  CommonInv'
<1>1. /\ p \in {Initiator, Responder} /\ Initiator # Responder
      /\ Initiator \in Peers /\ Responder \in Peers
      /\ CommonInv /\ RequestInv /\ OwnInv /\ OwnInv'
  BY SessionAssumption, Zenon DEF Peers, OneSidedStep, StepOf
<1>2. CASE Quiet(p) \/ Sends(p) \/ \E f \in Frame : Takes(p, f)
  <2>1. \A q \in Peers : /\ contact'[q].tx = contact[q].tx /\ contact'[q].rx = contact[q].rx
                         /\ contact'[q].pfsState = contact[q].pfsState
                         /\ contact'[q].pending = contact[q].pending
    BY <1>2, OthersContact, Zenon DEF Quiet, Sends, Takes, Kept
  <2>2. Requests' \subseteq Requests /\ \A k : AnswersTo(k)' \subseteq AnswersTo(k)
    BY <1>2, Zenon DEF Quiet, Sends, Takes, Adds, AddsNone, Requests, AnswersTo
  <2>3. AnswersTo(contact[Initiator].pending)' \subseteq AnswersTo(contact[Initiator].pending)
    BY <1>1, <2>1, <2>2, Zenon DEF AnswersTo
  <2>4. Common' <=> Common
    BY <1>1, <2>1, Zenon DEF Common
  <2>5. Unanswered => Unanswered'
    BY <2>3, <2>4, Zenon DEF Unanswered
  <2>6. Answered => Answered'
    BY <1>1, <2>1, <2>2, <2>3, Zenon DEF Answered
  <2> QED
    BY <1>1, <2>1, <2>4, <2>5, <2>6, Zenon DEF CommonInv
<1>3. CASE p = Initiator /\ Asks(p) /\ Kept(p) /\ contact[p].pfsState = "IDLE"
  <2>1. contact'[Responder] = contact[Responder] /\ Common
    BY <1>1, <1>3, OthersContact, Zenon DEF CommonInv
  <2>2. Common' /\ contact'[Initiator].pfsState # "IDLE"
    BY <1>3, <2>1, Zenon DEF Common, Kept, Asks
  <2>3. \A f \in Transit' : f.body.op = "ROTATE_ACK" => f \in Transit /\ f.body.req \in Key
    BY <1>3, BodyTypes, Zenon DEF Asks, Adds, Transit
  <2>4. contact'[p].pending = FreshKey(p) \/ contact'[p].pending = main[p].eph
    BY <1>3, Zenon DEF Asks
  <2>5. ASSUME NEW f \in Transit', f.body.op = "ROTATE_ACK", f.body.req = contact'[p].pending
        PROVE  FALSE
    <3>1. f \in Transit /\ f.body.req \in Key /\ Known(f.body.req)
      BY <1>1, <2>3, <2>5, Zenon DEF OwnInv, FrameOwn
    <3>2. f.body.req # FreshKey(p)
      BY <3>1, FreshIsNew, Zenon DEF OneSidedStep, StepOf
    <3>3. f.body.req[1] = p
      <4>1. f.body.req = contact'[p].pending /\ contact'[p].pending # None
        BY <2>5, <3>1, KeyTypes, Zenon
      <4> QED
        BY <1>1, <4>1, Zenon DEF OwnInv, PeerOwn, PendingOwn
    <3> QED
      BY <2>4, <2>5, <3>1, <3>2, <3>3, Zenon DEF Known
  <2> QED
    BY <1>3, <2>2, <2>5, Zenon DEF CommonInv, Unanswered, AnswersTo
<1>4. ASSUME NEW f \in Frame, p = Responder, Answers(p, f), f \in Requests, Requests' = {}
      PROVE  CommonInv'
  <2>1. contact'[Initiator] = contact[Initiator]
    BY <1>1, <1>4, OthersContact, Zenon
  <2>2. contact[Initiator].pfsState # "IDLE" /\ f.body.eph = contact[Initiator].pending
    BY <1>1, <1>4, Zenon DEF RequestInv
  <2>3. AnswersTo(contact[Initiator].pending) = {}
    BY <1>1, <1>4, <2>2, Zenon DEF CommonInv, Unanswered, Answered
  <2>4. contact'[Responder].tx = <<FreshKey(p), f.body.eph>>
    BY <1>4, Zenon DEF Answers
  <2>5. \A g \in Transit' : g.body.op = "ROTATE_ACK" /\ g.body.req = contact[Initiator].pending
                            => g.body.eph = FreshKey(p)
    BY <1>4, <2>3, Zenon DEF Answers, Adds, AnswersTo
  <2>6. Answered'
    BY <1>4, <2>1, <2>2, <2>4, <2>5 DEF Answered, AnswersTo
  <2> QED
    BY <2>1, <2>2, <2>6, Zenon DEF CommonInv
<1>5. ASSUME NEW f \in Frame, p = Initiator, Installs(p, f), f \in Transit PROVE CommonInv'
  <2>1. /\ f \in AnswersTo(contact[Initiator].pending)
        /\ contact[Initiator].pfsState # "IDLE" /\ f.body.req = contact[Initiator].pending
        /\ contact'[Initiator].tx = <<f.body.req, f.body.eph>>
        /\ contact'[Initiator].pfsState = "IDLE"
    BY <1>5, Zenon DEF Installs, AnswersTo
  <2>2. /\ contact[Responder].tx[2] = f.body.req /\ contact[Responder].tx[1] = f.body.eph
    BY <1>1, <2>1, Zenon DEF CommonInv, Unanswered, Answered
  <2>3. contact[Responder].rx = <<f.body.req, f.body.eph>>
    BY <1>1, <2>2, Zenon DEF OwnInv, PeerOwn, SessionOwn, Mirror
  <2>4. contact'[Responder] = contact[Responder]
    BY <1>1, <1>5, OthersContact, Zenon
  <2> QED
    BY <2>1, <2>3, <2>4, Zenon DEF CommonInv, Common
<1> QED
  BY <1>2, <1>3, <1>4, <1>5, OneSidedMoves, Zenon

LEMMA ConvergeInit == Init => ConvergeInv
<1> SUFFICES ASSUME Init PROVE ConvergeInv
  BY Zenon
<1>1. Initiator \in Peers /\ Responder \in Peers /\ Other(Initiator) = Responder
      /\ Other(Responder) = Initiator
  BY SessionAssumption, Zenon DEF Peers, Other
<1>2. RolesInv
  BY <1>1, Zenon DEF Init, RolesInv, Rotating, Prompt, BootstrapContact
<1>3. RequestInv
  BY NothingInTransit, Zenon DEF RequestInv, Requests
<1>4. CommonInv
  BY <1>1, Zenon DEF Init, CommonInv, Common, BootstrapContact, DerivePairwiseMailboxes
<1>5. LoneInv
  BY PathInit, Zenon DEF LoneInv
<1> QED
  BY <1>2, <1>3, <1>4, <1>5, Zenon DEF ConvergeInv

LEMMA ConvergeStep == HonestInv /\ HonestInv' /\ ConvergeInv /\ [Next]_vars => ConvergeInv'
<1> SUFFICES ASSUME HonestInv, HonestInv', ConvergeInv, [Next]_vars, OneSided, Undisturbed'
             PROVE  RolesInv' /\ RequestInv' /\ CommonInv' /\ LoneInv'
  BY Zenon DEF ConvergeInv, OneSided
<1>1. PICK p \in Peers : Moves(p)
  BY NextMoves, Zenon DEF HonestInv
<1>2. Undisturbed
  BY <1>1, Zenon DEF Moves, Steady
<1>3. OneSidedStep(p)
  BY <1>1, <1>2, Zenon DEF OneSidedStep, StepOf, HonestInv, ConvergeInv
<1> QED
  BY <1>3, RolesStep, RequestsStep, CommonStep, Zenon

\* When only the client with the smaller identity key rotates, two clients for
\* which no handshake is under way use the same session: whatever frames were
\* lost, with any rotation interval and any number of texts, as long as nobody
\* restarts and no contact is added again.
THEOREM OneSidedSessionsConverge ==
    Spec => [](OneSided /\ Undisturbed => SessionsConverge)
<1>1. HonestInv /\ ConvergeInv => (OneSided /\ Undisturbed => SessionsConverge)
  <2> SUFFICES ASSUME HonestInv, ConvergeInv, OneSided, Undisturbed, Quiescent
               PROVE  /\ contact[Initiator].tx = contact[Responder].rx
                      /\ contact[Initiator].rx = contact[Responder].tx
    BY Zenon DEF SessionsConverge
  <2>1. Initiator \in Peers /\ Responder \in Peers
    BY Zenon DEF Peers
  <2>2. contact[Initiator].tx = contact[Responder].rx
    BY <2>1, Zenon DEF ConvergeInv, CommonInv, Common, Quiescent
  <2>3. /\ contact[Responder].rx = Mirror(contact[Responder].tx)
        /\ contact[Initiator].rx = Mirror(contact[Initiator].tx)
        /\ contact[Responder].tx \in Channel
    BY <2>1, Zenon DEF HonestInv, OwnInv, PeerOwn, SessionOwn, From
  <2> QED
    BY <2>2, <2>3, KeyTypes DEF Mirror
<1> QED
  BY <1>1, HonestInit, HonestStep, ConvergeInit, ConvergeStep, PTL DEF Spec
=============================================================================
