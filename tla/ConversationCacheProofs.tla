---------------------- MODULE ConversationCacheProofs -----------------------
(***************************************************************************)
(* Proofs about the history file, for every set of contents, every choice  *)
(* of which lines exceed the stream's buffer, any number of entries and of *)
(* crashes.                                                                *)
(*                                                                         *)
(* First what LoadHistory reads from a file that is being written, then    *)
(* three inductive invariants: OrderInv (the history and the copy that the *)
(* network thread holds are ordered, and the entry of a thread that is     *)
(* appending is newer than both), IntactInv (what survives while lines fit *)
(* the buffer and the disk has room) and CountInv (receipts are counted).  *)
(***************************************************************************)
EXTENDS ConversationCache, FiniteSetTheorems, WellFoundedInduction, TLAPS

\* A set of naturals that is not empty has a least member.
LEMMA NatLeast ==
    ASSUME NEW T \in SUBSET Nat, T # {}
    PROVE  \E m \in T : \A k \in T : m <= k
<1> DEFINE R == OpToRel(<, Nat)
<1>1. IsWellFoundedOn(R, Nat)
  BY NatLessThanWellFounded, Zenon
<1>2. \A a, b \in Nat : a < b => <<a, b>> \in R
  BY Zenon DEF OpToRel
<1> HIDE DEF R
<1>3. PICK m \in T : \A k \in T : ~ (<<k, m>> \in R)
  BY <1>1, WFMin, Zenon
<1>4. \A k \in T : ~(k < m) /\ k \in Nat /\ m \in Nat
  BY <1>2, <1>3, Zenon
<1>5. \A k \in T : m <= k
  BY <1>4
<1> QED
  BY <1>5, Zenon

\* Induction, as a property of sets of numbers.
LEMMA NatInduct ==
    ASSUME NEW B, 0 \in B, \A n \in Nat : n \in B => n + 1 \in B
    PROVE  \A n \in Nat : n \in B
<1> DEFINE T == Nat \ B
<1> SUFFICES ASSUME T # {} PROVE FALSE
  BY Zenon
<1>1. PICK m \in T : \A k \in T : m <= k
  BY NatLeast, Zenon
<1>2. m \in Nat /\ m # 0
  BY Zenon
<1>3. m - 1 \in Nat /\ ~(m <= m - 1) /\ (m - 1) + 1 = m
  BY <1>2
<1>4. m - 1 \in B
  BY <1>1, <1>3, Zenon
<1> QED
  BY <1>3, <1>4, Zenon

-----------------------------------------------------------------------------
(* What LoadHistory computes. *)

AnyPiece == [entry : Entry, part : {"all", "head", "tail"}]

\* g is the result of the loop after each of the first n pieces of f.
Loads(g, f, n) == g = [i \in 0 .. n |-> IF i = 0 THEN <<>> ELSE g[i - 1] \o Read(f, i)]

\* Such a g exists, for every number of pieces.
LEMMA LoadsExists ==
    ASSUME NEW f
    PROVE  \A n \in Nat : \E g : Loads(g, f, n)
<1> DEFINE B == {n \in Nat : \E g : Loads(g, f, n)}
<1>1. 0 \in B
  <2> DEFINE g == [i \in 0 .. 0 |-> <<>>]
  <2>1. g = [i \in 0 .. 0 |-> IF i = 0 THEN <<>> ELSE g[i - 1] \o Read(f, i)]
    OBVIOUS
  <2> QED
    BY <2>1, Zenon DEF Loads
<1>2. ASSUME NEW n \in Nat, n \in B PROVE n + 1 \in B
  <2>1. PICK g : Loads(g, f, n)
    BY <1>2, Zenon
  <2> DEFINE h == [i \in 0 .. n + 1 |-> IF i = 0 THEN <<>> ELSE g[i - 1] \o Read(f, i)]
  <2>2. \A i \in 0 .. n : g[i] = IF i = 0 THEN <<>> ELSE g[i - 1] \o Read(f, i)
    BY <2>1, Zenon DEF Loads
  <2>3. \A i \in 0 .. n + 1 : i # 0 => i - 1 \in 0 .. n /\ i - 1 \in 0 .. n + 1
    OBVIOUS
  <2>4. \A i \in 0 .. n + 1 : i # 0 => h[i - 1] = g[i - 1]
    BY <2>2, <2>3, Zenon
  <2>5. h = [i \in 0 .. n + 1 |-> IF i = 0 THEN <<>> ELSE h[i - 1] \o Read(f, i)]
    BY <2>4, Zenon
  <2>6. \E k : Loads(k, f, n + 1)
    BY <2>5, Zenon DEF Loads
  <2> QED
    BY <2>6
<1> HIDE DEF B
<1>3. \A n \in Nat : n \in B
  BY <1>1, <1>2, NatInduct, Zenon
<1> QED
  BY <1>3, Zenon DEF B

\* The result for a file depends on what was read so far only.
LEMMA LoadsAgree ==
    ASSUME NEW f, NEW e, NEW g, NEW h, NEW m \in Nat, NEW n \in Nat, m <= n,
           Loads(g, f, m), Loads(h, e, n),
           \A i \in 1 .. m : Read(f, i) = Read(e, i)
    PROVE  g[m] = h[m]
<1> DEFINE B == {i \in Nat : i <= m => g[i] = h[i]}
<1>1. 0 \in B
  BY DEF Loads
<1>2. ASSUME NEW i \in Nat, i \in B PROVE i + 1 \in B
  <2> SUFFICES ASSUME i + 1 <= m PROVE g[i + 1] = h[i + 1]
    OBVIOUS
  <2>1. i + 1 \in 0 .. m /\ i + 1 \in 0 .. n /\ i + 1 \in 1 .. m /\ i + 1 # 0 /\ (i + 1) - 1 = i
    OBVIOUS
  <2>2. g[i] = h[i]
    BY <1>2
  <2>3. g[i + 1] = g[i] \o Read(f, i + 1) /\ h[i + 1] = h[i] \o Read(e, i + 1)
    BY <2>1, Zenon DEF Loads
  <2> QED
    BY <2>1, <2>2, <2>3, Zenon
<1> HIDE DEF B
<1>3. \A i \in Nat : i \in B
  BY <1>1, <1>2, NatInduct, Zenon
<1> QED
  BY <1>3 DEF B

\* LoadHistory returns the last of them.
LEMMA LoadedBy ==
    ASSUME NEW f, Len(f) \in Nat
    PROVE  \E g : Loads(g, f, Len(f)) /\ LoadHistory(f) = g[Len(f)]
<1> DEFINE g == CHOOSE x : Loads(x, f, Len(f))
<1>1. Loads(g, f, Len(f))
  BY LoadsExists, Zenon
<1>2. LoadHistory(f) = g[Len(f)]
  BY Zenon DEF LoadHistory, Loads
<1> HIDE DEF g
<1> QED
  BY <1>1, <1>2, Zenon

LEMMA LoadEmpty == LoadHistory(<<>>) = <<>>
  BY LoadedBy DEF Loads

\* Append, on files.
LEMMA AppendFacts ==
    ASSUME NEW f \in Seq(AnyPiece), NEW p \in AnyPiece
    PROVE  /\ Append(f, p) \in Seq(AnyPiece)
           /\ Len(f) \in Nat /\ Len(Append(f, p)) = Len(f) + 1
           /\ Append(f, p)[Len(f) + 1] = p
           /\ \A i \in 1 .. Len(f) : Append(f, p)[i] = f[i]
  OBVIOUS

\* A piece that is appended does not change what the pieces before it give.
LEMMA LoadAppend ==
    ASSUME NEW f \in Seq(AnyPiece), NEW p \in AnyPiece
    PROVE  LoadHistory(Append(f, p)) = LoadHistory(f) \o Read(Append(f, p), Len(f) + 1)
<1> DEFINE e == Append(f, p)
<1> DEFINE n == Len(f)
<1>1. n \in Nat /\ Len(e) = n + 1 /\ \A i \in 1 .. n : e[i] = f[i]
  BY AppendFacts, Zenon
<1>2. \A i \in 1 .. n : Read(f, i) = Read(e, i)
  <2> SUFFICES ASSUME NEW i \in 1 .. n PROVE Read(f, i) = Read(e, i)
    BY Zenon
  <2>1. e[i] = f[i] /\ (i - 1 >= 1 => e[i - 1] = f[i - 1]) /\ (i - 2 >= 1 => e[i - 2] = f[i - 2])
    BY <1>1
  <2> QED
    BY <2>1, Zenon DEF Read, Parses
<1> HIDE DEF e
<1>3. PICK g : Loads(g, f, n) /\ LoadHistory(f) = g[n]
  BY <1>1, LoadedBy, Zenon
<1>4. PICK h : Loads(h, e, n + 1) /\ LoadHistory(e) = h[n + 1]
  BY <1>1, LoadedBy
<1> HIDE DEF n
<1>5. g[n] = h[n]
  BY <1>1, <1>2, <1>3, <1>4, LoadsAgree
<1>6. h[n + 1] = h[n] \o Read(e, n + 1)
  <2>1. n + 1 \in 0 .. n + 1 /\ n + 1 # 0 /\ (n + 1) - 1 = n
    BY <1>1
  <2> QED
    BY <1>4, <2>1, Zenon DEF Loads
<1> QED
  BY <1>3, <1>4, <1>5, <1>6, Zenon DEF e, n

LEMMA ParsedEntry == \A e \in Entry : ParseCacheEntry(e) = e
  BY Zenon DEF Entry, ParseCacheEntry, StringToStatus

\* A piece gives the entry that was written, or nothing.
LEMMA ReadIsEntry ==
    ASSUME NEW f \in Seq(AnyPiece), NEW i \in 1 .. Len(f)
    PROVE  /\ f[i] \in AnyPiece /\ f[i].entry \in Entry
           /\ Read(f, i) = IF Parses(f, i) THEN <<f[i].entry>> ELSE <<>>
           /\ Read(f, i) \in Seq(Entry)
<1>1. f[i] \in AnyPiece
  OBVIOUS
<1>2. f[i].entry \in Entry
  BY <1>1, Zenon DEF AnyPiece
<1>3. Read(f, i) = IF Parses(f, i) THEN <<f[i].entry>> ELSE <<>>
  BY <1>2, ParsedEntry, Zenon DEF Read
<1>4. <<f[i].entry>> \in Seq(Entry) /\ <<>> \in Seq(Entry)
  BY <1>2
<1> QED
  BY <1>1, <1>2, <1>3, <1>4, Zenon

\* A file of pieces is read as a sequence of entries.
LEMMA LoadType ==
    ASSUME NEW f \in Seq(AnyPiece)
    PROVE  LoadHistory(f) \in Seq(Entry)
<1>1. Len(f) \in Nat
  OBVIOUS
<1>2. PICK g : Loads(g, f, Len(f)) /\ LoadHistory(f) = g[Len(f)]
  BY <1>1, LoadedBy, Zenon
<1> DEFINE B == {i \in Nat : i <= Len(f) => g[i] \in Seq(Entry)}
<1>3. 0 \in B
  <2>1. <<>> \in Seq(Entry) /\ 0 \in 0 .. Len(f)
    BY <1>1
  <2>2. g[0] = <<>>
    BY <1>2, <2>1, Zenon DEF Loads
  <2> QED
    BY <2>1, <2>2, Zenon
<1>4. ASSUME NEW i \in Nat, i \in B PROVE i + 1 \in B
  <2> SUFFICES ASSUME i + 1 <= Len(f) PROVE g[i + 1] \in Seq(Entry)
    OBVIOUS
  <2>1. /\ i + 1 \in 0 .. Len(f) /\ i + 1 \in 1 .. Len(f) /\ i + 1 # 0 /\ (i + 1) - 1 = i
        /\ i <= Len(f)
    BY <1>1
  <2>2. g[i] \in Seq(Entry)
    BY <1>4, <2>1, Zenon
  <2>3. g[i + 1] = g[i] \o Read(f, i + 1) /\ Read(f, i + 1) \in Seq(Entry)
    BY <1>2, <2>1, ReadIsEntry, Zenon DEF Loads
  <2>4. \A s, t \in Seq(Entry) : s \o t \in Seq(Entry)
    OBVIOUS
  <2> QED
    BY <2>2, <2>3, <2>4, Zenon
<1> HIDE DEF B
<1>5. \A i \in Nat : i \in B
  BY <1>3, <1>4, NatInduct, Zenon
<1> QED
  BY <1>1, <1>2, <1>5 DEF B

\* What an append does to the history that is read back: the entry comes last,
\* or nothing comes.
LEMMA AppendLoads ==
    ASSUME NEW f \in Seq(AnyPiece), NEW p \in AnyPiece
    PROVE  /\ LoadHistory(Append(f, p)) \in {LoadHistory(f), Append(LoadHistory(f), p.entry)}
           /\ p.part = "head" => LoadHistory(Append(f, p)) = LoadHistory(f)
           /\ p.part = "all" /\ (\A i \in 1 .. Len(f) : f[i].part = "all") =>
                  LoadHistory(Append(f, p)) = Append(LoadHistory(f), p.entry)
<1> DEFINE e == Append(f, p)
<1> DEFINE n == Len(f) + 1
<1>1. /\ e \in Seq(AnyPiece) /\ n \in 1 .. Len(e) /\ e[n] = p /\ Len(f) \in Nat
      /\ \A i \in 1 .. Len(f) : e[i] = f[i]
  BY AppendFacts
<1>2. LoadHistory(e) = LoadHistory(f) \o Read(e, n)
  BY LoadAppend, Zenon
<1>3. n - 1 = Len(f) /\ (n - 1 >= 1 => n - 1 \in 1 .. Len(f))
  BY <1>1
<1> HIDE DEF e, n
<1>4. Read(e, n) = IF Parses(e, n) THEN <<p.entry>> ELSE <<>>
  BY <1>1, ReadIsEntry, Zenon
<1>5. p.part = "head" => ~Parses(e, n)
  BY <1>1, Zenon DEF Parses
<1>6. p.part = "all" /\ (\A i \in 1 .. Len(f) : f[i].part = "all") => Parses(e, n)
  BY <1>1, <1>3, Zenon DEF Parses
<1>7. p.entry \in Entry
  BY Zenon DEF AnyPiece
<1>8. \A s \in Seq(Entry) : s \o <<>> = s /\ s \o <<p.entry>> = Append(s, p.entry)
  BY <1>7
<1>9. LoadHistory(f) \in Seq(Entry)
  BY LoadType, Zenon
<1>10. LoadHistory(e) = IF Parses(e, n) THEN Append(LoadHistory(f), p.entry) ELSE LoadHistory(f)
  BY <1>2, <1>4, <1>8, <1>9, Zenon
<1> QED
  BY <1>5, <1>6, <1>10, Zenon DEF e

LEMMA PieceParts == \A e, q : Piece(e, q).entry = e /\ Piece(e, q).part = q
  BY Zenon DEF Piece

\* What UpdateMessageStatus writes: one whole line per entry.
LEMMA PiecesFacts ==
    ASSUME NEW h \in Seq(Entry)
    PROVE  /\ Pieces(h) \in Seq(AnyPiece) /\ Len(Pieces(h)) = Len(h) /\ Len(h) \in Nat
           /\ \A i \in 1 .. Len(h) : h[i] \in Entry /\ Pieces(h)[i] = Piece(h[i], "all")
           /\ \A e \in Entry : Piece(e, "all") \in AnyPiece /\ Piece(e, "head") \in AnyPiece
<1>1. \A e \in Entry : Piece(e, "all") \in AnyPiece /\ Piece(e, "head") \in AnyPiece
  BY Zenon DEF Piece, AnyPiece
<1>2. Len(h) \in Nat /\ DOMAIN h = 1 .. Len(h) /\ \A i \in 1 .. Len(h) : h[i] \in Entry
  OBVIOUS
<1>3. Pieces(h) = [i \in 1 .. Len(h) |-> Piece(h[i], "all")]
  BY <1>2, Zenon DEF Pieces
<1>4. \A i \in 1 .. Len(h) : Piece(h[i], "all") \in AnyPiece
  BY <1>1, <1>2, Zenon
<1>5. Pieces(h) \in Seq(AnyPiece) /\ Len(Pieces(h)) = Len(h)
  BY <1>2, <1>3, <1>4
<1> QED
  BY <1>1, <1>2, <1>3, <1>5, Zenon

LEMMA LongerPrefix ==
    ASSUME NEW S, NEW s \in Seq(S), NEW k \in Nat, k + 1 <= Len(s)
    PROVE  SubSeq(s, 1, k + 1) = Append(SubSeq(s, 1, k), s[k + 1])
  OBVIOUS

LEMMA PrefixFacts ==
    ASSUME NEW S, NEW s \in Seq(S), NEW k \in Nat, k <= Len(s)
    PROVE  /\ SubSeq(s, 1, k) \in Seq(S) /\ Len(SubSeq(s, 1, k)) = k
           /\ \A i \in 1 .. k : SubSeq(s, 1, k)[i] = s[i]
  OBVIOUS

\* What UpdateMessageStatus has written is read back as it was.
LEMMA LoadPieces ==
    ASSUME NEW h \in Seq(Entry)
    PROVE  \A k \in 0 .. Len(h) :
               LoadHistory(SubSeq(Pieces(h), 1, k)) = SubSeq(h, 1, k)
<1> DEFINE p == Pieces(h)
<1> DEFINE B == {k \in Nat : k <= Len(h) => LoadHistory(SubSeq(p, 1, k)) = SubSeq(h, 1, k)}
<1>0. /\ p \in Seq(AnyPiece) /\ Len(p) = Len(h) /\ Len(h) \in Nat
      /\ \A i \in 1 .. Len(h) : h[i] \in Entry /\ p[i] = Piece(h[i], "all")
      /\ \A e \in Entry : Piece(e, "all") \in AnyPiece
  BY PiecesFacts, Zenon
<1> HIDE DEF p
<1>1. 0 \in B
  <2>1. SubSeq(p, 1, 0) = <<>> /\ SubSeq(h, 1, 0) = <<>>
    BY <1>0
  <2> QED
    BY <2>1, LoadEmpty, Zenon
<1>2. ASSUME NEW k \in Nat, k \in B PROVE k + 1 \in B
  <2> SUFFICES ASSUME k + 1 <= Len(h)
               PROVE  LoadHistory(SubSeq(p, 1, k + 1)) = SubSeq(h, 1, k + 1)
    OBVIOUS
  <2>1. k <= Len(h) /\ k + 1 \in 1 .. Len(h) /\ \A i \in 1 .. k : i \in 1 .. Len(h)
    BY <1>0
  <2>2. LoadHistory(SubSeq(p, 1, k)) = SubSeq(h, 1, k)
    BY <1>2, <2>1, Zenon
  <2>3. /\ SubSeq(p, 1, k + 1) = Append(SubSeq(p, 1, k), p[k + 1])
        /\ SubSeq(h, 1, k + 1) = Append(SubSeq(h, 1, k), h[k + 1])
    BY <1>0, LongerPrefix, Zenon
  <2>4. /\ SubSeq(p, 1, k) \in Seq(AnyPiece) /\ Len(SubSeq(p, 1, k)) = k
        /\ \A i \in 1 .. k : SubSeq(p, 1, k)[i] = p[i]
    BY <1>0, <2>1, PrefixFacts, Zenon
  <2>5. \A i \in 1 .. k : SubSeq(p, 1, k)[i].part = "all"
    BY <1>0, <2>1, <2>4, PieceParts
  <2>6. p[k + 1] \in AnyPiece /\ p[k + 1].part = "all" /\ p[k + 1].entry = h[k + 1]
    BY <1>0, <2>1, PieceParts
  <2>7. LoadHistory(Append(SubSeq(p, 1, k), p[k + 1]))
            = Append(LoadHistory(SubSeq(p, 1, k)), h[k + 1])
    BY <2>4, <2>5, <2>6, AppendLoads, ZenonT(20)
  <2> QED
    BY <2>2, <2>3, <2>7, Zenon
<1> HIDE DEF B
<1>3. \A k \in Nat : k \in B
  BY <1>1, <1>2, NatInduct, Zenon
<1> QED
  BY <1>0, <1>3 DEF B, p

\* Of a rewrite that was cut short a part is read back, of a whole one all.
LEMMA FlushedLoads ==
    ASSUME NEW h \in Seq(Entry), NEW f \in Flushed(h)
    PROVE  /\ f \in Seq(AnyPiece)
           /\ \E k \in 0 .. Len(h) : LoadHistory(f) = SubSeq(h, 1, k)
           /\ f = Pieces(h) => /\ LoadHistory(f) = h
                               /\ \A i \in 1 .. Len(f) : f[i].part = "all"
<1>0. /\ Pieces(h) \in Seq(AnyPiece) /\ Len(Pieces(h)) = Len(h) /\ Len(h) \in Nat
      /\ \A i \in 1 .. Len(h) : h[i] \in Entry /\ Pieces(h)[i] = Piece(h[i], "all")
      /\ \A e \in Entry : Piece(e, "head") \in AnyPiece
  BY PiecesFacts, Zenon
<1>1. ASSUME f = Pieces(h)
      PROVE  LoadHistory(f) = h /\ \A i \in 1 .. Len(f) : f[i].part = "all"
  <2>1. \A S : \A s \in Seq(S) : SubSeq(s, 1, Len(s)) = s
    OBVIOUS
  <2>2. SubSeq(f, 1, Len(h)) = f /\ SubSeq(h, 1, Len(h)) = h
    BY <1>0, <1>1, <2>1, Zenon
  <2>3. LoadHistory(f) = h
    <3>1. Len(h) \in 0 .. Len(h)
      BY <1>0
    <3>2. LoadHistory(SubSeq(Pieces(h), 1, Len(h))) = SubSeq(h, 1, Len(h))
      BY <3>1, LoadPieces, Zenon
    <3> QED
      BY <1>1, <2>2, <3>2, Zenon
  <2> QED
    BY <1>0, <1>1, <2>3, PieceParts
<1>2. CASE \E k \in 0 .. Len(h) : f = SubSeq(Pieces(h), 1, k)
  <2>1. PICK k \in 0 .. Len(h) : f = SubSeq(Pieces(h), 1, k)
    BY <1>2, Zenon
  <2>2. k \in Nat /\ k <= Len(h)
    BY <1>0
  <2>3. f \in Seq(AnyPiece)
    BY <1>0, <2>1, <2>2, PrefixFacts, Zenon
  <2>4. LoadHistory(f) = SubSeq(h, 1, k)
    BY <2>1, LoadPieces, Zenon
  <2> QED
    BY <1>1, <2>3, <2>4, Zenon
<1>3. CASE \E k \in 1 .. Len(h) : f = Append(SubSeq(Pieces(h), 1, k - 1), Piece(h[k], "head"))
  <2>1. PICK k \in 1 .. Len(h) : f = Append(SubSeq(Pieces(h), 1, k - 1), Piece(h[k], "head"))
    BY <1>3, Zenon
  <2>2. k - 1 \in Nat /\ k - 1 <= Len(h) /\ k - 1 \in 0 .. Len(h)
    BY <1>0
  <2>3. SubSeq(Pieces(h), 1, k - 1) \in Seq(AnyPiece)
    BY <1>0, <2>2, PrefixFacts, Zenon
  <2>4. Piece(h[k], "head") \in AnyPiece /\ Piece(h[k], "head").part = "head"
    BY <1>0, Zenon DEF Piece
  <2>5. f \in Seq(AnyPiece) /\ LoadHistory(f) = LoadHistory(SubSeq(Pieces(h), 1, k - 1))
    BY <2>1, <2>3, <2>4, AppendFacts, AppendLoads, Zenon
  <2>6. LoadHistory(f) = SubSeq(h, 1, k - 1)
    BY <2>2, <2>5, LoadPieces, Zenon
  <2> QED
    BY <1>1, <2>2, <2>5, <2>6, Zenon
<1> QED
  BY <1>2, <1>3, Zenon DEF Flushed

-----------------------------------------------------------------------------
(* The threads. *)

Appender(d) == [pc : {"open", "head"}, entry : {e \in Entry : e.direction = d}, stale : BOOLEAN]
Rewriter == [pc : {"loaded", "written"}, id : Text, history : Seq(Entry)]

Appends(th) == th.pc \in {"open", "head"}
Rewrites == asio.pc \in {"loaded", "written"}

CacheTypes ==
    /\ file \in Seq(AnyPiece)
    /\ main \in {Idle} \cup Appender("outbound")
    /\ asio \in {Idle} \cup Appender("inbound") \cup Rewriter
    /\ asio.pc = "written" => tmp \in Flushed(asio.history)
    /\ number \in Nat
    /\ kept \subseteq Entry /\ owed \subseteq Entry

\* Where the main thread is.
LEMMA MainCases ==
    ASSUME CacheTypes
    PROVE  /\ Appends(main) => /\ main \in Appender("outbound") /\ main.entry \in Entry
                               /\ main.entry.direction = "outbound"
           /\ ~Appends(main) => main = Idle
           /\ ~Appends(Idle)
  BY DEF CacheTypes, Appends, Appender, Idle

\* Where the network thread is.
LEMMA AsioCases ==
    ASSUME CacheTypes
    PROVE  /\ Appends(asio) => /\ asio \in Appender("inbound") /\ asio.entry \in Entry
                               /\ asio.entry.direction = "inbound" /\ ~Rewrites
           /\ Rewrites => asio \in Rewriter /\ asio.history \in Seq(Entry) /\ ~Appends(asio)
           /\ ~Rewrites /\ ~Appends(asio) => asio = Idle
           /\ asio = Idle => ~Rewrites /\ ~Appends(asio)
  BY DEF CacheTypes, Appends, Appender, Rewriter, Rewrites, Idle

\* The thread that appends finishes, with its entry last in the history or not
\* in it at all, or has its head written.
LEMMA AppendEffect ==
    ASSUME CacheTypes, NEW d, NEW th \in Appender(d), NEW th2, Writing(th, th2)
    PROVE  /\ file' \in Seq(AnyPiece)
           /\ \/ /\ th2 \in Appender(d) /\ th2.entry = th.entry
                 /\ LoadHistory(file') = LoadHistory(file) /\ kept' = kept
              \/ /\ th2 = Idle /\ kept' = kept \cup {th.entry}
                 /\ \/ LoadHistory(file') = LoadHistory(file)
                    \/ LoadHistory(file') = Append(LoadHistory(file), th.entry)
           /\ th.entry.id \notin Long /\ th.pc = "open" /\ ~th.stale
                  /\ (\A i \in 1 .. Len(file) : file[i].part = "all") =>
                  LoadHistory(file') = Append(LoadHistory(file), th.entry)
           /\ th.entry.id \notin Long /\ th.pc = "open"
                  /\ (\A i \in 1 .. Len(file) : file[i].part = "all") =>
                  \A i \in 1 .. Len(file') : file'[i].part = "all"
<1>1. file \in Seq(AnyPiece) /\ th.entry \in Entry /\ th.pc \in {"open", "head"} /\ th.stale \in BOOLEAN
  BY Zenon DEF CacheTypes, Appender
<1>2. \A q \in {"all", "head", "tail"} :
          /\ Piece(th.entry, q) \in AnyPiece
          /\ Piece(th.entry, q).entry = th.entry /\ Piece(th.entry, q).part = q
  BY <1>1, Zenon DEF Piece, AnyPiece
<1>3. ASSUME NEW q \in {"all", "head", "tail"}
      PROVE  /\ Written(th, q) \in Seq(AnyPiece)
             /\ \/ LoadHistory(Written(th, q)) = LoadHistory(file)
                \/ q # "head" /\ LoadHistory(Written(th, q)) = Append(LoadHistory(file), th.entry)
             /\ q = "all" /\ ~th.stale /\ (\A i \in 1 .. Len(file) : file[i].part = "all") =>
                    LoadHistory(Written(th, q)) = Append(LoadHistory(file), th.entry)
             /\ q = "all" /\ (\A i \in 1 .. Len(file) : file[i].part = "all") =>
                    \A i \in 1 .. Len(Written(th, q)) : Written(th, q)[i].part = "all"
  <2> DEFINE p == Piece(th.entry, q)
  <2>1. p \in AnyPiece /\ p.entry = th.entry /\ p.part = q
    BY <1>2, Zenon
  <2> HIDE DEF p
  <2>2. CASE th.stale
    BY <1>1, <2>2, Zenon DEF Written
  <2>3. CASE ~th.stale
    <3>1. Written(th, q) = Append(file, p)
      BY <2>3, Zenon DEF Written, p
    <3>2. /\ Append(file, p) \in Seq(AnyPiece) /\ Len(file) \in Nat
          /\ Len(Append(file, p)) = Len(file) + 1
          /\ Append(file, p)[Len(file) + 1] = p
          /\ \A i \in 1 .. Len(file) : Append(file, p)[i] = file[i]
      BY <1>1, <2>1, AppendFacts, Zenon
    <3>3. \A i \in 1 .. Len(Append(file, p)) : i \in 1 .. Len(file) \/ i = Len(file) + 1
      BY <3>2
    <3>4. /\ LoadHistory(Append(file, p)) \in {LoadHistory(file), Append(LoadHistory(file), p.entry)}
          /\ p.part = "head" => LoadHistory(Append(file, p)) = LoadHistory(file)
          /\ p.part = "all" /\ (\A i \in 1 .. Len(file) : file[i].part = "all") =>
                  LoadHistory(Append(file, p)) = Append(LoadHistory(file), p.entry)
      BY <1>1, <2>1, AppendLoads, Zenon
    <3>5. q = "all" /\ (\A i \in 1 .. Len(file) : file[i].part = "all") =>
              \A i \in 1 .. Len(Append(file, p)) : Append(file, p)[i].part = "all"
      BY <2>1, <3>2, <3>3, Zenon
    <3> QED
      BY <2>1, <3>1, <3>2, <3>4, <3>5, Zenon
  <2> QED
    BY <1>1, <2>2, <2>3, Zenon
<1>4. CASE /\ th.pc = "open" /\ th.entry.id \notin Long
           /\ file' = Written(th, "all") /\ th2 = Idle /\ kept' = kept \cup {th.entry}
  BY <1>3, <1>4, Zenon
<1>5. CASE /\ th.pc = "open" /\ th.entry.id \in Long
           /\ file' = Written(th, "head") /\ th2 = [th EXCEPT !.pc = "head"] /\ kept' = kept
  <2>1. th2 \in Appender(d) /\ th2.entry = th.entry
    BY <1>5, Zenon DEF Appender
  <2> QED
    BY <1>3, <1>5, <2>1, Zenon
<1>6. CASE /\ th.pc = "head"
           /\ file' = Written(th, "tail") /\ th2 = Idle /\ kept' = kept \cup {th.entry}
  BY <1>3, <1>6, Zenon
<1> QED
  BY <1>4, <1>5, <1>6, Zenon DEF Writing

-----------------------------------------------------------------------------
(* Order. *)

Ordered(h) ==
    \A i, j \in DOMAIN h : i < j =>
        /\ h[i].n # h[j].n
        /\ h[i].direction = h[j].direction => h[i].n < h[j].n
Below(h, n) == \A i \in DOMAIN h : h[i].n <= n
Fresh(h, e) ==
    \A i \in DOMAIN h : h[i].n # e.n /\ (h[i].direction = e.direction => h[i].n < e.n)

\* h2 is a beginning of h, up to the status of its entries.
Begins(h2, h) ==
    /\ DOMAIN h2 \subseteq DOMAIN h
    /\ \A i \in DOMAIN h2 : /\ h2[i].n = h[i].n /\ h2[i].direction = h[i].direction
                            /\ h2[i].id = h[i].id
                            /\ h[i].status = "delivered" => h2[i].status = "delivered"

\* What is marked in h is marked in g, and g has all that was received.
Follows(h, g) ==
    /\ \A i \in DOMAIN h, j \in DOMAIN g :
           h[i].n = g[j].n /\ h[i].status = "delivered" => g[j].status = "delivered"
    /\ \A i \in DOMAIN h : h[i].direction = "inbound" => \E j \in DOMAIN g : g[j].n = h[i].n

HistoryOK(h, m, n) ==
    Ordered(h) /\ Below(h, n) /\ (Appends(m) => Fresh(h, m.entry))

\* The strengthening of InAppendOrder.
OrderInv ==
    /\ CacheTypes
    /\ HistoryOK(History, main, number)
    /\ Appends(main) => main.entry.n <= number
    /\ Appends(asio) => /\ asio.entry.n <= number /\ Fresh(History, asio.entry)
                        /\ Appends(main) => main.entry.n # asio.entry.n
    /\ Rewrites => HistoryOK(asio.history, main, number) /\ Follows(History, asio.history)

LEMMA EntryFacts ==
    \A e \in Entry : e.n \in Nat /\ e.id \in Text /\ e.direction \in {"inbound", "outbound"}
  BY CacheAssumption DEF Entry

LEMMA HistoryFacts ==
    ASSUME NEW h \in Seq(Entry)
    PROVE  /\ DOMAIN h = 1 .. Len(h) /\ Len(h) \in Nat
           /\ \A i \in DOMAIN h : i \in Nat /\ h[i] \in Entry
  OBVIOUS

LEMMA LongerHistory ==
    ASSUME NEW h \in Seq(Entry), NEW e \in Entry
    PROVE  /\ DOMAIN Append(h, e) = DOMAIN h \cup {Len(h) + 1}
           /\ Append(h, e)[Len(h) + 1] = e
           /\ \A i \in DOMAIN h : Append(h, e)[i] = h[i] /\ i < Len(h) + 1 /\ i \in Nat
           /\ Len(h) + 1 \in Nat
<1>1. Append(h, e) \in Seq(Entry) /\ Len(Append(h, e)) = Len(h) + 1 /\ Len(h) \in Nat
  OBVIOUS
<1>2. DOMAIN Append(h, e) = 1 .. Len(h) + 1 /\ DOMAIN h = 1 .. Len(h)
  BY <1>1
<1>3. 1 .. Len(h) + 1 = 1 .. Len(h) \cup {Len(h) + 1}
  BY <1>1
<1>4. Append(h, e)[Len(h) + 1] = e /\ \A i \in 1 .. Len(h) : Append(h, e)[i] = h[i]
  OBVIOUS
<1> QED
  BY <1>1, <1>2, <1>3, <1>4

\* Appending a newer entry keeps the order.
LEMMA FreshAppended ==
    ASSUME NEW h \in Seq(Entry), NEW e \in Entry, NEW n \in Nat, e.n <= n,
           Ordered(h), Below(h, n), Fresh(h, e)
    PROVE  Ordered(Append(h, e)) /\ Below(Append(h, e), n)
<1>1. /\ DOMAIN Append(h, e) = DOMAIN h \cup {Len(h) + 1}
      /\ Append(h, e)[Len(h) + 1] = e
      /\ \A i \in DOMAIN h : Append(h, e)[i] = h[i] /\ i < Len(h) + 1 /\ i \in Nat
      /\ Len(h) + 1 \in Nat
  BY LongerHistory, Zenon
<1> DEFINE g == Append(h, e)
<1> DEFINE k == Len(h) + 1
<1> HIDE DEF g, k
<1>2. /\ DOMAIN g = DOMAIN h \cup {k} /\ g[k] = e /\ k \in Nat
      /\ \A i \in DOMAIN h : g[i] = h[i] /\ i < k /\ i \in Nat
  BY <1>1, Zenon DEF g, k
<1>3. Below(g, n)
  BY <1>2, Zenon DEF Below
<1>4. Ordered(g)
  <2> SUFFICES ASSUME NEW i \in DOMAIN g, NEW j \in DOMAIN g, i < j
               PROVE  /\ g[i].n # g[j].n
                      /\ g[i].direction = g[j].direction => g[i].n < g[j].n
    BY Zenon DEF Ordered
  <2>1. i \in DOMAIN h
    BY <1>2
  <2>2. CASE j \in DOMAIN h
    BY <1>2, <2>1, <2>2, Zenon DEF Ordered
  <2>3. CASE j = k
    BY <1>2, <2>1, <2>3, Zenon DEF Fresh
  <2> QED
    BY <1>2, <2>2, <2>3, Zenon
<1> QED
  BY <1>3, <1>4, Zenon DEF g

\* An entry of the other direction does not make the thread's own older.
LEMMA StillFresh ==
    ASSUME NEW h \in Seq(Entry), NEW e \in Entry, NEW d \in Entry,
           Fresh(h, d), e.n # d.n, e.direction # d.direction
    PROVE  Fresh(Append(h, e), d)
  BY LongerHistory DEF Fresh

\* A beginning of an ordered history is ordered.
LEMMA BeginsInherits ==
    ASSUME NEW g, NEW h, NEW n, Begins(g, h)
    PROVE  /\ Ordered(h) => Ordered(g)
           /\ Below(h, n) => Below(g, n)
           /\ \A e : Fresh(h, e) => Fresh(g, e)
<1>1. Ordered(h) => Ordered(g)
  BY DEF Begins, Ordered
<1>2. Below(h, n) => Below(g, n)
  BY Zenon DEF Begins, Below
<1>3. \A e : Fresh(h, e) => Fresh(g, e)
  BY Zenon DEF Begins, Fresh
<1> QED
  BY <1>1, <1>2, <1>3, Zenon

\* A prefix is a beginning.
LEMMA PrefixBegins ==
    ASSUME NEW h \in Seq(Entry), NEW k \in 0 .. Len(h)
    PROVE  /\ Begins(SubSeq(h, 1, k), h) /\ SubSeq(h, 1, k) \in Seq(Entry)
           /\ \A i \in DOMAIN SubSeq(h, 1, k) : SubSeq(h, 1, k)[i] = h[i]
<1>1. k \in Nat /\ k <= Len(h) /\ Len(h) \in Nat
  OBVIOUS
<1>2. /\ SubSeq(h, 1, k) \in Seq(Entry) /\ Len(SubSeq(h, 1, k)) = k
      /\ \A i \in 1 .. k : SubSeq(h, 1, k)[i] = h[i]
  BY <1>1, PrefixFacts, Zenon
<1>3. DOMAIN SubSeq(h, 1, k) = 1 .. k /\ DOMAIN h = 1 .. Len(h)
  BY <1>2
<1>4. 1 .. k \subseteq 1 .. Len(h)
  BY <1>1
<1> QED
  BY <1>2, <1>3, <1>4, Zenon DEF Begins

\* Marking keeps everything but the status of one entry.
LEMMA MarkedFacts ==
    ASSUME NEW h \in Seq(Entry), NEW id
    PROVE  /\ Marked(h, id) \in Seq(Entry) /\ DOMAIN Marked(h, id) = DOMAIN h
           /\ Begins(Marked(h, id), h)
           /\ (\E i \in DOMAIN h : h[i].id = id) =>
                  \E k \in DOMAIN h : /\ h[k].id = id
                                      /\ \A i \in DOMAIN h : i # k => Marked(h, id)[i] = h[i]
<1> DEFINE first == CHOOSE i \in {i \in DOMAIN h : h[i].id = id} :
                        \A j \in {j \in DOMAIN h : h[j].id = id} : i <= j
<1>1. Marked(h, id) = [h EXCEPT ![first].status = "delivered"]
  BY Zenon DEF Marked
<1>8. ASSUME \E i \in DOMAIN h : h[i].id = id
      PROVE  first \in DOMAIN h /\ h[first].id = id
  <2> DEFINE T == {i \in DOMAIN h : h[i].id = id}
  <2>1. T \in SUBSET Nat /\ T # {}
    BY <1>8, HistoryFacts, Zenon
  <2>2. \E i \in T : \A j \in T : i <= j
    BY <2>1, NatLeast, Zenon
  <2>3. first \in T
    BY <2>2, Zenon
  <2> QED
    BY <2>3, Zenon
<1> HIDE DEF first
<1>2. DOMAIN h = 1 .. Len(h) /\ Len(h) \in Nat /\ \A i \in DOMAIN h : h[i] \in Entry
  OBVIOUS
<1>3. \A e \in Entry : /\ [e EXCEPT !.status = "delivered"] \in Entry
                       /\ [e EXCEPT !.status = "delivered"].n = e.n
                       /\ [e EXCEPT !.status = "delivered"].id = e.id
                       /\ [e EXCEPT !.status = "delivered"].direction = e.direction
                       /\ [e EXCEPT !.status = "delivered"].status = "delivered"
  BY Zenon DEF Entry
<1> DEFINE g == Marked(h, id)
<1>4. /\ DOMAIN g = DOMAIN h
      /\ g = [i \in DOMAIN h |-> IF i = first THEN [h[i] EXCEPT !.status = "delivered"] ELSE h[i]]
  BY <1>1, Zenon
<1> HIDE DEF g
<1>5. \A i \in DOMAIN h : g[i] \in Entry
  BY <1>2, <1>3, <1>4, Zenon
<1>6. g \in Seq(Entry)
  BY <1>2, <1>4, <1>5
<1>7. Begins(g, h)
  BY <1>2, <1>3, <1>4, Zenon DEF Begins
<1>9. \A i \in DOMAIN h : i # first => g[i] = h[i]
  BY <1>4, Zenon
<1> QED
  BY <1>4, <1>6, <1>7, <1>8, <1>9, Zenon DEF g

-----------------------------------------------------------------------------
(* The steps. *)

LEMMA OpenedFacts ==
    ASSUME NEW e \in Entry
    PROVE  /\ Opened(e) \in Appender(e.direction) /\ Opened(e).entry = e /\ Appends(Opened(e))
           /\ Opened(e).pc = "open" /\ Opened(e).stale = FALSE
  BY Zenon DEF Opened, Appender, Appends

\* A new entry has a number that no entry has.
LEMMA NewIsFresh ==
    ASSUME NEW h \in Seq(Entry), NEW n \in Nat, Below(h, n), NEW e, e.n = n + 1
    PROVE  Fresh(h, e) /\ Below(h, n + 1)
<1>1. \A i \in DOMAIN h : h[i].n \in Nat
  BY EntryFacts
<1>2. \A i \in DOMAIN h : h[i].n <= n
  BY Zenon DEF Below
<1>3. \A a \in Nat : a <= n => a # n + 1 /\ a < n + 1 /\ a <= n + 1
  OBVIOUS
<1> QED
  BY <1>1, <1>2, <1>3, Zenon DEF Fresh, Below

LEMMA OpenOutboundStep ==
    ASSUME OrderInv, NEW id \in Text, OpenOutbound(id)
    PROVE  OrderInv'
<1> DEFINE e == [n |-> number + 1, id |-> id, direction |-> "outbound", status |-> "pending_ack"]
<1>1. /\ main = Idle /\ number < MaxEntries /\ number' = number + 1 /\ main' = Opened(e)
      /\ UNCHANGED <<file, tmp, asio, kept, owed>> /\ number \in Nat
  BY Zenon DEF OpenOutbound, OrderInv, CacheTypes
<1>a. number + 1 \in 1 .. MaxEntries
  BY <1>1, CacheAssumption
<1>b. e \in Entry /\ e.n = number + 1 /\ e.direction = "outbound"
  BY <1>a, Zenon DEF Entry
<1> HIDE DEF e
<1>2. /\ e \in Entry /\ e.n = number + 1 /\ e.direction = "outbound"
      /\ Opened(e) \in Appender("outbound") /\ Opened(e).entry = e
  BY <1>b, OpenedFacts, Zenon
<1>3. main' \in Appender("outbound") /\ main'.entry = e
  BY <1>1, <1>2, Zenon
<1>4. CacheTypes'
  BY <1>1, <1>3 DEF OrderInv, CacheTypes
<1>5. History \in Seq(Entry) /\ History' = History
  BY <1>1, LoadType, Zenon DEF OrderInv, CacheTypes, History
<1>6. HistoryOK(History', main', number')
  BY <1>1, <1>2, <1>3, <1>5, NewIsFresh, Zenon DEF OrderInv, HistoryOK
<1>7. Rewrites' = Rewrites
  BY <1>1, Zenon DEF Rewrites
<1>8. Rewrites => HistoryOK(asio'.history, main', number') /\ Follows(History', asio'.history)
  <2> SUFFICES ASSUME Rewrites
               PROVE  HistoryOK(asio'.history, main', number') /\ Follows(History', asio'.history)
    BY Zenon
  <2>1. asio.history \in Seq(Entry)
    BY AsioCases, Zenon DEF OrderInv
  <2> QED
    BY <1>1, <1>2, <1>3, <1>5, <2>1, NewIsFresh, Zenon DEF OrderInv, HistoryOK
<1>9. Appends(asio') => /\ asio'.entry.n <= number' /\ Fresh(History', asio'.entry)
                        /\ Appends(main') => main'.entry.n # asio'.entry.n
  <2> SUFFICES ASSUME Appends(asio)
               PROVE  /\ asio.entry.n <= number + 1 /\ Fresh(History, asio.entry)
                      /\ e.n # asio.entry.n
    BY <1>1, <1>3, <1>5, Zenon
  <2>1. asio.entry.n \in Nat /\ asio.entry.n <= number /\ Fresh(History, asio.entry)
    BY AsioCases, EntryFacts, Zenon DEF OrderInv
  <2> QED
    BY <1>1, <1>2, <2>1
<1>10. main'.entry.n <= number'
  BY <1>1, <1>2, <1>3
<1> QED
  BY <1>4, <1>6, <1>7, <1>8, <1>9, <1>10, Zenon DEF OrderInv

LEMMA OpenInboundStep ==
    ASSUME OrderInv, NEW id \in Text, OpenInbound(id)
    PROVE  OrderInv'
<1> DEFINE e == [n |-> number + 1, id |-> id, direction |-> "inbound", status |-> "delivered"]
<1>1. /\ asio = Idle /\ number < MaxEntries /\ number' = number + 1 /\ asio' = Opened(e)
      /\ UNCHANGED <<file, tmp, main, kept, owed>> /\ number \in Nat
  BY Zenon DEF OpenInbound, OrderInv, CacheTypes
<1>a. number + 1 \in 1 .. MaxEntries
  BY <1>1, CacheAssumption
<1>b. e \in Entry /\ e.n = number + 1 /\ e.direction = "inbound"
  BY <1>a, Zenon DEF Entry
<1> HIDE DEF e
<1>2. /\ e \in Entry /\ e.n = number + 1 /\ e.direction = "inbound"
      /\ Opened(e) \in Appender("inbound") /\ Opened(e).entry = e /\ Opened(e).pc = "open"
  BY <1>b, OpenedFacts, Zenon
<1>3. asio' \in Appender("inbound") /\ asio'.entry = e /\ asio'.pc = "open"
  BY <1>1, <1>2, Zenon
<1>4. CacheTypes' /\ ~Rewrites'
  BY <1>1, <1>3 DEF OrderInv, CacheTypes, Rewrites
<1>5. History \in Seq(Entry) /\ History' = History
  BY <1>1, LoadType, Zenon DEF OrderInv, CacheTypes, History
<1>6. Fresh(History, e) /\ Below(History, number + 1)
  BY <1>1, <1>2, <1>5, NewIsFresh, Zenon DEF OrderInv, HistoryOK
<1>7. HistoryOK(History', main', number')
  BY <1>1, <1>5, <1>6, Zenon DEF OrderInv, HistoryOK
<1>8. Appends(main) => main.entry.n <= number + 1 /\ main.entry.n # e.n
  <2> SUFFICES ASSUME Appends(main) PROVE main.entry.n <= number + 1 /\ main.entry.n # e.n
    BY Zenon
  <2>1. main.entry.n \in Nat /\ main.entry.n <= number
    BY MainCases, EntryFacts, Zenon DEF OrderInv
  <2> QED
    BY <1>1, <1>2, <2>1
<1>9. asio'.entry.n <= number'
  BY <1>1, <1>2, <1>3
<1> QED
  BY <1>1, <1>3, <1>4, <1>5, <1>6, <1>7, <1>8, <1>9, Zenon DEF OrderInv

LEMMA MainWritesStep ==
    ASSUME OrderInv, MainWrites
    PROVE  OrderInv'
<1> DEFINE e == main.entry
<1>1. /\ Appends(main) /\ main \in Appender("outbound") /\ e \in Entry
      /\ e.direction = "outbound" /\ ~Appends(Idle) /\ number \in Nat
  BY MainCases, Zenon DEF MainWrites, OrderInv, Appends, CacheTypes
<1>2. /\ Writing(main, main') /\ UNCHANGED <<tmp, asio, number>> /\ owed' \subseteq owed \cup {e}
  BY Zenon DEF MainWrites
<1>3. /\ file' \in Seq(AnyPiece)
      /\ \/ /\ main' \in Appender("outbound") /\ main'.entry = e
            /\ LoadHistory(file') = LoadHistory(file) /\ kept' = kept
         \/ /\ main' = Idle /\ kept' = kept \cup {e}
            /\ \/ LoadHistory(file') = LoadHistory(file)
               \/ LoadHistory(file') = Append(LoadHistory(file), e)
  BY <1>1, <1>2, AppendEffect, Zenon DEF OrderInv
<1> HIDE DEF e
<1>4. CacheTypes'
  BY <1>1, <1>2, <1>3, Zenon DEF OrderInv, CacheTypes
<1>5. History \in Seq(Entry) /\ History = LoadHistory(file) /\ History' = LoadHistory(file')
  BY LoadType, Zenon DEF OrderInv, CacheTypes, History
<1>6. Fresh(History, e) /\ e.n <= number /\ Ordered(History) /\ Below(History, number)
  BY <1>1, Zenon DEF OrderInv, HistoryOK, e
<1>7. CASE History' = History /\ main'.entry = e
  BY <1>1, <1>2, <1>4, <1>6, <1>7 DEF OrderInv, HistoryOK, Rewrites, e
<1>8. CASE History' = History /\ main' = Idle
  BY <1>1, <1>2, <1>4, <1>6, <1>8, Zenon DEF OrderInv, HistoryOK, Rewrites
<1>9. CASE History' = Append(History, e) /\ main' = Idle
  <2>1. Ordered(History') /\ Below(History', number)
    BY <1>1, <1>5, <1>6, <1>9, FreshAppended, Zenon
  <2>2. ASSUME Appends(asio) PROVE Fresh(History', asio.entry)
    <3>1. /\ asio.entry \in Entry /\ asio.entry.direction = "inbound"
          /\ e.n # asio.entry.n /\ Fresh(History, asio.entry)
      BY <1>1, <2>2, AsioCases, Zenon DEF OrderInv, e
    <3> QED
      BY <1>1, <1>5, <1>9, <3>1, StillFresh, Zenon
  <2>3. ASSUME Rewrites PROVE Follows(History', asio.history)
    <3>1. Follows(History, asio.history) /\ Fresh(asio.history, e)
      BY <1>1, <2>3, Zenon DEF OrderInv, HistoryOK, e
    <3>2. /\ DOMAIN History' = DOMAIN History \cup {Len(History) + 1}
          /\ History'[Len(History) + 1] = e
          /\ \A i \in DOMAIN History : History'[i] = History[i]
      BY <1>1, <1>5, <1>9, LongerHistory
    <3> QED
      BY <1>1, <3>1, <3>2 DEF Follows, Fresh
  <2> QED
    BY <1>1, <1>2, <1>4, <1>9, <2>1, <2>2, <2>3, Zenon DEF OrderInv, HistoryOK, Rewrites
<1> QED
  BY <1>3, <1>5, <1>7, <1>8, <1>9, Zenon

LEMMA AsioWritesStep ==
    ASSUME OrderInv, AsioWrites
    PROVE  OrderInv'
<1> DEFINE e == asio.entry
<1>1. /\ Appends(asio) /\ asio \in Appender("inbound") /\ e \in Entry
      /\ e.direction = "inbound" /\ number \in Nat
  BY AsioCases, Zenon DEF AsioWrites, OrderInv, Appends, CacheTypes
<1>2. /\ Writing(asio, asio') /\ UNCHANGED <<tmp, main, number, owed>>
  BY Zenon DEF AsioWrites
<1>3. /\ file' \in Seq(AnyPiece)
      /\ \/ /\ asio' \in Appender("inbound") /\ asio'.entry = e
            /\ LoadHistory(file') = LoadHistory(file) /\ kept' = kept
         \/ /\ asio' = Idle /\ kept' = kept \cup {e}
            /\ \/ LoadHistory(file') = LoadHistory(file)
               \/ LoadHistory(file') = Append(LoadHistory(file), e)
  BY <1>1, <1>2, AppendEffect, Zenon DEF OrderInv
<1> HIDE DEF e
<1>4. asio'.pc # "written" /\ ~Rewrites' /\ (asio' = Idle => ~Appends(asio'))
  BY <1>3 DEF Appender, Rewrites, Appends, Idle
<1>5. CacheTypes'
  BY <1>1, <1>2, <1>3, <1>4, Zenon DEF OrderInv, CacheTypes
<1>6. History \in Seq(Entry) /\ History = LoadHistory(file) /\ History' = LoadHistory(file')
  BY LoadType, Zenon DEF OrderInv, CacheTypes, History
<1>7. Fresh(History, e) /\ e.n <= number /\ Ordered(History) /\ Below(History, number)
  BY <1>1, Zenon DEF OrderInv, HistoryOK, e
<1>8. CASE History' = History /\ asio'.entry = e
  BY <1>1, <1>2, <1>4, <1>5, <1>7, <1>8, Zenon DEF OrderInv, HistoryOK, e
<1>9. CASE History' = History /\ asio' = Idle
  BY <1>1, <1>2, <1>4, <1>5, <1>7, <1>9, Zenon DEF OrderInv, HistoryOK
<1>10. CASE History' = Append(History, e) /\ asio' = Idle
  <2>1. Ordered(History') /\ Below(History', number)
    BY <1>1, <1>6, <1>7, <1>10, FreshAppended, Zenon
  <2>2. ASSUME Appends(main) PROVE Fresh(History', main.entry)
    <3>1. /\ main.entry \in Entry /\ main.entry.direction = "outbound"
          /\ e.n # main.entry.n /\ Fresh(History, main.entry)
      BY <1>1, <2>2, MainCases, Zenon DEF OrderInv, HistoryOK, e
    <3> QED
      BY <1>1, <1>6, <1>10, <3>1, StillFresh, Zenon
  <2> QED
    BY <1>1, <1>2, <1>4, <1>5, <1>10, <2>1, <2>2, Zenon DEF OrderInv, HistoryOK
<1> QED
  BY <1>3, <1>6, <1>8, <1>9, <1>10, Zenon

\* The numbers of an ordered history identify its places.
LEMMA NumbersDiffer ==
    ASSUME NEW h \in Seq(Entry), Ordered(h), NEW i \in DOMAIN h, NEW j \in DOMAIN h,
           h[i].n = h[j].n
    PROVE  i = j
<1>1. i \in Nat /\ j \in Nat
  BY HistoryFacts, Zenon
<1>2. ~(i < j) /\ ~(j < i)
  BY Zenon DEF Ordered
<1> QED
  BY <1>1, <1>2

\* A marked copy of the whole history follows it.
LEMMA BeginsFollows ==
    ASSUME NEW h \in Seq(Entry), NEW g, Ordered(h), Begins(g, h), DOMAIN g = DOMAIN h
    PROVE  Follows(h, g)
<1>1. \A i \in DOMAIN h, j \in DOMAIN g :
          h[i].n = g[j].n /\ h[i].status = "delivered" => g[j].status = "delivered"
  <2> SUFFICES ASSUME NEW i \in DOMAIN h, NEW j \in DOMAIN g,
                      h[i].n = g[j].n, h[i].status = "delivered"
               PROVE  g[j].status = "delivered"
    BY Zenon
  <2>1. j \in DOMAIN h /\ g[j].n = h[j].n /\ (h[j].status = "delivered" => g[j].status = "delivered")
    BY Zenon DEF Begins
  <2>2. i = j
    BY <2>1, NumbersDiffer, Zenon
  <2> QED
    BY <2>1, <2>2, Zenon
<1>2. \A i \in DOMAIN h : \E j \in DOMAIN g : g[j].n = h[i].n
  BY Zenon DEF Begins
<1> QED
  BY <1>1, <1>2, Zenon DEF Follows

LEMMA UpdateLoadStep ==
    ASSUME OrderInv, NEW e \in owed, UpdateLoad(e)
    PROVE  OrderInv'
<1>1. /\ asio = Idle /\ owed' \subseteq owed /\ e \in Entry /\ e.id \in Text
      /\ UNCHANGED <<file, tmp, main, number, kept>>
  BY EntryFacts, Zenon DEF UpdateLoad, OrderInv, CacheTypes
<1>2. History \in Seq(Entry) /\ History' = History /\ History = LoadHistory(file)
  BY <1>1, LoadType, Zenon DEF OrderInv, CacheTypes, History
<1>3. \/ asio' = Idle
      \/ asio' = [pc |-> "loaded", id |-> e.id, history |-> Marked(History, e.id)]
  BY <1>2, Zenon DEF UpdateLoad
<1>4. CASE asio' = Idle
  BY <1>1, <1>2, <1>4, Zenon DEF OrderInv, CacheTypes, Rewrites, Appends, Idle
<1>5. CASE asio' = [pc |-> "loaded", id |-> e.id, history |-> Marked(History, e.id)]
  <2> DEFINE g == Marked(History, e.id)
  <2>1. g \in Seq(Entry) /\ DOMAIN g = DOMAIN History /\ Begins(g, History)
    BY <1>2, MarkedFacts, Zenon
  <2>2. asio' \in Rewriter /\ asio'.pc = "loaded" /\ asio'.history = g
    BY <1>1, <1>5, <2>1, Zenon DEF Rewriter
  <2> HIDE DEF g
  <2>3. CacheTypes' /\ ~Appends(asio)'
    BY <1>1, <2>2, Zenon DEF OrderInv, CacheTypes, Appends
  <2>4. HistoryOK(g, main, number)
    BY <2>1, BeginsInherits, Zenon DEF OrderInv, HistoryOK
  <2>5. Follows(History, g)
    BY <1>2, <2>1, BeginsFollows, Zenon DEF OrderInv, HistoryOK
  <2> QED
    BY <1>1, <1>2, <2>2, <2>3, <2>4, <2>5, Zenon DEF OrderInv
<1> QED
  BY <1>3, <1>4, <1>5, Zenon

LEMMA UpdateWriteStep ==
    ASSUME OrderInv, UpdateWrite
    PROVE  OrderInv'
<1>1. /\ asio.pc = "loaded" /\ tmp' \in Flushed(asio.history)
      /\ asio' = [asio EXCEPT !.pc = "written"]
      /\ UNCHANGED <<file, main, number, kept, owed>>
  BY Zenon DEF UpdateWrite
<1>2. asio \in Rewriter /\ Rewrites
  BY <1>1, AsioCases, Zenon DEF OrderInv, Rewrites
<1>3. asio' \in Rewriter /\ asio'.pc = "written" /\ asio'.history = asio.history
  BY <1>1, <1>2, Zenon DEF Rewriter
<1>4. CacheTypes' /\ ~Appends(asio)' /\ Rewrites'
  BY <1>1, <1>3, Zenon DEF OrderInv, CacheTypes, Appends, Rewrites
<1>5. History' = History
  BY <1>1, Zenon DEF History
<1> QED
  BY <1>1, <1>2, <1>3, <1>4, <1>5, Zenon DEF OrderInv

\* The network thread gives up, or the process is killed.
LEMMA StopStep ==
    ASSUME OrderInv, UpdateGivesUp \/ UpdateRenameFails \/ Crash
    PROVE  OrderInv'
<1>1. /\ asio' = Idle /\ main' \in {main, Idle} /\ UNCHANGED <<file, number, kept, owed>>
  BY Zenon DEF UpdateGivesUp, UpdateRenameFails, Crash
<1>2. ~Rewrites' /\ ~Appends(asio') /\ asio'.pc # "written" /\ ~Appends(Idle)
  BY <1>1, Zenon DEF Rewrites, Appends, Idle
<1>3. CacheTypes' /\ History' = History
  BY <1>1, <1>2, Zenon DEF OrderInv, CacheTypes, History
<1> QED
  BY <1>1, <1>2, <1>3, Zenon DEF OrderInv, HistoryOK

\* rename puts a beginning of the network thread's copy in place.
LEMMA RenameEffect ==
    ASSUME CacheTypes, UpdateRename
    PROVE  /\ Rewrites /\ asio.pc = "written" /\ asio.history \in Seq(Entry)
           /\ file' = tmp /\ file' \in Flushed(asio.history) /\ file' \in Seq(AnyPiece)
           /\ History' \in Seq(Entry) /\ Begins(History', asio.history)
           /\ \A i \in DOMAIN History' : History'[i] = asio.history[i]
           /\ asio' = Idle /\ UNCHANGED <<number, kept, owed, intact>>
           /\ main' \in {Idle} \cup Appender("outbound")
           /\ Appends(main') => Appends(main) /\ main'.entry = main.entry
<1>1. /\ asio.pc = "written" /\ file' = tmp /\ asio' = Idle
      /\ UNCHANGED <<number, kept, owed, intact>>
      /\ main' = IF main = Idle THEN Idle ELSE [main EXCEPT !.stale = TRUE]
  BY Zenon DEF UpdateRename
<1>2. Rewrites /\ asio.history \in Seq(Entry) /\ tmp \in Flushed(asio.history)
  BY <1>1, AsioCases, Zenon DEF Rewrites, CacheTypes
<1>3. PICK k \in 0 .. Len(asio.history) : LoadHistory(tmp) = SubSeq(asio.history, 1, k)
  BY <1>2, FlushedLoads, Zenon
<1>4. tmp \in Seq(AnyPiece)
  BY <1>2, FlushedLoads, Zenon
<1>5. /\ History' \in Seq(Entry) /\ Begins(History', asio.history)
      /\ \A i \in DOMAIN History' : History'[i] = asio.history[i]
  BY <1>1, <1>2, <1>3, PrefixBegins DEF History
<1>6. CASE main = Idle
  BY <1>1, <1>2, <1>4, <1>5, <1>6, Zenon DEF Appends, Idle
<1>7. CASE main # Idle
  <2>1. main \in Appender("outbound")
    BY <1>7, Zenon DEF CacheTypes
  <2>2. main' \in Appender("outbound") /\ main'.entry = main.entry /\ Appends(main)
    BY <1>1, <1>7, <2>1, Zenon DEF Appender, Appends
  <2> QED
    BY <1>1, <1>2, <1>4, <1>5, <2>2, Zenon
<1> QED
  BY <1>6, <1>7, Zenon

LEMMA UpdateRenameStep ==
    ASSUME OrderInv, UpdateRename
    PROVE  OrderInv'
<1>1. CacheTypes
  BY Zenon DEF OrderInv
<1>2. /\ Rewrites /\ file' \in Seq(AnyPiece) /\ Begins(History', asio.history)
      /\ asio' = Idle /\ UNCHANGED <<number, kept, owed>>
      /\ main' \in {Idle} \cup Appender("outbound")
      /\ Appends(main') => Appends(main) /\ main'.entry = main.entry
  BY <1>1, RenameEffect, Zenon
<1>3. ~Rewrites' /\ ~Appends(asio') /\ asio'.pc # "written"
  BY <1>2, Zenon DEF Rewrites, Appends, Idle
<1>4. CacheTypes'
  BY <1>1, <1>2, <1>3, Zenon DEF CacheTypes
<1>5. HistoryOK(asio.history, main, number)
  BY <1>2, Zenon DEF OrderInv
<1>6. HistoryOK(History', main', number)
  BY <1>2, <1>5, BeginsInherits, Zenon DEF HistoryOK
<1> QED
  BY <1>2, <1>3, <1>4, <1>6, Zenon DEF OrderInv

LEMMA InitOrder == Init => OrderInv
<1> SUFFICES ASSUME Init PROVE OrderInv
  BY Zenon
<1>1. History = <<>>
  BY LoadEmpty, Zenon DEF Init, History
<1>2. <<>> \in Seq(AnyPiece) /\ DOMAIN <<>> = {} /\ 0 \in Nat
  OBVIOUS
<1>3. ~Appends(Idle) /\ Idle.pc = "idle"
  BY Zenon DEF Appends, Idle
<1>4. CacheTypes
  BY <1>2, <1>3, Zenon DEF Init, CacheTypes
<1>5. ~Rewrites /\ ~Appends(main) /\ ~Appends(asio)
  BY <1>3, Zenon DEF Init, Rewrites
<1>6. HistoryOK(History, main, number)
  BY <1>1, <1>2, <1>5, Zenon DEF HistoryOK, Ordered, Below
<1> QED
  BY <1>4, <1>5, <1>6, Zenon DEF OrderInv

LEMMA StutterOrder == OrderInv /\ UNCHANGED vars => OrderInv'
<1> SUFFICES ASSUME OrderInv, UNCHANGED vars PROVE OrderInv'
  BY Zenon
<1>1. /\ file' = file /\ tmp' = tmp /\ main' = main /\ asio' = asio /\ number' = number
      /\ kept' = kept /\ owed' = owed
  BY Zenon DEF vars
<1>2. CacheTypes' /\ History' = History /\ Rewrites' = Rewrites
  BY <1>1, Zenon DEF OrderInv, CacheTypes, History, Rewrites
<1> QED
  BY <1>1, <1>2, Zenon DEF OrderInv

LEMMA StepOrder == OrderInv /\ [Next]_vars => OrderInv'
<1> SUFFICES ASSUME OrderInv, [Next]_vars PROVE OrderInv'
  BY Zenon
<1>1. CASE \E id \in Text : OpenOutbound(id) \/ OpenInbound(id)
  BY <1>1, OpenOutboundStep, OpenInboundStep, Zenon
<1>2. CASE MainWrites
  BY <1>2, MainWritesStep, Zenon
<1>3. CASE AsioWrites
  BY <1>3, AsioWritesStep, Zenon
<1>4. CASE \E e \in owed : UpdateLoad(e)
  BY <1>4, UpdateLoadStep, Zenon
<1>5. CASE UpdateWrite
  BY <1>5, UpdateWriteStep, Zenon
<1>6. CASE UpdateGivesUp \/ UpdateRenameFails \/ Crash
  BY <1>6, StopStep, Zenon
<1>7. CASE UpdateRename
  BY <1>7, UpdateRenameStep, Zenon
<1>8. CASE UNCHANGED vars
  BY <1>8, StutterOrder, Zenon
<1> QED
  BY <1>1, <1>2, <1>3, <1>4, <1>5, <1>6, <1>7, <1>8, Zenon DEF Next

LEMMA AlwaysOrder == Spec => []OrderInv
<1>1. Init => OrderInv
  BY InitOrder, Zenon
<1>2. OrderInv /\ [Next]_vars => OrderInv'
  BY StepOrder, Zenon
<1> QED
  BY <1>1, <1>2, PTL DEF Spec

\* Whatever the two threads, the disk and a kill do between two system calls,
\* LoadHistory shows no entry twice and each direction in append order.
THEOREM HistoryInOrder == Spec => []InAppendOrder
<1>1. OrderInv => InAppendOrder
  BY Zenon DEF OrderInv, HistoryOK, Ordered, InAppendOrder
<1> QED
  BY <1>1, AlwaysOrder, PTL

-----------------------------------------------------------------------------
(* What one step does to the history. *)

\* A step leaves the history alone, appends an entry newer than all of its
\* direction, or is the rename.
LEMMA HistorySteps ==
    ASSUME OrderInv, [Next]_vars
    PROVE  \/ History' = History
           \/ \E e \in Entry : History' = Append(History, e) /\ Fresh(History, e)
           \/ UpdateRename
<1>1. History = LoadHistory(file) /\ History' = LoadHistory(file') /\ CacheTypes
  BY Zenon DEF History, OrderInv
<1>2. CASE MainWrites
  <2>1. main \in Appender("outbound") /\ main.entry \in Entry /\ Fresh(History, main.entry)
    BY <1>1, <1>2, MainCases, Zenon DEF MainWrites, OrderInv, HistoryOK, Appends
  <2>2. LoadHistory(file') \in {LoadHistory(file), Append(LoadHistory(file), main.entry)}
    BY <1>1, <1>2, <2>1, AppendEffect, Zenon DEF MainWrites
  <2> QED
    BY <1>1, <2>1, <2>2, Zenon
<1>3. CASE AsioWrites
  <2>1. asio \in Appender("inbound") /\ asio.entry \in Entry /\ Fresh(History, asio.entry)
    BY <1>1, <1>3, AsioCases, Zenon DEF AsioWrites, OrderInv, Appends
  <2>2. LoadHistory(file') \in {LoadHistory(file), Append(LoadHistory(file), asio.entry)}
    BY <1>1, <1>3, <2>1, AppendEffect, Zenon DEF AsioWrites
  <2> QED
    BY <1>1, <2>1, <2>2, Zenon
<1>4. CASE file' = file
  BY <1>1, <1>4, Zenon
<1>5. \/ MainWrites \/ AsioWrites \/ UpdateRename \/ file' = file
  BY Zenon DEF Next, vars, OpenOutbound, OpenInbound, UpdateLoad, UpdateWrite, UpdateGivesUp,
         UpdateRenameFails, Crash
<1> QED
  BY <1>2, <1>3, <1>4, <1>5, Zenon

\* No step takes DELIVERED back.
LEMMA StatusStep ==
    ASSUME OrderInv, [Next]_vars
    PROVE  \A i \in DOMAIN History : \A j \in DOMAIN History' :
               (History[i].n = History'[j].n /\ History[i].status = "delivered")
                   => History'[j].status = "delivered"
<1> SUFFICES ASSUME NEW i \in DOMAIN History, NEW j \in DOMAIN History',
                    History[i].n = History'[j].n, History[i].status = "delivered"
             PROVE  History'[j].status = "delivered"
  BY Zenon
<1>1. History \in Seq(Entry) /\ Ordered(History)
  BY LoadType, Zenon DEF OrderInv, CacheTypes, History, HistoryOK
<1>2. CASE History' = History
  <2>1. i = j
    BY <1>1, <1>2, NumbersDiffer, Zenon
  <2> QED
    BY <1>2, <2>1, Zenon
<1>3. CASE \E e \in Entry : History' = Append(History, e) /\ Fresh(History, e)
  <2> PICK e \in Entry : History' = Append(History, e) /\ Fresh(History, e)
    BY <1>3, Zenon
  <2>1. /\ j \in DOMAIN History \/ History'[j] = e
        /\ \A k \in DOMAIN History : History'[k] = History[k]
    BY <1>1, LongerHistory
  <2>2. History'[j] # e
    BY Zenon DEF Fresh
  <2>3. i = j
    BY <1>1, <2>1, <2>2, NumbersDiffer, Zenon
  <2> QED
    BY <2>1, <2>3, Zenon
<1>4. CASE UpdateRename
  <2>1. Rewrites /\ Begins(History', asio.history)
    BY <1>4, RenameEffect, Zenon DEF OrderInv
  <2>2. Follows(History, asio.history)
    BY <2>1, Zenon DEF OrderInv
  <2>3. /\ j \in DOMAIN asio.history /\ History'[j].n = asio.history[j].n
        /\ asio.history[j].status = "delivered" => History'[j].status = "delivered"
    BY <2>1, Zenon DEF Begins
  <2> QED
    BY <2>2, <2>3, Zenon DEF Follows
<1> QED
  BY <1>2, <1>3, <1>4, HistorySteps, Zenon

\* UpdateMessageStatus writes back what it loaded before other appends ran, and
\* still no entry that was shown as DELIVERED is ever shown as PENDING_ACK.
THEOREM StatusNeverBack == Spec => StatusForward
<1>1. OrderInv /\ [Next]_vars =>
          [\A i \in DOMAIN History : \A j \in DOMAIN History' :
               (History[i].n = History'[j].n /\ History[i].status = "delivered")
                   => History'[j].status = "delivered"]_vars
  BY StatusStep, Zenon
<1> QED
  BY <1>1, AlwaysOrder, PTL DEF Spec, StatusForward

-----------------------------------------------------------------------------
(* What is kept while lines fit the buffer and the disk has room. *)

Whole(f) == \A i \in 1 .. Len(f) : f[i].part = "all"
Short(th) == Appends(th) => th.pc = "open" /\ th.entry.id \notin Long
HasReceived(h, k) ==
    \A e \in k : e.direction = "inbound" =>
        \E i \in DOMAIN h : h[i].n = e.n /\ h[i].direction = "inbound"

\* The strengthening of InboundKept.
IntactInv ==
    /\ Appends(asio) => ~asio.stale
    /\ intact => /\ Whole(file) /\ Short(main) /\ Short(asio)
                 /\ asio.pc = "written" => tmp = Pieces(asio.history)
                 /\ HasReceived(History, kept)
                 /\ Rewrites => HasReceived(asio.history, kept)

LEMMA ReceivedGrows ==
    ASSUME NEW h \in Seq(Entry), NEW k, NEW e \in Entry, HasReceived(h, k)
    PROVE  HasReceived(Append(h, e), k) /\ HasReceived(Append(h, e), k \cup {e})
  BY LongerHistory DEF HasReceived

LEMMA MarkedReceived ==
    ASSUME NEW h, NEW g, NEW k, HasReceived(h, k), Begins(g, h), DOMAIN g = DOMAIN h
    PROVE  HasReceived(g, k)
  BY DEF HasReceived, Begins

LEMMA OpenIntact ==
    ASSUME OrderInv, IntactInv, NEW id \in Text, OpenOutbound(id) \/ OpenInbound(id)
    PROVE  IntactInv'
<1>0. \A e : /\ Opened(e).pc = "open" /\ ~Opened(e).stale /\ Opened(e).entry = e
             /\ Appends(Opened(e))
  BY Zenon DEF Opened, Appends
<1>1. CASE OpenOutbound(id)
  <2> DEFINE e == [n |-> number + 1, id |-> id, direction |-> "outbound", status |-> "pending_ack"]
  <2>1. /\ intact' = (intact /\ id \notin Long) /\ main' = Opened(e) /\ e.id = id
        /\ UNCHANGED <<file, tmp, asio, kept>>
    BY <1>1, Zenon DEF OpenOutbound
  <2> HIDE DEF e
  <2>2. History' = History /\ Rewrites' = Rewrites
    BY <2>1, Zenon DEF History, Rewrites
  <2>3. intact' => intact /\ Short(main')
    BY <1>0, <2>1, Zenon DEF Short
  <2> QED
    BY <2>1, <2>2, <2>3, Zenon DEF IntactInv
<1>2. CASE OpenInbound(id)
  <2> DEFINE e == [n |-> number + 1, id |-> id, direction |-> "inbound", status |-> "delivered"]
  <2>1. /\ intact' = (intact /\ id \notin Long) /\ asio' = Opened(e) /\ e.id = id
        /\ UNCHANGED <<file, tmp, main, kept>>
    BY <1>2, Zenon DEF OpenInbound
  <2> HIDE DEF e
  <2>2. History' = History /\ ~Rewrites' /\ asio'.pc = "open" /\ ~asio'.stale
    BY <1>0, <2>1, Zenon DEF History, Rewrites
  <2>3. intact' => intact /\ Short(asio')
    BY <1>0, <2>1, Zenon DEF Short
  <2> QED
    BY <2>1, <2>2, <2>3, Zenon DEF IntactInv
<1> QED
  BY <1>1, <1>2, Zenon

LEMMA MainWritesIntact ==
    ASSUME OrderInv, IntactInv, MainWrites
    PROVE  IntactInv'
<1> DEFINE e == main.entry
<1>1. /\ Appends(main) /\ main \in Appender("outbound") /\ e \in Entry
      /\ e.direction = "outbound" /\ ~Appends(Idle) /\ CacheTypes
      /\ Writing(main, main') /\ UNCHANGED <<tmp, asio, intact>>
  BY MainCases, Zenon DEF MainWrites, OrderInv, Appends
<1>2. Rewrites' = Rewrites /\ History = LoadHistory(file) /\ History' = LoadHistory(file')
  BY <1>1, Zenon DEF Rewrites, History
<1> SUFFICES ASSUME intact PROVE IntactInv'
  BY <1>1, Zenon DEF IntactInv
<1>3. Whole(file) /\ e.id \notin Long /\ main.pc = "open"
  BY <1>1, Zenon DEF IntactInv, Short
<1>4. Whole(file') /\ main' = Idle /\ kept' = kept \cup {e} /\
      History' \in {History, Append(History, e)}
  <2>1. Whole(file')
    BY <1>1, <1>3, AppendEffect, Zenon DEF Whole
  <2>2. main' = Idle /\ kept' = kept \cup {e}
    BY <1>1, <1>3, Zenon DEF Writing
  <2>3. History' \in {History, Append(History, e)}
    BY <1>1, <1>2, AppendEffect, Zenon
  <2> QED
    BY <2>1, <2>2, <2>3, Zenon
<1>5. History \in Seq(Entry)
  BY <1>1, <1>2, LoadType, Zenon DEF CacheTypes
<1>6. HasReceived(History, kept)
  BY Zenon DEF IntactInv
<1>7. \A h : HasReceived(h, kept) => HasReceived(h, kept')
  BY <1>1, <1>4, Zenon DEF HasReceived
<1>8. HasReceived(History', kept')
  <2>1. HasReceived(History', kept)
    BY <1>1, <1>4, <1>5, <1>6, ReceivedGrows, Zenon
  <2> QED
    BY <1>7, <2>1, Zenon
<1>9. Short(main')
  BY <1>1, <1>4, Zenon DEF Short
<1> QED
  BY <1>1, <1>2, <1>4, <1>7, <1>8, <1>9, Zenon DEF IntactInv

LEMMA AsioWritesIntact ==
    ASSUME OrderInv, IntactInv, AsioWrites
    PROVE  IntactInv'
<1> DEFINE e == asio.entry
<1>1. /\ Appends(asio) /\ asio \in Appender("inbound") /\ e \in Entry
      /\ CacheTypes /\ Writing(asio, asio') /\ UNCHANGED <<tmp, main, intact>>
      /\ ~asio.stale
  BY AsioCases, Zenon DEF AsioWrites, OrderInv, Appends, IntactInv
<1>2. History = LoadHistory(file) /\ History' = LoadHistory(file')
  BY Zenon DEF History
<1>3. (asio' = Idle \/ asio' = [asio EXCEPT !.pc = "head"])
  BY <1>1, Zenon DEF Writing
<1>4. asio'.pc # "written" /\ ~Rewrites' /\ (Appends(asio') => ~asio'.stale)
      /\ (asio' = Idle => Short(asio'))
  BY <1>1, <1>3 DEF Appender, Idle, Rewrites, Appends, Short
<1> SUFFICES ASSUME intact PROVE IntactInv'
  BY <1>1, <1>4, Zenon DEF IntactInv
<1>5. Whole(file) /\ e.id \notin Long /\ asio.pc = "open" /\ HasReceived(History, kept)
  BY <1>1, Zenon DEF IntactInv, Short
<1>6. Whole(file') /\ asio' = Idle /\ kept' = kept \cup {e} /\ History' = Append(History, e)
  <2>1. Whole(file') /\ History' = Append(History, e)
    BY <1>1, <1>2, <1>5, AppendEffect, Zenon DEF Whole
  <2>2. asio' = Idle /\ kept' = kept \cup {e}
    BY <1>1, <1>5, Zenon DEF Writing
  <2> QED
    BY <2>1, <2>2, Zenon
<1>7. History \in Seq(Entry)
  BY <1>1, <1>2, LoadType, Zenon DEF CacheTypes
<1>8. HasReceived(History', kept')
  BY <1>1, <1>5, <1>6, <1>7, ReceivedGrows, Zenon
<1> QED
  BY <1>1, <1>4, <1>6, <1>8, Zenon DEF IntactInv

LEMMA UpdateLoadIntact ==
    ASSUME OrderInv, IntactInv, NEW e, UpdateLoad(e)
    PROVE  IntactInv'
<1>1. UNCHANGED <<file, tmp, main, kept, intact>>
  BY Zenon DEF UpdateLoad
<1>2. History \in Seq(Entry) /\ History' = History /\ History = LoadHistory(file)
  BY <1>1, LoadType, Zenon DEF OrderInv, CacheTypes, History
<1>3. \/ asio' = Idle
      \/ asio' = [pc |-> "loaded", id |-> e.id, history |-> Marked(History, e.id)]
  BY <1>2, Zenon DEF UpdateLoad
<1>4. ~Appends(asio') /\ asio'.pc # "written" /\ Short(asio')
  BY <1>3 DEF Appends, Idle, Short
<1>5. Rewrites' => asio'.history = Marked(History, e.id)
  BY <1>3 DEF Rewrites, Idle
<1>6. /\ Begins(Marked(History, e.id), History)
      /\ DOMAIN Marked(History, e.id) = DOMAIN History
  BY <1>2, MarkedFacts, Zenon
<1>7. intact /\ Rewrites' => HasReceived(asio'.history, kept')
  BY <1>1, <1>5, <1>6, MarkedReceived, Zenon DEF IntactInv
<1> QED
  BY <1>1, <1>2, <1>4, <1>7, Zenon DEF IntactInv

LEMMA UpdateWriteIntact ==
    ASSUME OrderInv, IntactInv, UpdateWrite
    PROVE  IntactInv'
<1>1. /\ asio.pc = "loaded" /\ intact' = (intact /\ tmp' = Pieces(asio.history))
      /\ asio' = [asio EXCEPT !.pc = "written"] /\ UNCHANGED <<file, main, kept>>
  BY Zenon DEF UpdateWrite
<1>2. asio \in Rewriter /\ Rewrites
  BY <1>1, AsioCases, Zenon DEF OrderInv, Rewrites
<1>3. asio'.pc = "written" /\ asio'.history = asio.history
  BY <1>1, <1>2, Zenon DEF Rewriter
<1>4. ~Appends(asio') /\ Short(asio') /\ History' = History
  BY <1>1, <1>3, Zenon DEF Appends, Short, History
<1> QED
  BY <1>1, <1>2, <1>3, <1>4, Zenon DEF IntactInv

LEMMA StopIntact ==
    ASSUME OrderInv, IntactInv, UpdateGivesUp \/ UpdateRenameFails \/ Crash
    PROVE  IntactInv'
<1>1. /\ asio' = Idle /\ main' \in {main, Idle} /\ UNCHANGED <<file, kept, intact>>
  BY Zenon DEF UpdateGivesUp, UpdateRenameFails, Crash
<1>2. ~Rewrites' /\ ~Appends(asio') /\ asio'.pc # "written" /\ Short(Idle)
  BY <1>1, Zenon DEF Rewrites, Appends, Idle, Short
<1>3. History' = History /\ (Short(main) => Short(main'))
  BY <1>1, <1>2, Zenon DEF History
<1> QED
  BY <1>1, <1>2, <1>3, Zenon DEF IntactInv

LEMMA UpdateRenameIntact ==
    ASSUME OrderInv, IntactInv, UpdateRename
    PROVE  /\ IntactInv'
           /\ intact => History' = asio.history
<1>1. /\ Rewrites /\ asio.pc = "written" /\ asio.history \in Seq(Entry)
      /\ file' = tmp /\ file' \in Flushed(asio.history)
      /\ asio' = Idle /\ UNCHANGED <<kept, intact>>
  BY RenameEffect, Zenon DEF OrderInv
<1>2. ~Rewrites' /\ ~Appends(asio') /\ asio'.pc # "written" /\ Short(asio')
  BY <1>1, Zenon DEF Rewrites, Appends, Idle, Short
<1>3. intact => Whole(file') /\ History' = asio.history
  <2> SUFFICES ASSUME intact PROVE Whole(file') /\ History' = asio.history
    BY Zenon
  <2>1. file' = Pieces(asio.history)
    BY <1>1, Zenon DEF IntactInv
  <2> QED
    BY <1>1, <2>1, FlushedLoads, Zenon DEF Whole, History
<1>4. Short(main) => Short(main')
  <2>1. CASE main = Idle
    BY <2>1, Zenon DEF UpdateRename
  <2>2. CASE main # Idle
    <3>1. main \in Appender("outbound")
      BY <2>2, Zenon DEF OrderInv, CacheTypes
    <3>2. main'.pc = main.pc /\ main'.entry = main.entry
      BY <2>2, <3>1, Zenon DEF UpdateRename, Appender
    <3> QED
      BY <3>2, Zenon DEF Short, Appends
  <2> QED
    BY <2>1, <2>2, Zenon
<1>5. intact => HasReceived(History', kept')
  BY <1>1, <1>3, Zenon DEF IntactInv
<1> QED
  BY <1>1, <1>2, <1>3, <1>4, <1>5, Zenon DEF IntactInv

LEMMA InitIntact == Init => IntactInv
<1> SUFFICES ASSUME Init PROVE IntactInv
  BY Zenon
<1>1. ~Appends(Idle) /\ Idle.pc = "idle" /\ Short(Idle) /\ ~Rewrites
  BY Zenon DEF Appends, Idle, Short, Init, Rewrites
<1>2. Whole(file)
  BY DEF Init, Whole
<1>3. HasReceived(History, kept)
  BY Zenon DEF Init, HasReceived
<1> QED
  BY <1>1, <1>2, <1>3, Zenon DEF Init, IntactInv

LEMMA StepIntact == OrderInv /\ IntactInv /\ [Next]_vars => IntactInv'
<1> SUFFICES ASSUME OrderInv, IntactInv, [Next]_vars PROVE IntactInv'
  BY Zenon
<1>1. CASE \E id \in Text : OpenOutbound(id) \/ OpenInbound(id)
  BY <1>1, OpenIntact, Zenon
<1>2. CASE MainWrites
  BY <1>2, MainWritesIntact, Zenon
<1>3. CASE AsioWrites
  BY <1>3, AsioWritesIntact, Zenon
<1>4. CASE \E e \in owed : UpdateLoad(e)
  BY <1>4, UpdateLoadIntact, Zenon
<1>5. CASE UpdateWrite
  BY <1>5, UpdateWriteIntact, Zenon
<1>6. CASE UpdateGivesUp \/ UpdateRenameFails \/ Crash
  BY <1>6, StopIntact, Zenon
<1>7. CASE UpdateRename
  BY <1>7, UpdateRenameIntact, Zenon
<1>8. CASE UNCHANGED vars
  <2>1. /\ file' = file /\ tmp' = tmp /\ main' = main /\ asio' = asio
        /\ kept' = kept /\ intact' = intact
    BY <1>8, Zenon DEF vars
  <2>2. History' = History /\ Rewrites' = Rewrites
    BY <2>1, Zenon DEF History, Rewrites
  <2> QED
    BY <2>1, <2>2, Zenon DEF IntactInv
<1> QED
  BY <1>1, <1>2, <1>3, <1>4, <1>5, <1>6, <1>7, <1>8, Zenon DEF Next

LEMMA AlwaysIntact == Spec => [](OrderInv /\ IntactInv)
<1>1. Init => OrderInv /\ IntactInv
  BY InitOrder, InitIntact, Zenon
<1>2. OrderInv /\ IntactInv /\ [Next]_vars => (OrderInv /\ IntactInv)'
  BY StepOrder, StepIntact, Zenon
<1> QED
  BY <1>1, <1>2, PTL DEF Spec

LEMMA ShownNumbers == \A f : \A i \in DOMAIN LoadHistory(f) : LoadHistory(f)[i].n \in Shown(f)
  BY Zenon DEF Shown

\* No rewrite by UpdateMessageStatus loses a text that HandleTextMessage appended,
\* as long as lines fit the buffer and the disk has room.
THEOREM ReceivedTextsKept == Spec => []InboundKept
<1>1. OrderInv /\ IntactInv => InboundKept
  BY ShownNumbers, Zenon DEF IntactInv, InboundKept, HasReceived, History
<1> QED
  BY <1>1, AlwaysIntact, PTL

\* What a step removes is an outbound entry missing from the copy it renames.
LEMMA LossStep ==
    ASSUME OrderInv, IntactInv, [Next]_vars
    PROVE  \A i \in DOMAIN History : (intact /\ History[i].n \notin Shown(file')) =>
               /\ History[i].direction = "outbound"
               /\ asio.pc = "written"
               /\ \A k \in DOMAIN asio.history : asio.history[k].n # History[i].n
<1> SUFFICES ASSUME NEW i \in DOMAIN History, intact, History[i].n \notin Shown(file')
             PROVE  /\ History[i].direction = "outbound"
                    /\ asio.pc = "written"
                    /\ \A k \in DOMAIN asio.history : asio.history[k].n # History[i].n
  BY Zenon
<1>1. History \in Seq(Entry) /\ History' = LoadHistory(file')
  BY LoadType, Zenon DEF OrderInv, CacheTypes, History
<1>2. \A k \in DOMAIN History' : History'[k].n # History[i].n
  BY <1>1, ShownNumbers, Zenon
<1>3. History' # History
  BY <1>2, Zenon
<1>4. ~\E e \in Entry : History' = Append(History, e)
  BY <1>1, <1>2, LongerHistory
<1>5. UpdateRename
  BY <1>3, <1>4, HistorySteps, Zenon
<1>6. asio.pc = "written" /\ Rewrites /\ History' = asio.history
  BY <1>5, RenameEffect, UpdateRenameIntact, Zenon DEF OrderInv
<1>7. \A k \in DOMAIN asio.history : asio.history[k].n # History[i].n
  BY <1>2, <1>6, Zenon
<1>8. History[i].direction # "inbound"
  BY <1>6, <1>7, Zenon DEF OrderInv, Follows
<1>9. History[i] \in Entry
  BY <1>1, HistoryFacts, Zenon
<1> QED
  BY <1>6, <1>7, <1>8, <1>9, EntryFacts, Zenon

\* As long as lines fit the buffer and the disk has room, the only entries a
\* rewrite removes are texts that the main thread appended between LoadHistory
\* and rename in UpdateMessageStatus.
THEOREM LossIsRacing == Spec => OnlyRacingAppendsLost
<1>1. OrderInv /\ IntactInv /\ [Next]_vars =>
          [\A i \in DOMAIN History : (intact /\ History[i].n \notin Shown(file')) =>
               /\ History[i].direction = "outbound"
               /\ asio.pc = "written"
               /\ \A k \in DOMAIN asio.history : asio.history[k].n # History[i].n]_vars
  BY LossStep, Zenon
<1> QED
  BY <1>1, AlwaysIntact, PTL DEF Spec, OnlyRacingAppendsLost

-----------------------------------------------------------------------------
(* Counting receipts. *)

Ticked(h, x) ==
    {i \in DOMAIN h : /\ h[i].direction = "outbound" /\ h[i].id = x
                      /\ h[i].status = "delivered"}
OwedFor(o, x) == {e \in o : e.id = x}
SentOf(k, x) == {e \in k : e.direction = "outbound" /\ e.id = x}

Covered(h, o, k) ==
    \A x \in Text :
        Cardinality(Ticked(h, x)) + Cardinality(OwedFor(o, x)) <= Cardinality(SentOf(k, x))

\* The strengthening of MarkedByReceipt: the copy that the network thread
\* holds is covered as well, and a text that is being appended is not yet kept.
CountInv ==
    /\ IsFiniteSet(kept) /\ IsFiniteSet(owed)
    /\ \A e \in kept : e.n <= number
    /\ Appends(main) => /\ main.entry.status = "pending_ack"
                        /\ \A e \in kept : e.n # main.entry.n
    /\ Covered(History, owed, kept)
    /\ Rewrites => Covered(asio.history, owed, kept)

\* The sets that are counted are finite.
LEMMA CountedFinite ==
    ASSUME NEW h \in Seq(Entry), NEW o, NEW k, NEW x, IsFiniteSet(o), IsFiniteSet(k)
    PROVE  /\ IsFiniteSet(Ticked(h, x)) /\ Cardinality(Ticked(h, x)) \in Nat
           /\ IsFiniteSet(OwedFor(o, x)) /\ Cardinality(OwedFor(o, x)) \in Nat
           /\ IsFiniteSet(SentOf(k, x)) /\ Cardinality(SentOf(k, x)) \in Nat
<1>1. IsFiniteSet(DOMAIN h)
  <2>1. DOMAIN h = 1 .. Len(h) /\ 1 \in Int /\ Len(h) \in Int
    BY HistoryFacts
  <2> QED
    BY <2>1, FS_Interval, Zenon
<1>2. /\ Ticked(h, x) \subseteq DOMAIN h /\ OwedFor(o, x) \subseteq o
      /\ SentOf(k, x) \subseteq k
  BY Zenon DEF Ticked, OwedFor, SentOf
<1>3. IsFiniteSet(Ticked(h, x)) /\ IsFiniteSet(OwedFor(o, x)) /\ IsFiniteSet(SentOf(k, x))
  BY <1>1, <1>2, FS_Subset, Zenon
<1> QED
  BY <1>3, FS_CardinalityType, Zenon

\* Fewer marks and fewer owed receipts are covered as well.
LEMMA CoveredLess ==
    ASSUME NEW h \in Seq(Entry), NEW g \in Seq(Entry), NEW o, NEW p, NEW k,
           IsFiniteSet(o), IsFiniteSet(k), p \subseteq o, Covered(h, o, k),
           \A x : Ticked(g, x) \subseteq Ticked(h, x)
    PROVE  Covered(g, p, k)
<1> SUFFICES ASSUME NEW x \in Text
             PROVE  Cardinality(Ticked(g, x)) + Cardinality(OwedFor(p, x)) <= Cardinality(SentOf(k, x))
  BY Zenon DEF Covered
<1>1. IsFiniteSet(p)
  BY FS_Subset, Zenon
<1>2. /\ IsFiniteSet(Ticked(h, x)) /\ Cardinality(Ticked(h, x)) \in Nat
      /\ IsFiniteSet(OwedFor(o, x)) /\ Cardinality(OwedFor(o, x)) \in Nat
      /\ Cardinality(SentOf(k, x)) \in Nat
  BY CountedFinite, Zenon
<1>3. Cardinality(Ticked(g, x)) \in Nat /\ Cardinality(OwedFor(p, x)) \in Nat
  BY <1>1, CountedFinite, Zenon
<1>4. OwedFor(p, x) \subseteq OwedFor(o, x)
  BY Zenon DEF OwedFor
<1>5. /\ Cardinality(Ticked(g, x)) <= Cardinality(Ticked(h, x))
      /\ Cardinality(OwedFor(p, x)) <= Cardinality(OwedFor(o, x))
  BY <1>2, <1>4, FS_Subset, Zenon
<1>6. Cardinality(Ticked(h, x)) + Cardinality(OwedFor(o, x)) <= Cardinality(SentOf(k, x))
  BY Zenon DEF Covered
<1> QED
  BY <1>2, <1>3, <1>5, <1>6

\* A sent text that is new in the history pays for its own receipt.
LEMMA CoveredSent ==
    ASSUME NEW h \in Seq(Entry), NEW g \in Seq(Entry), NEW o, NEW k, NEW e,
           IsFiniteSet(o), IsFiniteSet(k), Covered(h, o, k),
           e \notin k, e.direction = "outbound",
           \A x : Ticked(g, x) = Ticked(h, x)
    PROVE  Covered(g, o \cup {e}, k \cup {e})
<1> SUFFICES ASSUME NEW x \in Text
             PROVE  Cardinality(Ticked(g, x)) + Cardinality(OwedFor(o \cup {e}, x))
                        <= Cardinality(SentOf(k \cup {e}, x))
  BY Zenon DEF Covered
<1>1. /\ Cardinality(Ticked(h, x)) \in Nat
      /\ IsFiniteSet(OwedFor(o, x)) /\ Cardinality(OwedFor(o, x)) \in Nat
      /\ IsFiniteSet(SentOf(k, x)) /\ Cardinality(SentOf(k, x)) \in Nat
  BY CountedFinite, Zenon
<1>2. Cardinality(Ticked(h, x)) + Cardinality(OwedFor(o, x)) <= Cardinality(SentOf(k, x))
  BY Zenon DEF Covered
<1>3. CASE e.id = x
  <2>1. /\ OwedFor(o \cup {e}, x) = OwedFor(o, x) \cup {e}
        /\ SentOf(k \cup {e}, x) = SentOf(k, x) \cup {e}
        /\ e \notin SentOf(k, x)
    BY <1>3, Zenon DEF OwedFor, SentOf
  <2>2. Cardinality(SentOf(k \cup {e}, x)) = Cardinality(SentOf(k, x)) + 1
    BY <1>1, <2>1, FS_AddElement, Zenon
  <2>3. Cardinality(OwedFor(o \cup {e}, x)) \in
            {Cardinality(OwedFor(o, x)), Cardinality(OwedFor(o, x)) + 1}
    BY <1>1, <2>1, FS_AddElement, Zenon
  <2> QED
    BY <1>1, <1>2, <2>2, <2>3
<1>4. CASE e.id # x
  <2>1. /\ OwedFor(o \cup {e}, x) = OwedFor(o, x)
        /\ SentOf(k \cup {e}, x) = SentOf(k, x)
    BY <1>4, Zenon DEF OwedFor, SentOf
  <2> QED
    BY <1>2, <2>1, Zenon
<1> QED
  BY <1>3, <1>4, Zenon

\* A receipt marks at most one text, with the receipt's content.
LEMMA CoveredMarked ==
    ASSUME NEW h \in Seq(Entry), NEW g \in Seq(Entry), NEW o, NEW k, NEW e \in o, NEW f,
           IsFiniteSet(o), IsFiniteSet(k), Covered(h, o, k),
           \A x : x # e.id => Ticked(g, x) \subseteq Ticked(h, x),
           Ticked(g, e.id) \subseteq Ticked(h, e.id) \cup {f}
    PROVE  Covered(g, o \ {e}, k)
<1> SUFFICES ASSUME NEW x \in Text
             PROVE  Cardinality(Ticked(g, x)) + Cardinality(OwedFor(o \ {e}, x))
                        <= Cardinality(SentOf(k, x))
  BY Zenon DEF Covered
<1>0. IsFiniteSet(o \ {e})
  BY FS_RemoveElement, Zenon
<1>1. /\ IsFiniteSet(Ticked(h, x)) /\ Cardinality(Ticked(h, x)) \in Nat
      /\ IsFiniteSet(OwedFor(o, x)) /\ Cardinality(OwedFor(o, x)) \in Nat
      /\ Cardinality(SentOf(k, x)) \in Nat
  BY CountedFinite, Zenon
<1>2. Cardinality(Ticked(g, x)) \in Nat /\ Cardinality(OwedFor(o \ {e}, x)) \in Nat
  BY <1>0, CountedFinite, Zenon
<1>3. Cardinality(Ticked(h, x)) + Cardinality(OwedFor(o, x)) <= Cardinality(SentOf(k, x))
  BY Zenon DEF Covered
<1>4. CASE e.id = x
  <2>1. OwedFor(o \ {e}, x) = OwedFor(o, x) \ {e} /\ e \in OwedFor(o, x)
    BY <1>4, Zenon DEF OwedFor
  <2> DEFINE O == OwedFor(o, x)
  <2>a. IsFiniteSet(O) /\ e \in O
    BY <1>1, <2>1, Zenon
  <2> HIDE DEF O
  <2>b. Cardinality(O \ {e}) = Cardinality(O) - 1
    BY <2>a, FS_RemoveElement, Zenon
  <2>2. Cardinality(OwedFor(o \ {e}, x)) = Cardinality(OwedFor(o, x)) - 1
    BY <2>1, <2>b, Zenon DEF O
  <2> DEFINE T == Ticked(h, x) \cup {f}
  <2>3. IsFiniteSet(T) /\ Cardinality(T) \in {Cardinality(Ticked(h, x)), Cardinality(Ticked(h, x)) + 1}
    BY <1>1, FS_AddElement, Zenon
  <2>4. Ticked(g, x) \subseteq T
    BY <1>4, Zenon
  <2> HIDE DEF T
  <2>5. Cardinality(Ticked(g, x)) <= Cardinality(T)
    BY <2>3, <2>4, FS_Subset, Zenon
  <2>6. Cardinality(Ticked(g, x)) <= Cardinality(Ticked(h, x)) + 1
    BY <1>1, <1>2, <2>3, <2>5
  <2> QED
    BY <1>1, <1>2, <1>3, <2>2, <2>6
<1>5. CASE e.id # x
  <2>1. OwedFor(o \ {e}, x) = OwedFor(o, x)
    BY <1>5 DEF OwedFor
  <2>2. Cardinality(Ticked(g, x)) <= Cardinality(Ticked(h, x))
    BY <1>1, <1>5, FS_Subset, Zenon
  <2> QED
    BY <1>1, <1>2, <1>3, <2>1, <2>2
<1> QED
  BY <1>4, <1>5, Zenon

\* A new entry is not marked.
LEMMA TickedAppend ==
    ASSUME NEW h \in Seq(Entry), NEW e \in Entry,
           e.direction = "inbound" \/ e.status = "pending_ack"
    PROVE  \A x : Ticked(Append(h, e), x) = Ticked(h, x)
  BY LongerHistory DEF Ticked

LEMMA OpenCount ==
    ASSUME OrderInv, CountInv, NEW id \in Text, OpenOutbound(id) \/ OpenInbound(id)
    PROVE  CountInv'
<1>1. /\ number' = number + 1 /\ number \in Nat /\ UNCHANGED <<file, kept, owed>>
      /\ \A e \in kept : e.n \in Nat
  BY EntryFacts, Zenon DEF OpenOutbound, OpenInbound, OrderInv, CacheTypes
<1>2. \A e \in kept : e.n <= number' /\ e.n # number + 1
  BY <1>1 DEF CountInv
<1>3. History' = History
  BY <1>1, Zenon DEF History
<1>4. CASE OpenOutbound(id)
  <2>1. /\ asio' = asio
        /\ main' = Opened([n |-> number + 1, id |-> id, direction |-> "outbound",
                           status |-> "pending_ack"])
    BY <1>4, Zenon DEF OpenOutbound
  <2>2. main'.entry.n = number + 1 /\ main'.entry.status = "pending_ack" /\ Rewrites' = Rewrites
    BY <2>1, Zenon DEF Opened, Rewrites
  <2> QED
    BY <1>1, <1>2, <1>3, <2>1, <2>2, Zenon DEF CountInv
<1>5. CASE OpenInbound(id)
  <2>1. main' = main /\ ~Rewrites'
    BY <1>5, Zenon DEF OpenInbound, Opened, Rewrites
  <2> QED
    BY <1>1, <1>2, <1>3, <2>1, Zenon DEF CountInv
<1> QED
  BY <1>4, <1>5, Zenon

LEMMA MainWritesCount ==
    ASSUME OrderInv, CountInv, MainWrites
    PROVE  CountInv'
<1> DEFINE e == main.entry
<1>1. /\ Appends(main) /\ main \in Appender("outbound") /\ e \in Entry /\ e.n <= number
      /\ e.direction = "outbound" /\ ~Appends(Idle) /\ CacheTypes /\ number \in Nat
      /\ Writing(main, main') /\ UNCHANGED <<asio, number>>
      /\ owed' = IF main' = Idle THEN owed \cup {e} ELSE owed
  BY MainCases, Zenon DEF MainWrites, OrderInv, Appends, CacheTypes
<1>2. \/ /\ main' \in Appender("outbound") /\ main'.entry = e
         /\ LoadHistory(file') = LoadHistory(file) /\ kept' = kept
      \/ /\ main' = Idle /\ kept' = kept \cup {e}
         /\ \/ LoadHistory(file') = LoadHistory(file)
            \/ LoadHistory(file') = Append(LoadHistory(file), e)
  BY <1>1, AppendEffect, Zenon
<1>3. e.status = "pending_ack" /\ e \notin kept /\ IsFiniteSet(kept) /\ IsFiniteSet(owed)
  BY <1>1, Zenon DEF CountInv
<1> HIDE DEF e
<1>4. /\ History \in Seq(Entry) /\ History = LoadHistory(file) /\ History' = LoadHistory(file')
      /\ Rewrites' = Rewrites
  BY <1>1, LoadType, Zenon DEF CacheTypes, History, Rewrites
<1>5. CASE main' # Idle
  <2>1. main'.entry = e /\ History' = History /\ kept' = kept /\ owed' = owed
    BY <1>1, <1>2, <1>4, <1>5, Zenon
  <2> QED
    BY <1>1, <1>4, <2>1, Zenon DEF CountInv, e
<1>6. CASE main' = Idle
  <2>1. /\ kept' = kept \cup {e} /\ owed' = owed \cup {e}
        /\ History' \in {History, Append(History, e)}
    BY <1>1, <1>2, <1>4, <1>6, Zenon DEF Appender, Idle
  <2>a. Append(History, e) \in Seq(Entry)
    BY <1>1, <1>4
  <2>b. \A x : Ticked(Append(History, e), x) = Ticked(History, x)
    BY <1>1, <1>3, <1>4, TickedAppend, Zenon
  <2>2. History' \in Seq(Entry) /\ \A x : Ticked(History', x) = Ticked(History, x)
    BY <1>4, <2>1, <2>a, <2>b, Zenon
  <2>3. Covered(History', owed', kept')
    BY <1>1, <1>3, <1>4, <2>1, <2>2, CoveredSent DEF CountInv
  <2>4. ASSUME Rewrites PROVE Covered(asio.history, owed', kept')
    <3>1. asio.history \in Seq(Entry) /\ Covered(asio.history, owed, kept)
      BY <1>1, <2>4, AsioCases, Zenon DEF CountInv
    <3> QED
      BY <1>1, <1>3, <2>1, <3>1, CoveredSent
  <2>5. IsFiniteSet(kept') /\ IsFiniteSet(owed')
    BY <1>3, <2>1, FS_AddElement, Zenon
  <2>6. \A k \in kept' : k.n <= number
    BY <1>1, <2>1, Zenon DEF CountInv
  <2> QED
    BY <1>1, <1>4, <1>6, <2>3, <2>4, <2>5, <2>6, Zenon DEF CountInv
<1> QED
  BY <1>5, <1>6, Zenon

LEMMA AsioWritesCount ==
    ASSUME OrderInv, CountInv, AsioWrites
    PROVE  CountInv'
<1> DEFINE e == asio.entry
<1>1. /\ Appends(asio) /\ asio \in Appender("inbound") /\ e \in Entry /\ e.n <= number
      /\ e.direction = "inbound" /\ CacheTypes /\ number \in Nat
      /\ Writing(asio, asio') /\ UNCHANGED <<main, number, owed>>
      /\ Appends(main) => main.entry.n # e.n
  BY AsioCases, Zenon DEF AsioWrites, OrderInv, Appends, CacheTypes
<1>2. /\ kept' \in {kept, kept \cup {e}}
      /\ LoadHistory(file') \in {LoadHistory(file), Append(LoadHistory(file), e)}
      /\ asio' \in {Idle} \cup Appender("inbound")
  BY <1>1, AppendEffect
<1> HIDE DEF e
<1>3. ~Rewrites'
  BY <1>2 DEF Rewrites, Idle, Appender
<1>4. /\ History \in Seq(Entry) /\ History = LoadHistory(file) /\ History' = LoadHistory(file')
  BY <1>1, LoadType, Zenon DEF CacheTypes, History
<1>5. \A x : Ticked(History', x) = Ticked(History, x)
  BY <1>1, <1>2, <1>4, TickedAppend, ZenonT(20)
<1>6. \A x : SentOf(kept', x) = SentOf(kept, x)
  BY <1>1, <1>2, Zenon DEF SentOf
<1>7. Covered(History', owed', kept')
  BY <1>1, <1>5, <1>6, Zenon DEF CountInv, Covered
<1>8. IsFiniteSet(kept')
  BY <1>2, FS_AddElement DEF CountInv
<1>9. \A k \in kept' : k.n <= number /\ (Appends(main) => k.n # main.entry.n)
  BY <1>1, <1>2, Zenon DEF CountInv
<1> QED
  BY <1>1, <1>3, <1>7, <1>8, <1>9, Zenon DEF CountInv

LEMMA UpdateLoadCount ==
    ASSUME OrderInv, CountInv, NEW e \in owed, UpdateLoad(e)
    PROVE  CountInv'
<1>1. /\ owed' = owed \ {e} /\ UNCHANGED <<file, main, number, kept>>
      /\ IsFiniteSet(kept) /\ IsFiniteSet(owed) /\ Covered(History, owed, kept)
  BY Zenon DEF UpdateLoad, CountInv
<1>2. /\ History \in Seq(Entry) /\ History' = History /\ History = LoadHistory(file)
  BY <1>1, LoadType, Zenon DEF OrderInv, CacheTypes, History
<1>3. IsFiniteSet(owed') /\ owed' \subseteq owed
  BY <1>1, FS_RemoveElement, Zenon
<1>4. Covered(History', owed', kept')
  BY <1>1, <1>2, <1>3, CoveredLess, Zenon
<1>5. ASSUME Rewrites' PROVE Covered(asio'.history, owed', kept')
  <2>1. /\ \E i \in DOMAIN History : History[i].id = e.id
        /\ asio'.history = Marked(History, e.id)
    BY <1>2, <1>5, Zenon DEF UpdateLoad, Rewrites, Idle
  <2> DEFINE g == Marked(History, e.id)
  <2>2. g \in Seq(Entry) /\ DOMAIN g = DOMAIN History /\ Begins(g, History)
    BY <1>2, MarkedFacts, Zenon
  <2>3. PICK f \in DOMAIN History : /\ History[f].id = e.id
                                    /\ \A i \in DOMAIN History : i # f => g[i] = History[i]
    BY <1>2, <2>1, MarkedFacts
  <2> HIDE DEF g
  <2>4. g[f].id = e.id
    BY <2>2, <2>3, Zenon DEF Begins
  <2>5. \A x : x # e.id => Ticked(g, x) \subseteq Ticked(History, x)
    BY <2>2, <2>3, <2>4, Zenon DEF Ticked
  <2>6. Ticked(g, e.id) \subseteq Ticked(History, e.id) \cup {f}
    BY <2>2, <2>3, Zenon DEF Ticked
  <2>7. Covered(g, owed \ {e}, kept)
    BY <1>1, <1>2, <2>2, <2>5, <2>6, CoveredMarked, Zenon
  <2> QED
    BY <1>1, <2>1, <2>7, Zenon DEF g
<1> QED
  BY <1>1, <1>3, <1>4, <1>5, Zenon DEF CountInv

LEMMA UpdateWriteCount ==
    ASSUME OrderInv, CountInv, UpdateWrite
    PROVE  CountInv'
<1>1. /\ asio.pc = "loaded" /\ asio' = [asio EXCEPT !.pc = "written"]
      /\ UNCHANGED <<file, main, number, kept, owed>>
  BY Zenon DEF UpdateWrite
<1>2. asio \in Rewriter /\ Rewrites
  BY <1>1, AsioCases, Zenon DEF OrderInv, Rewrites
<1>3. asio'.history = asio.history /\ History' = History
  BY <1>1, <1>2, Zenon DEF Rewriter, History
<1> QED
  BY <1>1, <1>2, <1>3, Zenon DEF CountInv

LEMMA StopCount ==
    ASSUME OrderInv, CountInv, UpdateGivesUp \/ UpdateRenameFails \/ Crash
    PROVE  CountInv'
<1>1. /\ asio' = Idle /\ main' \in {main, Idle} /\ UNCHANGED <<file, number, kept, owed>>
  BY Zenon DEF UpdateGivesUp, UpdateRenameFails, Crash
<1>2. ~Rewrites' /\ ~Appends(Idle) /\ History' = History
  BY <1>1, Zenon DEF Rewrites, Appends, Idle, History
<1> QED
  BY <1>1, <1>2, Zenon DEF CountInv

LEMMA UpdateRenameCount ==
    ASSUME OrderInv, CountInv, UpdateRename
    PROVE  CountInv'
<1>1. /\ Rewrites /\ asio.history \in Seq(Entry) /\ History' \in Seq(Entry)
      /\ Begins(History', asio.history)
      /\ \A i \in DOMAIN History' : History'[i] = asio.history[i]
      /\ asio' = Idle /\ UNCHANGED <<number, kept, owed>>
      /\ Appends(main') => Appends(main) /\ main'.entry = main.entry
  BY RenameEffect, Zenon DEF OrderInv
<1>2. \A x : Ticked(History', x) \subseteq Ticked(asio.history, x)
  BY <1>1, Zenon DEF Ticked, Begins
<1>3. Covered(History', owed, kept)
  BY <1>1, <1>2, CoveredLess, Zenon DEF CountInv
<1>4. ~Rewrites'
  BY <1>1, Zenon DEF Rewrites, Idle
<1> QED
  BY <1>1, <1>3, <1>4, Zenon DEF CountInv

LEMMA InitCount == Init => CountInv
<1> SUFFICES ASSUME Init PROVE CountInv
  BY Zenon
<1>1. ~Appends(main) /\ ~Rewrites
  BY Zenon DEF Init, Appends, Idle, Rewrites
<1>2. History = <<>> /\ IsFiniteSet({}) /\ Cardinality({}) = 0
  BY LoadEmpty, FS_EmptySet, Zenon DEF Init, History
<1>3. \A x : Ticked(History, x) = {} /\ OwedFor(owed, x) = {} /\ SentOf(kept, x) = {}
  BY <1>2 DEF Init, Ticked, OwedFor, SentOf
<1>4. Covered(History, owed, kept)
  <2> SUFFICES ASSUME NEW x \in Text
               PROVE  Cardinality(Ticked(History, x)) + Cardinality(OwedFor(owed, x))
                          <= Cardinality(SentOf(kept, x))
    BY Zenon DEF Covered
  <2>1. /\ Cardinality(Ticked(History, x)) = 0 /\ Cardinality(OwedFor(owed, x)) = 0
        /\ Cardinality(SentOf(kept, x)) = 0
    BY <1>2, <1>3, Zenon
  <2> QED
    BY <2>1
<1> QED
  BY <1>1, <1>2, <1>4, Zenon DEF Init, CountInv

LEMMA StepCount == OrderInv /\ CountInv /\ [Next]_vars => CountInv'
<1> SUFFICES ASSUME OrderInv, CountInv, [Next]_vars PROVE CountInv'
  BY Zenon
<1>1. CASE \E id \in Text : OpenOutbound(id) \/ OpenInbound(id)
  BY <1>1, OpenCount, Zenon
<1>2. CASE MainWrites
  BY <1>2, MainWritesCount, Zenon
<1>3. CASE AsioWrites
  BY <1>3, AsioWritesCount, Zenon
<1>4. CASE \E e \in owed : UpdateLoad(e)
  BY <1>4, UpdateLoadCount, Zenon
<1>5. CASE UpdateWrite
  BY <1>5, UpdateWriteCount, Zenon
<1>6. CASE UpdateGivesUp \/ UpdateRenameFails \/ Crash
  BY <1>6, StopCount, Zenon
<1>7. CASE UpdateRename
  BY <1>7, UpdateRenameCount, Zenon
<1>8. CASE UNCHANGED vars
  <2>1. /\ file' = file /\ main' = main /\ asio' = asio /\ number' = number
        /\ kept' = kept /\ owed' = owed
    BY <1>8, Zenon DEF vars
  <2>2. History' = History /\ Rewrites' = Rewrites
    BY <2>1, Zenon DEF History, Rewrites
  <2> QED
    BY <2>1, <2>2, Zenon DEF CountInv
<1> QED
  BY <1>1, <1>2, <1>3, <1>4, <1>5, <1>6, <1>7, <1>8, Zenon DEF Next

\* UpdateMessageStatus marks one entry per receipt, however receipts, appends
\* and lost rewrites interleave: no more texts of a content are shown as
\* delivered than receipts for it have come.
THEOREM ReceiptsCountOnce == Spec => []MarkedByReceipt
<1>1. Init => OrderInv /\ CountInv
  BY InitOrder, InitCount, Zenon
<1>2. OrderInv /\ CountInv /\ [Next]_vars => (OrderInv /\ CountInv)'
  BY StepOrder, StepCount, Zenon
<1>3. OrderInv /\ CountInv => MarkedByReceipt
  BY Zenon DEF CountInv, Covered, Ticked, OwedFor, SentOf, MarkedByReceipt
<1> QED
  BY <1>1, <1>2, <1>3, PTL DEF Spec
=============================================================================
