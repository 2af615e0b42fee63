------------------------- MODULE ConversationCache --------------------------
(***************************************************************************)
(* The history file of one contact                                         *)
(* (libs/domain/client/src/conversation_cache.cpp): the main thread        *)
(* appends sent texts, the network thread appends received texts and       *)
(* rewrites the file when a receipt arrives.  No lock protects the file,   *)
(* so every system call is a step of its own, and the process may be       *)
(* killed between any two.                                                 *)
(*                                                                         *)
(* A line is flushed by one write when it fits the stream's buffer; a      *)
(* longer one takes two (head and tail).  Writes append to the inode that  *)
(* was opened, which a rename may have unlinked meanwhile.                 *)
(***************************************************************************)
EXTENDS Integers, Sequences, FiniteSets

CONSTANTS
    Text,           \* contents; a text's id is the hash of its content
    Long,           \* the texts whose line exceeds the stream's buffer
    MaxEntries,     \* bound: texts sent and received
    MaxCrashes      \* bound: the process is killed and started again

ASSUME CacheAssumption ==
    /\ Long \subseteq Text
    /\ MaxEntries \in Nat /\ MaxCrashes \in Nat

VARIABLES
    file,      \* history_<alias>.jsonl, a sequence of written pieces
    tmp,       \* history_<alias>.jsonl.tmp
    main,      \* the main thread inside AppendMessage
    asio,      \* the network thread inside AppendMessage or UpdateMessageStatus
    number,    \* entries so far; they are numbered for the properties
    kept,      \* the entries whose AppendMessage has returned
    owed,      \* sent texts whose receipt has not come yet
    intact,    \* no line was longer than the buffer and the disk has not been full
    crashes

vars == <<file, tmp, main, asio, number, kept, owed, intact, crashes>>

Entry == [n : 1 .. MaxEntries, id : Text, direction : {"inbound", "outbound"},
          status : {"pending_ack", "delivered"}]
Piece(e, part) == [entry |-> e, part |-> part]

Idle == [pc |-> "idle"]

Init ==
    /\ file = <<>> /\ tmp = <<>>
    /\ main = Idle /\ asio = Idle
    /\ number = 0 /\ kept = {} /\ owed = {}
    /\ intact = TRUE /\ crashes = 0

-----------------------------------------------------------------------------
(* Reading. *)

StringToStatus(s) == IF s \in {"pending_ack", "delivered"} THEN s ELSE "failed"

ParseCacheEntry(e) == [e EXCEPT !.status = StringToStatus(@)]

\* A line is read back if it consists of one whole entry, written at once or
\* as a head directly followed by its tail.  Other lines do not parse.
Parses(f, i) ==
    LET midLine(k) == k >= 1 /\ f[k].part = "head"
    IN  \/ f[i].part = "all" /\ ~midLine(i - 1)
        \/ /\ f[i].part = "tail" /\ midLine(i - 1)
           /\ f[i - 1].entry = f[i].entry /\ ~midLine(i - 2)

\* What piece i adds to the result: the entry that it completes, or nothing.
Read(f, i) == IF Parses(f, i) THEN <<ParseCacheEntry(f[i].entry)>> ELSE <<>>

\* The loop over the lines.
LoadHistory(f) ==
    LET result[i \in 0 .. Len(f)] == IF i = 0 THEN <<>> ELSE result[i - 1] \o Read(f, i)
    IN  result[Len(f)]

-----------------------------------------------------------------------------
(* AppendMessage, on either thread. *)

Opened(e) == [pc |-> "open", entry |-> e, stale |-> FALSE]

\* HandleSend.
OpenOutbound(id) ==
    /\ main = Idle /\ number < MaxEntries
    /\ number' = number + 1
    /\ intact' = (intact /\ id \notin Long)
    /\ main' = Opened([n |-> number + 1, id |-> id, direction |-> "outbound",
                       status |-> "pending_ack"])
    /\ UNCHANGED <<file, tmp, asio, kept, owed, crashes>>

\* HandleTextMessage.
OpenInbound(id) ==
    /\ asio = Idle /\ number < MaxEntries
    /\ number' = number + 1
    /\ intact' = (intact /\ id \notin Long)
    /\ asio' = Opened([n |-> number + 1, id |-> id, direction |-> "inbound",
                       status |-> "delivered"])
    /\ UNCHANGED <<file, tmp, main, kept, owed, crashes>>

\* Write a piece to the inode that thread th has open.
Written(th, part) == IF th.stale THEN file ELSE Append(file, Piece(th.entry, part))

\* The thread and the file after the next write of AppendMessage.
Writing(th, th2) ==
    \/ /\ th.pc = "open" /\ th.entry.id \notin Long
       /\ file' = Written(th, "all") /\ th2 = Idle
       /\ kept' = kept \cup {th.entry}
    \/ /\ th.pc = "open" /\ th.entry.id \in Long
       /\ file' = Written(th, "head") /\ th2 = [th EXCEPT !.pc = "head"]
       /\ UNCHANGED kept
    \/ /\ th.pc = "head"
       /\ file' = Written(th, "tail") /\ th2 = Idle
       /\ kept' = kept \cup {th.entry}

\* The text is sent, and may be answered, once it is in the history.
MainWrites ==
    /\ main.pc \in {"open", "head"}
    /\ Writing(main, main')
    /\ owed' = IF main' = Idle THEN owed \cup {main.entry} ELSE owed
    /\ UNCHANGED <<tmp, asio, number, intact, crashes>>

AsioWrites ==
    /\ asio.pc \in {"open", "head"}
    /\ Writing(asio, asio')
    /\ UNCHANGED <<tmp, main, number, owed, intact, crashes>>

-----------------------------------------------------------------------------
(* UpdateMessageStatus, on the network thread. *)

\* Mutant: every entry is marked.
Marked_All(history, id) == [i \in DOMAIN history |-> [history[i] EXCEPT !.status = "delivered"]]

\* Mutant: the other entries are written back with their first status.
Marked_ResetsOthers(history, id) ==
    [i \in DOMAIN history |->
        [history[i] EXCEPT !.status = IF history[i].id = id THEN "delivered" ELSE "pending_ack"]]

\* The first entry with the id is marked.
Marked(history, id) ==
    LET hits == {i \in DOMAIN history : history[i].id = id}
        first == CHOOSE i \in hits : \A j \in hits : i <= j
    IN  [history EXCEPT ![first].status = "delivered"]

\* A receipt arrives; an unknown id ends the update.
UpdateLoad(e) ==
    LET history == LoadHistory(file)
    IN  /\ asio = Idle
        /\ owed' = owed \ {e}
        /\ asio' = IF \E i \in DOMAIN history : history[i].id = e.id
                   THEN [pc |-> "loaded", id |-> e.id, history |-> Marked(history, e.id)]
                   ELSE Idle
        /\ UNCHANGED <<file, tmp, main, number, kept, intact, crashes>>

Pieces(history) == [i \in DOMAIN history |-> Piece(history[i], "all")]

\* What ends up in the temporary file: everything, or what fitted the disk.
\* The stream's state is not tested before the rename.
Flushed(history) ==
    {SubSeq(Pieces(history), 1, k) : k \in 0 .. Len(history)}
        \cup {Append(SubSeq(Pieces(history), 1, k - 1), Piece(history[k], "head")) :
                  k \in 1 .. Len(history)}

\* Mutant: the temporary file is opened without ios::trunc.
UpdateWrite_NoTrunc ==
    /\ asio.pc = "loaded"
    /\ \E f \in Flushed(asio.history) : tmp' = tmp \o f
    /\ asio' = [asio EXCEPT !.pc = "written"]
    /\ UNCHANGED <<file, main, number, kept, owed, intact, crashes>>

\* Mutant: the file is rewritten in place.
UpdateWrite_InPlace ==
    /\ asio.pc = "loaded"
    /\ file' = <<>> /\ tmp' = Pieces(asio.history)
    /\ asio' = [asio EXCEPT !.pc = "written"]
    /\ UNCHANGED <<main, number, kept, owed, intact, crashes>>

UpdateWrite ==
    /\ asio.pc = "loaded"
    /\ tmp' \in Flushed(asio.history)
    /\ intact' = (intact /\ tmp' = Pieces(asio.history))
    /\ asio' = [asio EXCEPT !.pc = "written"]
    /\ UNCHANGED <<file, main, number, kept, owed, crashes>>

\* The temporary file cannot be opened.
UpdateGivesUp ==
    /\ asio.pc = "loaded"
    /\ asio' = Idle
    /\ UNCHANGED <<file, tmp, main, number, kept, owed, intact, crashes>>

\* rename replaces the file; a handle of the main thread keeps the old inode.
UpdateRename ==
    /\ asio.pc = "written"
    /\ file' = tmp /\ tmp' = <<>>
    /\ main' = IF main = Idle THEN Idle ELSE [main EXCEPT !.stale = TRUE]
    /\ asio' = Idle
    /\ UNCHANGED <<number, kept, owed, intact, crashes>>

UpdateRenameFails ==
    /\ asio.pc = "written"
    /\ asio' = Idle
    /\ UNCHANGED <<file, tmp, main, number, kept, owed, intact, crashes>>

\* The process is killed and started again; receipts may still come.
Crash ==
    /\ crashes < MaxCrashes
    /\ crashes' = crashes + 1
    /\ main' = Idle /\ asio' = Idle
    /\ UNCHANGED <<file, tmp, number, kept, owed, intact>>

Next ==
    \/ \E id \in Text : OpenOutbound(id) \/ OpenInbound(id)
    \/ MainWrites \/ AsioWrites
    \/ \E e \in owed : UpdateLoad(e)
    \/ UpdateWrite \/ UpdateGivesUp \/ UpdateRename \/ UpdateRenameFails
    \/ Crash

Spec == Init /\ [][Next]_vars

-----------------------------------------------------------------------------
(* Properties. *)

History == LoadHistory(file)
Shown(f) == {LoadHistory(f)[i].n : i \in DOMAIN LoadHistory(f)}

\* Whatever is killed, cut short or interleaved, the history shows no entry
\* twice, and the texts of each direction in the order they came.
InAppendOrder ==
    \A i, j \in DOMAIN History : i < j =>
        /\ History[i].n # History[j].n
        /\ History[i].direction = History[j].direction => History[i].n < History[j].n

\* An entry marked DELIVERED never goes back to PENDING_ACK.
StatusForward ==
    [][\A i \in DOMAIN History : \A j \in DOMAIN History' :
           (History[i].n = History'[j].n /\ History[i].status = "delivered")
               => History'[j].status = "delivered"]_vars

\* No receipt counts twice: of the sent texts with one content, at most as
\* many are shown as delivered as receipts for that content have come.
MarkedByReceipt ==
    \A x \in Text :
        Cardinality({i \in DOMAIN History : /\ History[i].direction = "outbound"
                                            /\ History[i].id = x
                                            /\ History[i].status = "delivered"})
            + Cardinality({e \in owed : e.id = x})
            <= Cardinality({e \in kept : e.direction = "outbound" /\ e.id = x})

\* Received texts are appended by the thread that rewrites the file, so as
\* long as lines fit the buffer and the disk has room none is ever lost.
InboundKept ==
    intact =>
        \A e \in kept : e.direction = "inbound" => e.n \in Shown(file)

\* A rewrite removes nothing but texts the main thread appended after the
\* network thread had loaded the file, as long as the disk has room.
OnlyRacingAppendsLost ==
    [][\A i \in DOMAIN History : (intact /\ History[i].n \notin Shown(file')) =>
           /\ History[i].direction = "outbound"
           /\ asio.pc = "written"
           /\ \A k \in DOMAIN asio.history : asio.history[k].n # History[i].n]_vars
=============================================================================
