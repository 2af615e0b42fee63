# Blank Chat: TLA+ models and proofs

Blank Chat is a messenger built around a blind relay. Clients push encrypted
frames into mailboxes of the relay and poll mailboxes to fetch them; the relay
knows neither who owns a mailbox nor what a frame contains. This directory
models the parts of the system whose correctness depends on the order in which
things happen, checks them on small instances with TLC and proves the central
facts for all instances with TLAPS.

Paths below are relative to `src/`. `PROJECT.json` maps every definition to the
lines it stands for and lists components, runs, hazards, findings and theorems.

## The system and its parts

A client (`apps/client`) has two threads. The main thread runs the commands of
the REPL (`connect`, `add`, `send`, ...). One asio thread, started by `connect`,
runs the network callbacks: ticks of the obfuscation timer, each of which sends
one queued frame or one poll, and the handlers of received frames. The relay
(`apps/server`) is one asio thread that accepts connections, authenticates each
by a proof of work, stores pushed frames and answers polls.

Two clients that know each other's identity key derive a bootstrap session from
it, run an initial handshake (REQUEST, ACK) that replaces it, and repeat the
handshake every `pfsMessageInterval` texts. A session fixes, for each
direction, a mailbox and a key. After a handshake the answering client keeps its
old mailbox until a frame arrives on the new one.

Both programs are compiled with a Yocto SDK. `scripts/build_yocto.py` builds it
in a container, `upload_sdk.py` publishes it as the one release under the tag
`sdk-latest`, `download_sdk.py` installs it on a developer's machine, and
`build.py` and its companions configure, build, check and remove the build trees
of a checkout. CI jobs and shells run these scripts at the same time, and none of
them takes a lock.

| part | source | module |
|---|---|---|
| relay store | `libs/domain/server/src/message_broker.cpp` | `MessageBroker`, implementing `MailboxStore` |
| relay sessions, accept loop, memory flag | `libs/network/src/tcp_session.cpp`, `tcp_server.cpp`, `memory_monitor.cpp` | `RelayServer`, composed with `MessageBroker` |
| frames and their parser | `libs/protocol` | `FrameParser` |
| client connection | `libs/network/src/tcp_client.cpp` | `TcpClient`, implementing `ClientChannel` |
| client session logic, contacts on disk | `libs/cli/src/repl.cpp`, `libs/domain/client` | `PfsSession`, over the mailboxes `MailboxStore` promises |
| conversation history | `libs/domain/client/src/conversation_cache.cpp` | `ConversationCache` |
| padding of texts | `libs/crypto/src/symmetric_cipher.cpp` | `TextPadding`, composed with `FrameParser` |
| running commands | `scripts/utils.py` | `RunCommand`, used by the three below |
| SDK build and release | `scripts/build_yocto.py`, `upload_sdk.py` | `SdkPublish`, implementing `SdkChannel` |
| SDK installation, `.env` | `scripts/download_sdk.py`, `utils.py` | `SdkInstall`, with `SdkChannel` as its environment |
| build trees | `scripts/build.py`, `coverage.py`, `format.py`, `test.py`, `valgrind.py`, `run.py`, `clean.py` | `BuildTree`, composed with `SdkInstall` |

The parts meet as follows. `RelayServer` instantiates `MessageBroker` for its
store. `MessageBroker` implements `MailboxStore`, and a mailbox in `PfsSession`
is the bounded queue `MailboxStore` describes. `ClientChannel` is what
`PfsSession` uses of the connection: frames leave the outbox in order, one per
tick, and are lost only once the connection broke. `SdkChannel` stands between
the machine that publishes SDKs and the one that installs them: `SdkPublish`
implements it, and the releases `SdkInstall` sees are the steps it allows.

## Modules: state and actions

**MessageBroker.** `queues` is the `unordered_map` of the store. `ProcessPush`
creates the entry and refuses at the quota, `ProcessPoll` takes the front frame
and erases the entry with its last frame. `MailboxStore` is the promise: one
bounded first-in first-out queue per mailbox; the mapping reads a missing entry
as an empty queue.

**RelayServer.** Per connection: `socket`, `reading` (is a read armed, is its
handler queued), `auth`, `writeQueue`, `inFlight` (the buffer being written) and
what the client has sent and got. One action per asio handler: `HandleAccept`
and `AcceptFails`, `ReadCompletes`/`ReadFails`/`HandleRead` (the handler with
authentication and dispatch), `WriteDone`/`WriteFails`, `CheckMemory`. A client
connects, sends and leaves at any time. An accept that fails and leaves the
connection in the backlog (no descriptor, say) changes nothing but that the accept
is set again, so it is no step of its own. `ReadCompletes` and `HandleRead` are two
steps because a completed read can be overtaken by a write that fails and closes
the socket; the queued handler then still acts on one frame. One read delivers
one frame here; the division into bytes is `FrameParser`'s subject. The test for
a too small AUTH_RESPONSE (and, in the client, a too small AUTH_CHALLENGE) cannot
fire since extraction pads control frames, and is left out.

**FrameParser.** The factories and `Serialize` produce bytes, `wire` carries
them, `ReadSome` takes any piece as `async_read_some` may, and `ConsumeSpan` is
one round of the loop `FeedBytes`, `TryExtractFrame`. Sizes (byte base, mailbox
identifier, maximal payload, control payload) are parameters; the length field
has four digits in base `ByteBase`.

**TcpClient.** `timer`, `reading`, `writeQueue`, `inFlight`, `socket`,
`isAuthenticated` and the REPL's outbox. `DoCbrTick` pulls one frame from the
outbox, or a POLL, and sets the timer again; before the challenge it only sets
the timer. `ReadFails` distinguishes a read aborted by `close` (no reaction) from
a failed one (`Disconnect`). Further `connect` commands are modelled as the code
executes them: one that fails closes the working connection, one that succeeds
assigns to a joinable `std::thread` and ends the process. The steps of `Connect`
on the main thread and the SOCKS handshake are one step that succeeds or fails; a
failure to reach the Tor proxy leaves the timer running, one of the handshake goes
through `Disconnect`.

**PfsSession.** Two clients, one contact each, and the relay's mailboxes. The
hash that yields mailbox and key of a direction is the ordered pair of public
keys, called a channel; keys are `<<client, number>>`, number 0 the identity.
`contact` is the address-book entry and `disk` the part of it that `SaveToDisk`
writes; `Restart` loads it back. `HandleConnect`, `HandleAddContact`,
`HandleSend` and `HandleSendRefused` are commands. `HandleSend` continues in
`ReadTxKey`, `SendRotateRequest` and `SendText`, since the contact is read again
there with no lock and the asio thread may have replaced the session in between.
`TickPush`, `TickPoll` (with the round-robin `pollIndex`) and `TickLost` are
timer ticks, `OnFrameReceived` a frame handled to the end, including both
rotation handlers, the receipt and the save. `Cut` breaks a connection.

**ConversationCache.** The history file of one contact as a sequence of written
pieces. No lock protects it, so open, each write, load and rename are steps. A
line longer than the stream's buffer takes two writes. An append goes to the
inode that was opened, which `rename` may have unlinked. `UpdateMessageStatus`
is `UpdateLoad`, `UpdateWrite`, `UpdateRename` and its failures; on a full disk
any prefix of the copy is what gets renamed, as the stream is not tested.

**TextPadding.** `EncryptWithPadding` and `DecryptAndUnpad` with ideal encryption,
as operators on byte sequences, over the stream of `FrameParser`: the texts that
come out of the parser are unpadded again.

**RunCommand.** `AfterCommand` is where a script goes on after `run_command`: to
its next step, or to its end when the command failed.

**SdkPublish.** A workspace is a checkout with its `yocto-dev` directory. Per
workspace `pc` and `job` are the script's progress, `repo` the cloned
repositories (absent, partial, whole), `layers` the content of `bblayers.conf`
and `sdk` the installer in the deploy directory. `Start`, `Clone`, `DockerBuild`
and `Bitbake` are `build_yocto.py`, which builds whatever is checked out: any commit
up to the head of main, since a workflow run that is repeated has its old commit and
a maintainer's checkout may be behind; `AddLayers` is the chain of
`add-layer ... || true`. `Find`, `Delete` and `Create` are `upload_sdk.py`, which
follows a successful SDK build as in `auto-release.yml`. A fault is a command that
fails or is killed, before or after it took effect.

**SdkInstall.** `installer` is the file in the download directory, `sdk` what each
location holds: nothing, a whole SDK, or one that was cut short with or without
its `environment-setup` script. `StartDownload`, `FetchBegins`/`FetchEnds` and
`InstallBegins`/`InstallEnds` are `download_sdk.py`; `YoctoSdkDir` is the
precedence of shell, `.env` and default. `shared` tells that downloads under way
met in the directory; then a file may be mixed or removed at any time.

**BuildTree.** `tree` keeps apart what the scripts take for one thing, the
directory of a preset and its configuration, and the version of the sources its
executables come from; `root` is the `compile_commands.json` in the project root, as
two parts written one after the other, and `writers` the builds that have that file
open; one whose file was unlinked goes on writing in vain.
`LoadYoctoEnv`, `Configure`, `Make`, `Root`, `Unlink`, `CopyBegins`, `CopyPart`,
`CopyEnds`,
`CoverageTarget`, `FormatTarget`, `FindExecutable`, `Check` and `Clean` are the
steps of the scripts, in any number of shells; `AfterEnv` is where each goes after
the environment is loaded. `Edit` changes the sources, `Kill` ends `build.py`
while it replaces the root file.

## Abstractions and why they are sound

- A network callback is one step: one asio thread runs them. Its disk save is
  part of the step; frames it queued leave only with a later tick.
- In `PfsSession` the relay handles a pushed or polled frame within the tick that
  sends it, and `down` holds the answers on their way back. The channel between
  client and relay is first-in first-out and no other client shares a mailbox, so
  while a connection lasts delaying the relay's step adds no behaviour other than a
  later tick would. Across a restart this is an assumption: a frame still on its
  way when the client dies is handled by the relay before frames of the next
  connection, or lost. If it came later, `HonestHistory` would not say in which
  order the texts are stored.
- `InitiatePfsRotation` queues the request two statements before it sets
  `pfsState`. The model takes them as one step; an answer in between would need
  a tick, a poll by the peer and a poll by this client, each a timer period.
- The counter of texts is a plain integer written by both threads; a lost
  increment only delays a rotation, and the model counts exactly.
- Texts of a `PfsSession` user are distinct; ids are hashes of content. Equal
  texts are covered by `ConversationCache`.
- Encryption and hashing are ideal: a frame is read only with its key, channels
  of different key pairs differ.
- The deploy directory and the download directory hold one installer: the scripts
  take the newest one, and `download_sdk.py` removes the others first. `--dest`
  and `--version` keep their defaults.
- Each `cmake`, `gh` or `bitbake` command is one step, or two where another shell
  can see it half done (`gh release download`, the installer, the copy). What
  the tools do without a whole SDK, layer or configuration is external: they fail,
  or with a torn SDK may fail.
- The checkout of a workspace does not change while a job runs.
- `gh release create` publishes an asset only once it is uploaded (it works on a
  draft), and refuses a tag that has a release.

## Runs

| run | instance | states | what it shows |
|---|---|---|---|
| `broker` | 2 mailboxes, 3 frames, quota 3 | small | no empty entries, implements `MailboxStore` with its quota |
| `frame_parser` | every kind of frame, up to 3, payloads up to 1 over the limit, any cuts; padded texts of one and two cells | 459k | frames come out as sent however the stream is cut; buffers bounded; only a malformed frame closes; padding is undone and fills whole cells |
| `relay_safety` | 2 connections with 3 requests each, 2 mailboxes | 1.4M | a frame is handed out once; answers match polls; strangers get the challenge only; frames are lost only with a connection that polled |
| `relay_liveness` | 2 connections, 1 mailbox, quota 1, a memory alarm | 286k | every connection is decided, every poll answered or its connection ends |
| `tcp_client` | 3 frames, 3 queued, 2 incoming | 151k | challenge answered first; implements `ClientChannel`; queued frames leave |
| `pfs_one_sided` | both send 3 texts, the initiator rotates with every text | 157k | sessions converge, order, honest receipts; handshakes end; without a rotation every text is delivered |
| `pfs_failures` | one sends 3 texts; quota 1; 1 cut, 1 restart, 2 re-added contacts | 464k | no text under the bootstrap key, no unanswered session, order, honest receipts, rotation only forward |
| `cache` | 3 entries, short and long, 1 kill, full disk | 67k | no duplicate or reordering, marks are earned and kept; what a rewrite can lose |
| `sdk_publish` | 2 workspaces (fresh, used before), 2 commits, 2 faults | 78k | the tag implements `SdkChannel`; a gap has an owner; a job publishes its own build; builds recover, a release returns |
| `build_tree` | 2 shells (one exports its SDK and sourced `bc-env.sh`), 2 presets, 2 releases, 2 versions of the sources, 1 fault, any 1 script beside the retries | 866k | torn installers do not run; successful builds are current; racing builds leave no part of the root file missing; retries end in the released SDK, a current build and a whole root file |
| `pfs_glare`, `pfs_old_mailbox` | as small as shows it | | violations, see Findings |

Bounds. Every bound is a constant named in the module that uses it. Two clients
are all a session has; two connections suffice for any race between sessions
because they interact only through the store. Three texts with interval 1 give
the initial handshake and two rotations, so a receipt or text can be two
sessions late. `TextsAreDelivered` speaks of behaviours without a rotation, so
there it is mostly about the responder's texts; and as their number is bounded, it
does not cover a user who never pauses, whose queued frames would keep every poll
waiting. In `pfs_one_sided` there are more keys than those handshakes use,
so the bound does not cut a liveness property short; in `pfs_failures` it may end
a long chain of re-added contacts, and the theorems cover what lies beyond. A quota of one makes the relay drop frames in
`pfs_failures`; 9 and 6 never drop. `MaxPayload` 10 with length digits of base 8
reaches lengths 0, limit and limit + 1, and a length of two digits. With cells of
8 bytes, 7 of them overhead, the empty text fills one cell, a text of one byte
needs a second, and one of eight fills both. Two faults let a
job fail after another one did; two workspaces give every race for the one tag.
In `build_tree` the fault and the extra script fall anywhere among the retries;
that one extra script can be a second download, build, format or clean.
`CHECK_DEADLOCK FALSE` appears where the
system may stop: every connection has ended, every text was sent, the stream was
read.

Symmetry is used in `relay_safety` only, over connections and mailboxes; the
liveness runs use none.

Fairness is weak and only on steps the programs take themselves: `io_context`
runs a handler that is ready (`HandleRead`, `DoCbrTick`, `WriteDone`...), timers
expire, TCP delivers to a connection that stays up, the main thread finishes a
command it began, and an accept does not fail for ever on a connection that stays in
the backlog. `PfsSession` also assumes that users eventually `connect`,
without which no handshake could be expected. No fairness is assumed of users who
send texts, of failures, or of `connect` commands in `TcpClient`.

In the script models a script that runs goes on (weak fairness of its steps), and
somebody repeats what failed: `sdk_publish` assumes strong fairness of starting
an SDK build in each workspace, `build_tree` of one shell's `download_sdk.py` and
`build.py -c`. The fairness is strong because a retry is possible only between two
runs. It is a developer's or CI's persistence, which the messages of the scripts
ask for, and without it nothing could be expected to recover. Faults are bounded,
so they stop; the release is not assumed to stay, `EventuallyInstalled`,
`EventuallyBuilt` and `RootRecovers` speak of behaviours in which it does.

## What is proved

Every theorem holds for all values of the constants under the named assumptions
of the modules: `SessionAssumption`, `NoneAssumption`, `ParserAssumption`,
`FactoryAssumption`, `PaddingAssumption`, `BrokerAssumption`, `RelayAssumption`,
`ClientAssumption`, `CacheAssumption`, `PublishBounds`, `InstallBounds` and
`BuildBounds`. They say that sizes and bounds are natural numbers, `None` is
neither key nor channel and `Empty` no frame, the two clients differ, there are
finitely many connections, long texts are texts, exported locations are
locations, and the two fixed presets exist. `FactoryAssumption` says what frames
peers send: those of the kinds POLL and AUTH are what the factories of
`frame.cpp` make, and the length of a payload fits the four bytes of its field;
frames of unknown kinds and oversized ones are among them.
`RefinementProofs` holds the results on the three components that have an abstract
specification, `SdkPublish`, `MessageBroker` and `TcpClient`. It extends all
three, which is why the specifications of the last two are called `StoreSpec` and
`ClientSpec`.

- `FrameParserProofs`: `ParserTypeCorrect` and `ParserBuffersBounded`. The
  invariant ties each parser state to the lengths of its buffers, so that the
  unsigned subtractions in `FeedBytes` cannot wrap.
- `FrameParserProofs`, the stream: `StreamCutsDoNotMatter`. `ChunkInv` says that the
  bytes the parser holds, those of the current read and those on the wire are
  together what `Serialize` makes of the frames after the n-th, that the
  session has what is accepted of the first n, and that a parser which has left
  the header knows its length field. `FeedBytes` only moves bytes, at least one
  (so the "consumed zero bytes" exit is never taken); when it completes a frame,
  header and payload are those of frame n + 1, because two splits of one stream
  at the same place agree and the four bytes of the length field give back the
  number (`FourDigits`). That n is the number of frames which have arrived
  follows from the lengths.
- `FrameParserProofs`, padding: `TextsReadAsSent`. The padded text is described
  byte by byte: the text, the marker, zeros up to the cell boundary. The last
  byte that is not zero is therefore the marker, whatever the text ends in.
- `RefinementProofs`, the store: `StoreTypeCorrect`, `StoreQuotaHolds`,
  `StoreHasNoEmptyEntry`, and `StoreRefinement` (the broker implements
  `MailboxStore`). Each is inductive together with the types;
  `StoreHasNoEmptyEntry` needs a positive quota, since a quota of zero would
  leave the entry that a refused push created.
- `RefinementProofs`, the connection: `ChallengeFirst` and `ConnectionIsChannel`
  (`TcpClient` implements `ClientChannel`). `ConnectionInv` adds that the frame
  being written is the front of `writeQueue`, that nothing enters that queue
  before the challenge is answered, and that while the connection holds the
  answer is the next frame to leave or has left. The refinement reads the channel's
  content from two queues, so it rests on what `DataOf` does to a queue that grows
  at its end or loses its front, proved by induction over queues.
- `RelayServerInvariant`: `SessionsSound`, `WritesFromFrontHolds`,
  `AtMostOnceHolds` and `StrangersLockedOutHolds`. `SessionInv` is about one
  connection at a time: no more requests are taken than were sent, a connection
  that was not accepted is untouched, one that is not authenticated has at most the
  challenge and stops reading with its first request, and the buffer being
  written is the front of its queue. `OriginInv` says that every frame in the
  store or on its way to a client was taken from an authenticated session and
  pushed to that mailbox, `UniqueInv` that it is in one place. The second needs the
  first: the frame of a new request is in no other place because frames that are
  somewhere were taken before.
- `RelayServerProofs`: `LostOnlyWithConnectionHolds` and `AnswersInOrderHolds`. For
  the first, mailboxes that could hold all frames never refuse one, which is a
  cardinality argument from `UniqueInv`; a frame then leaves its place only for a
  session's queue, or with a connection that polled for it. For the second, the
  answers a client has and those queued for it, together, correspond to its polls
  by rank, and a write that fails can only take away the front of what is
  queued on a connection that has ended.
- `ConversationCacheProofs`: `HistoryInOrder`, `StatusNeverBack`,
  `ReceivedTextsKept`, `LossIsRacing` and `ReceiptsCountOnce`. What `LoadHistory`
  reads from a file with one more piece is proved by induction over the file:
  the same, or one entry more. None of the five is inductive. `OrderInv` adds that
  the copy held by `UpdateMessageStatus` is ordered too and agrees with the history
  on what it has, and that the entry of a thread that is appending is
  newer than all entries of its direction in both. `IntactInv` adds that the
  network thread never appends to an unlinked file and that its copy has every
  received text; `CountInv` that receipts cover the copy as they cover the history,
  so that it does not matter which of the two a rename leaves.
- `PfsSessionProofs`: `TypeCorrect`, action by action; `TextsNeverUnderBootstrapKey`,
  `InstalledSessionsWereAnswered` and `SessionsAreNeverReinstalled`. None of the
  last three is inductive. `SessionInv` adds that the disk holds the session in use
  (else a restart could return to the bootstrap session with the handshake marked
  complete), that a completed contact, or a `send` under way, has left the
  bootstrap channel, that every frame in an outbox, a mailbox or on its way is
  under a channel some handshake answered and an ACK in transit was recorded as
  answered, and that keys waiting to be used are generated and in no session. The
  last theorem follows from that freshness: whichever key completes a session has
  not been in one. The last part reduces every action to a *move*: what it does to
  one contact record, to the frames in transit and to the history of one client.
- `PfsHistoryProofs`, histories: `HistoryIsHonest`, for rotations by both sides,
  lost frames, restarts and re-added contacts. That texts are stored in order says
  nothing of those still to come, so the invariant, `HonestInv`, is about the frames
  in transit. `OwnInv` says to whom channels and keys belong, that a text in transit
  was sent, and that a receipt in transit is for a stored text, on which DELIVERED
  rests (`DeliveredInv`). `OrderInv` says that the texts of one channel ascend from
  the receiver's end through the mailbox to the sender's outbox. `HistoryInv`
  relates channels: every text to come on a mailbox the client listens on is later
  than those it has stored (`NewInv`); texts on the old mailbox precede those on the
  new one, and the sender has left the old one or not begun with the new
  (`PairInv`). A session may be installed by an answer that is still in transit, so
  the same is said of the session it would complete (`AnswerInv`).
- `PfsHistoryProofs`, sessions: `OneSidedSessionsConverge`. When only the client
  with the smaller identity key rotates (`OneSided`) and nobody has restarted or
  added the contact again (`Undisturbed`), two clients with no handshake under way
  use the same session, whatever was lost. `ConvergeInv` is the account of the
  handshake: a request in transit carries the pending key; while the initiator waits,
  either the sessions are the same and no answer to that key exists, or no request is
  left and the answer is for the session the responder has installed. That answering
  one request leaves no second one behind is `LoneInv`: a channel never holds two.
- `RefinementProofs`, publishing: `PublishTypeCorrect`, `PublishRefinement`
  (publishing implements `SdkChannel`), `OwnBuildPublished` and `GapsAreOwned`. The
  invariant adds that a job under way has a commit, and that one which has come to
  its upload has the whole installer of its own commit in the deploy directory,
  for whatever the workspace held before.
- `BuildTreeProofs`: `TypeCorrect`, `WholeInstallers`, `BuildsAreCurrent`
  and `RootFileIsWhole`. The invariant adds that downloads which do not
  share the directory are alone in it, so what one of them fetched is still there
  when it installs; that no script started on sources newer than the present ones;
  and, for the root file, that a build which has it open is copying, that its preset
  is among the openers, and that a part still missing has a build which has the
  file open and that part still to write, unless one was killed.

Only model-checked are the liveness properties: fairness and `ENABLED` are out of the
prover's reach. Every invariant and action property of a passing run is a theorem.
`SessionsConverge` is one under the two conditions above, which the instance of
`pfs_one_sided` satisfies; the theorem also covers lost frames, which that run leaves
out. When both sides rotate the property is violated (see Findings); when only the
client with the larger identity key does, it is neither checked nor proved.

Induction over data is done with a lemma on sets of numbers (`NatInduct`), proved
from the well-foundedness of the naturals; the recursive functions of
`ConversationCache`, `TcpClient` and `FrameParser` are shown to exist and to satisfy their
equations first.

In the other direction, types and `QuotaRespected` are proved and left out of the
runs: the refinement of `MailboxStore` implies the quota on the instance that TLC
checks. `TypeOK` of `SdkPublish` leaves out `repo` and `layers`, which a recursive
function computes and no theorem needs.

## Findings

1. *Crossing rotations split a session* (`pfs_glare`, `repl.cpp:392`). The rule
   for crossing requests covers the initial handshake only. In a periodic
   rotation each side answers the other and then takes the other's answer; they
   end in different sessions with no handshake under way.
2. *The old mailbox is not dropped safely* (`pfs_old_mailbox`, `repl.cpp:599`). A
   frame from the new mailbox can be polled before texts queued in the old one.

`pfs_one_sided` and `cache` state what does hold beside these: sessions converge
when one side rotates, texts are delivered while nobody rotates, received texts
are never lost, and a rewrite loses only texts appended while it was under way.

## What the exceptions in the properties mean

Several properties hold only with an exception, and the exception is a behaviour
of the code a maintainer should know of.

- `OnlyRacingAppendsLost`: a text that is sent while `UpdateMessageStatus` is
  between its load and its rename is gone from the history
  (`conversation_cache.cpp:135`); no lock is shared with `AppendMessage`.
- `MarkedByReceipt` bounds how many sent texts are marked, it does not say which.
  Ids are hashes of the text for both directions, so the receipt of a text equal
  to a received one marks the received entry and the sent one stays pending
  (`conversation_cache.cpp:137`).
- `GapHasOwner`: `upload_sdk.py` deletes before it creates; a failure in between
  leaves no SDK to download until some job runs again.
- `PublishesOwnBuild` says that a job publishes what it built, not that the tag only
  moves forward. Nothing compares commits: a workflow run that is repeated, a
  checkout behind main, or the slower of two jobs that overlap puts an older SDK
  under `sdk-latest`, where it stays until the next one.
- `BuildRecovers`: a killed `git clone` leaves a directory that every later run
  takes for a clone; only removing it by hand helps. A layer whose addition fails
  is retried by the next run; one the images do not need (`meta-security`) can
  be missing without a message.
- `OnlyWholeInstallersRun`: two downloads at a time share a directory, and one may
  run what the other is still writing.
- `RootIsWhole`: builds of different presets that copy at the same time can leave a
  root file with the front of one and the back of the other, and a build that is
  killed leaves part of one; the next build replaces it (`RootRecovers`). When two
  builds find the same old file, the second `unlink` raises an exception and that
  `build.py` ends without a copy.
- `EventuallyBuilt` needs `build.py -c`. After a failed first configuration plain
  `build.py`, which `run.py` recommends, finds the directory, skips the
  configuration and fails again.
- `BuiltIsCurrent`: when `clean.py` runs meanwhile, `build.py` can report success
  with the executables gone.

## What is not modelled

Cryptographic primitives (libsodium, taken as ideal), the text of JSON files,
logging, start-up checks, the system-call filter, lengths of timer intervals, the
analysis and plotting scripts and the Yocto recipes: they are
I/O or computation without a state of their own. Of the scripts, argument parsing,
messages and `--target`, `--clean`, `--dest` and `--version` are left out: they
choose between commands that succeed or fail alike. The proxy's name in `TcpClient::Connect` is
taken to resolve; an exception of the resolver would end the program, which
catches none. `upload_sdk.py` run by hand
after a failed SDK build is not modelled; it would publish what the deploy
directory holds. `history`, `list` and `mykey`
only read. `DeleteHistory` has no caller.

## Plan

Done: the relay (`MessageBroker`, `RelayServer`), the wire (`FrameParser`), the
client's connection, session, history and padding, the scripts that publish and
install the SDK and build the programs, and the proofs above. Next, in order:

1. `ContactFile`: `SyncContactsToDisk` truncates before it writes; kills between
   the system calls, the identity file, and what a restart finds. Run: two
   contacts, one kill. Compose with the persisted part of `PfsSession`.
2. `PollSchedule`: the round-robin index over several contacts whose old
   mailboxes come and go; liveness: every active mailbox is polled again.
3. `Codec`: payload layout, hex and mnemonic packing as pure operators
   against reference definitions, over all inputs up to a small length, in one
   run.
4. `TorConnect`: the SOCKS and control-port exchanges with byte counts, as the
   detailed form of `TcpClient`'s connect step.
5. `BenchmarkSuite`: machines, the private Tor network, and the suite that
   patches and restores sources, with interrupts and retries.
6. Proofs: `SessionsConverge` when only the client with the larger identity key
   rotates after the initial handshake, where the account of `ConvergeInv` changes
   sides once.
