-------------------------- MODULE RefinementProofs --------------------------
(***************************************************************************)
(* Proofs about the three components that have an abstract specification,  *)
(* and that each implements it: publishing the SDK (SdkChannel), the store *)
(* of the relay (MailboxStore) and the client's connection (ClientChannel),*)
(* for every number of workspaces, commits and faults, every quota, and    *)
(* any number of frames in the queues.                                     *)
(*                                                                         *)
(* Publishing: a job that has reached upload_sdk.py holds the installer of *)
(* its own commit, whatever earlier and other jobs left.                   *)
(***************************************************************************)
EXTENDS SdkPublish, MessageBroker, TcpClient, SequenceTheorems, WellFoundedInduction, TLAPS

(* Publishing the SDK. *)

\* A running job has a commit to build.
JobsHaveCommit == \A w \in Workspaces : pc[w] # "exit" => job[w].commit \in Commits

\* upload_sdk.py finds the installer that build_yocto.py has just left.
UploadsOwnCommit ==
    \A w \in Workspaces : pc[w] \in {"find", "delete", "create"} => sdk[w] = job[w].commit

IInv == TypeOK /\ JobsHaveCommit /\ UploadsOwnCommit

\* Where a job goes after a command (run_command).
LEMMA GoToEffect ==
    ASSUME NEW w \in Workspaces, NEW step \in Steps, TypeOK, GoTo(w, step)
    PROVE  /\ pc' \in [Workspaces -> Steps] /\ pc'[w] = step
           /\ job' \in [Workspaces -> Job]
           /\ step # "exit" => job'[w] = job[w]
           /\ \A v \in Workspaces \ {w} : pc'[v] = pc[v] /\ job'[v] = job[v]
  <1>1. NoJob \in Job
    BY Zenon DEF NoJob, Job
  <1> QED
    BY <1>1, Zenon DEF GoTo, TypeOK

\* The initial states satisfy the invariant.
LEMMA InitIInv == Init => IInv
  <1> SUFFICES ASSUME Init PROVE IInv
    BY Zenon
  <1>1. 1 \in Commits
    BY PublishBounds DEF Commits
  <1>2. NoJob \in Job
    BY Zenon DEF NoJob, Job
  <1>3. TypeOK
    BY <1>1, <1>2, Zenon DEF Init, TypeOK, Steps, Installers
  <1> QED
    BY <1>3 DEF Init, IInv, JobsHaveCommit, UploadsOwnCommit

\* The steps of build_yocto.py that change neither releases nor installers: the
\* job goes on before the upload, or ends.
LEMMA EarlyStep ==
    ASSUME IInv, NEW w \in Workspaces, NEW step \in {"exit", "clone", "bitbake"},
           pc[w] # "exit", GoTo(w, step),
           UNCHANGED <<head, release, sdk, published>>
    PROVE  IInv'
  <1> USE GoToEffect DEF IInv, Steps
  <1>1. TypeOK'
    BY Zenon DEF TypeOK
  <1>2. JobsHaveCommit'
    BY Zenon DEF JobsHaveCommit
  <1>3. UploadsOwnCommit'
    BY Zenon DEF UploadsOwnCommit
  <1> QED
    BY <1>1, <1>2, <1>3, Zenon

\* Push and Start leave releases and installers alone.
LEMMA PushKeeps == IInv /\ Push => IInv'
  <1> SUFFICES ASSUME IInv, Push PROVE IInv'
    BY Zenon
  <1>1. TypeOK'
    BY PublishBounds DEF IInv, TypeOK, Push, Commits
  <1>2. JobsHaveCommit'
    BY Zenon DEF IInv, JobsHaveCommit, Push
  <1>3. UploadsOwnCommit'
    BY Zenon DEF IInv, UploadsOwnCommit, Push
  <1> QED
    BY <1>1, <1>2, <1>3, Zenon DEF IInv

LEMMA StartKeeps ==
    ASSUME IInv, NEW w \in Workspaces, NEW forSdk \in BOOLEAN, Start(w, forSdk)
    PROVE  IInv'
  <1> USE DEF IInv, Start
  <1>0. PICK commit \in 1 .. head :
           job' = [job EXCEPT ![w] = [sdk |-> forSdk, commit |-> commit]]
    BY Zenon
  <1>1. commit \in Commits /\ [sdk |-> forSdk, commit |-> commit] \in Job
    BY PublishBounds DEF TypeOK, Job, Commits
  <1>2. TypeOK'
    BY <1>0, <1>1, Zenon DEF TypeOK, Steps
  <1>3. JobsHaveCommit'
    BY <1>0, <1>1, Zenon DEF TypeOK, JobsHaveCommit
  <1>4. UploadsOwnCommit'
    BY Zenon DEF TypeOK, UploadsOwnCommit
  <1> QED
    BY <1>2, <1>3, <1>4, Zenon

\* bitbake: upload_sdk.py follows only an SDK build that succeeded, which left
\* the installer of this commit.
LEMMA BitbakeKeeps ==
    ASSUME IInv, NEW w \in Workspaces, Bitbake(w)
    PROVE  IInv'
  <1> USE DEF IInv
  <1>1. PICK ok \in BOOLEAN, able \in BOOLEAN :
           /\ ok => able
           /\ \E s \in IF job[w].sdk /\ able THEN Left(w, ok) ELSE {sdk[w]} :
                  sdk' = [sdk EXCEPT ![w] = s]
           /\ GoTo(w, AfterCommand(ok, IF job[w].sdk THEN "find" ELSE "exit"))
    BY Zenon DEF Bitbake
  <1>2. PICK s \in IF job[w].sdk /\ able THEN Left(w, ok) ELSE {sdk[w]} :
           sdk' = [sdk EXCEPT ![w] = s]
    BY <1>1, Zenon
  <1> DEFINE step == AfterCommand(ok, IF job[w].sdk THEN "find" ELSE "exit")
  <1>3. step \in {"exit", "find"} /\ (step = "find" => ok /\ job[w].sdk)
    BY Zenon DEF AfterCommand
  <1>4. pc[w] = "bitbake" /\ UNCHANGED <<head, release, published>>
    BY Zenon DEF Bitbake
  <1>5. job[w] \in Job /\ job[w].commit \in Commits
    BY <1>4, Zenon DEF TypeOK, JobsHaveCommit
  <1>6. s \in {None} \cup Installers /\ (step = "find" => s = job[w].commit)
    BY <1>1, <1>2, <1>3, <1>5 DEF TypeOK, Left, Installers
  <1>7. GoTo(w, step) /\ step \in Steps
    BY <1>1, <1>3, Zenon DEF Steps
  <1> HIDE DEF step
  <1>8. TypeOK'
    BY <1>2, <1>4, <1>6, <1>7, GoToEffect, Zenon DEF TypeOK
  <1>9. JobsHaveCommit'
    BY <1>3, <1>4, <1>7, GoToEffect DEF JobsHaveCommit
  <1>10. UploadsOwnCommit'
    <2>1. sdk'[w] = s /\ \A v \in Workspaces \ {w} : sdk'[v] = sdk[v]
      BY <1>2, Zenon DEF TypeOK
    <2>2. /\ pc'[w] = step /\ (step # "exit" => job'[w] = job[w])
          /\ \A v \in Workspaces \ {w} : pc'[v] = pc[v] /\ job'[v] = job[v]
      BY <1>7, GoToEffect, Zenon
    <2>3. pc'[w] \in {"find", "delete", "create"} => sdk'[w] = job'[w].commit
      BY <1>3, <1>6, <2>1, <2>2
    <2> QED
      BY <2>1, <2>2, <2>3, Zenon DEF UploadsOwnCommit
  <1> QED
    BY <1>8, <1>9, <1>10, Zenon

\* The steps of upload_sdk.py: the installer stays, and what is published is the
\* installer of the job's commit.
LEMMA UploadStepKeeps ==
    ASSUME IInv, NEW w \in Workspaces, NEW step \in {"exit", "delete", "create"},
           pc[w] \in {"find", "delete", "create"}, GoTo(w, step),
           UNCHANGED <<head, sdk>>,
           release' \in {release, None, sdk[w]},
           published' \in BOOLEAN
    PROVE  IInv'
  <1> USE DEF IInv
  <1>1. sdk[w] \in Commits
    BY DEF JobsHaveCommit, UploadsOwnCommit
  <1>2. TypeOK'
    BY <1>1, GoToEffect, Zenon DEF TypeOK, Steps
  <1>3. JobsHaveCommit'
    BY GoToEffect DEF JobsHaveCommit, Steps
  <1>4. UploadsOwnCommit'
    BY GoToEffect, Zenon DEF UploadsOwnCommit, Steps
  <1> QED
    BY <1>2, <1>3, <1>4, Zenon

\* What the three steps of upload_sdk.py do, as the lemma above needs it.
LEMMA UploadSteps ==
    ASSUME IInv, NEW w \in Workspaces, Find(w) \/ Delete(w) \/ Create(w)
    PROVE  /\ pc[w] \in {"find", "delete", "create"}
           /\ \E step \in {"exit", "delete", "create"} : GoTo(w, step)
           /\ UNCHANGED <<head, sdk>>
           /\ release' \in {release, None, sdk[w]}
           /\ published' \in BOOLEAN
  <1>0. published \in BOOLEAN
    BY Zenon DEF IInv, TypeOK
  <1>1. CASE Find(w)
    BY <1>0, <1>1, Zenon DEF Find
  <1>2. CASE Delete(w)
    <2>1. PICK ok \in BOOLEAN, done \in BOOLEAN :
             /\ release' = IF done THEN None ELSE release
             /\ GoTo(w, AfterCommand(ok, OnceDeleted))
      BY <1>2, Zenon DEF Delete
    <2>2. AfterCommand(ok, OnceDeleted) \in {"exit", "delete", "create"}
      BY Zenon DEF AfterCommand, OnceDeleted
    <2> QED
      BY <1>0, <1>2, <2>1, <2>2, Zenon DEF Delete
  <1>3. CASE Create(w)
    <2>1. PICK ok \in BOOLEAN, done \in BOOLEAN :
             /\ release' = IF done THEN sdk[w] ELSE release
             /\ published' = (published \/ done)
             /\ GoTo(w, AfterCommand(ok, "exit"))
      BY <1>3, Zenon DEF Create
    <2>2. AfterCommand(ok, "exit") \in {"exit", "delete", "create"}
      BY Zenon DEF AfterCommand
    <2> QED
      BY <1>3, <2>1, <2>2, Zenon DEF Create
  <1> QED
    BY <1>1, <1>2, <1>3, Zenon

\* Every step keeps the invariant.
LEMMA NextIInv == IInv /\ [Next]_vars => IInv'
  <1> SUFFICES ASSUME IInv, [Next]_vars PROVE IInv'
    BY Zenon
  <1>1. CASE Push
    BY <1>1, PushKeeps, Zenon
  <1>2. CASE \E w \in Workspaces : \E forSdk \in BOOLEAN : Start(w, forSdk)
    BY <1>2, StartKeeps, Zenon
  <1>3. ASSUME NEW w \in Workspaces, Clone(w) PROVE IInv'
    <2>1. pc[w] = "clone" /\ UNCHANGED <<head, release, sdk, published>>
      BY <1>3, Zenon DEF Clone
    <2>2. CASE UNCHANGED <<pc, job>>
      BY <2>1, <2>2, Zenon DEF IInv, TypeOK, JobsHaveCommit, UploadsOwnCommit
    <2>3. CASE GoTo(w, "exit")
      BY <2>1, <2>3, EarlyStep, Zenon
    <2> QED
      BY <1>3, <2>2, <2>3, Zenon DEF Clone, AfterCommand
  <1>4. ASSUME NEW w \in Workspaces, DockerBuild(w) PROVE IInv'
    <2>1. pc[w] = "clone" /\ UNCHANGED <<head, release, sdk, published>>
      BY <1>4, Zenon DEF DockerBuild
    <2>2. \E step \in {"exit", "clone", "bitbake"} : GoTo(w, step)
      BY <1>4, Zenon DEF DockerBuild, AfterCommand
    <2> QED
      BY <2>1, <2>2, EarlyStep, Zenon
  <1>5. CASE \E w \in Workspaces : Bitbake(w)
    BY <1>5, BitbakeKeeps, Zenon
  <1>6. CASE \E w \in Workspaces : Find(w) \/ Delete(w) \/ Create(w)
    BY <1>6, UploadSteps, UploadStepKeeps, Zenon
  <1>7. CASE UNCHANGED vars
    BY <1>7, Zenon DEF vars, IInv, TypeOK, JobsHaveCommit, UploadsOwnCommit
  <1> QED
    BY <1>1, <1>2, <1>3, <1>4, <1>5, <1>6, <1>7, Zenon DEF Next, Step

\* The invariant holds in every reachable state.
LEMMA Invariance == Spec => []IInv
  BY InitIInv, NextIInv, PTL DEF Spec

\* Whatever jobs do to each other and wherever they are cut short, sdk-latest
\* names no release or the whole SDK of a commit, and is never replaced in place
\* (upload_sdk.py after a build_yocto.py that succeeded).
THEOREM PublishRefinement == Spec => ImplementsChannel
  <1>1. Init => Channel!Init
    BY Zenon DEF Init, Channel!Init, Channel!NoRelease, None
  <1>2. IInv /\ [Next]_vars => [Channel!Next]_release
    <2> SUFFICES ASSUME IInv, [Next]_vars, release' # release
                 PROVE  Channel!Next
      BY Zenon
    <2>1. ASSUME NEW w \in Workspaces, Delete(w) PROVE Channel!Next
      BY <2>1, Zenon DEF Delete, Channel!Next, Channel!Withdraw, Channel!NoRelease, None
    <2>2. ASSUME NEW w \in Workspaces, Create(w) PROVE Channel!Next
      <3>1. sdk[w] \in Commits
        BY <2>2, Zenon DEF Create, IInv, UploadsOwnCommit, JobsHaveCommit
      <3>2. release = None /\ release' = sdk[w]
        BY <2>2, Zenon DEF Create
      <3> QED
        BY <3>1, <3>2, Zenon DEF Channel!Next, Channel!Publish, Channel!NoRelease, None
    <2> QED
      BY <2>1, <2>2, Zenon DEF Next, Step, Push, Start, Clone, DockerBuild, Bitbake, Find, vars
  <1> QED
    BY <1>1, <1>2, Invariance, PTL DEF Spec, ImplementsChannel, Channel!Spec

\* Whatever earlier jobs left in the deploy directory and other jobs do meanwhile,
\* what a job publishes is the SDK of the commit it was started on
\* (build_yocto.py then upload_sdk.py in one job).
THEOREM OwnBuildPublished == Spec => PublishesOwnBuild
  <1> DEFINE A == \A w \in Workspaces :
                      pc[w] = "create" /\ release' \notin {None, release} /\ pc'[w] # pc[w]
                          => release' = job[w].commit
  <1>1. IInv /\ [Next]_vars => [A]_vars
    <2> SUFFICES ASSUME IInv, Next, NEW w \in Workspaces, pc[w] = "create",
                        release' \notin {None, release}, pc'[w] # pc[w]
                 PROVE  release' = job[w].commit
      BY Zenon DEF vars
    <2>1. sdk[w] = job[w].commit
      BY Zenon DEF IInv, UploadsOwnCommit
    <2>2. PICK v \in Workspaces : Delete(v) \/ Create(v)
      BY Zenon DEF Next, Step, Push, Start, Clone, DockerBuild, Bitbake, Find
    <2>3. release' = sdk[v]
      BY <2>2, Zenon DEF Delete, Create
    <2>4. v = w
      BY <2>2, Zenon DEF Delete, Create, GoTo, IInv, TypeOK
    <2> QED
      BY <2>1, <2>3, <2>4, Zenon
  <1> QED
    BY <1>1, Invariance, PTL DEF Spec, PublishesOwnBuild

\* Jobs and releases keep their types; in particular the tag never names a torn
\* installer (upload_sdk.py after build_yocto.py).
THEOREM PublishTypeCorrect == Spec => []TypeOK
  <1>1. IInv => TypeOK
    BY Zenon DEF IInv
  <1> QED
    BY <1>1, Invariance, PTL

\* When the tag has lost its release, a job is about to create the next one or
\* failed between deleting and creating (upload_sdk.py).
THEOREM GapsAreOwned == Spec => []GapHasOwner
  <1>1. Init => GapHasOwner
    BY Zenon DEF Init, GapHasOwner
  <1>2. IInv /\ GapHasOwner /\ [Next]_vars => GapHasOwner'
    <2> SUFFICES ASSUME IInv, GapHasOwner, [Next]_vars, release' = None, published'
                 PROVE  abandoned' \/ \E w \in Workspaces : pc'[w] = "create"
      BY Zenon DEF GapHasOwner
    <2> USE DEF GapHasOwner, IInv, TypeOK
    <2>1. ASSUME NEW w \in Workspaces, Delete(w)
          PROVE  abandoned' \/ \E v \in Workspaces : pc'[v] = "create"
      BY <2>1, Zenon DEF Delete, GoTo, AfterCommand, OnceDeleted
    <2>2. ASSUME NEW w \in Workspaces, Create(w)
          PROVE  abandoned'
      <3>1. sdk[w] # None
        BY <2>2 DEF Create, UploadsOwnCommit, JobsHaveCommit, Commits, None
      <3> QED
        BY <2>2, <3>1, Zenon DEF Create
    <2>3. ASSUME release' = release, published' = published, abandoned' = abandoned,
                 \A w \in Workspaces : pc[w] = "create" => pc'[w] = "create"
          PROVE  abandoned' \/ \E v \in Workspaces : pc'[v] = "create"
      BY <2>3, Zenon
    <2>4. CASE Push \/ UNCHANGED vars
      BY <2>3, <2>4, Zenon DEF Push, vars
    <2>5. ASSUME NEW w \in Workspaces,
                 (\E forSdk \in BOOLEAN : Start(w, forSdk)) \/ Clone(w) \/ DockerBuild(w)
                     \/ Bitbake(w) \/ Find(w)
          PROVE  abandoned' \/ \E v \in Workspaces : pc'[v] = "create"
      <3>1. /\ pc[w] # "create" /\ release' = release
            /\ published' = published /\ abandoned' = abandoned
        BY <2>5, Zenon DEF Start, Clone, DockerBuild, Bitbake, Find
      <3>2. \A v \in Workspaces \ {w} : pc'[v] = pc[v]
        BY <2>5, Zenon DEF Start, Clone, DockerBuild, Bitbake, Find, GoTo
      <3> QED
        BY <2>3, <3>1, <3>2, Zenon
    <2> QED
      BY <2>1, <2>2, <2>4, <2>5, Zenon DEF Next, Step
  <1> QED
    BY <1>1, <1>2, Invariance, PTL DEF Spec

-----------------------------------------------------------------------------
(* The relay's store. *)

\* What the poll leaves behind is a shorter queue of frames.
LEMMA QueueTail ==
    ASSUME NEW q \in Seq(Frame), q # <<>>
    PROVE  /\ Tail(q) \in Seq(Frame)
           /\ Head(q) \in Frame
           /\ Len(Tail(q)) <= Len(q)
  BY HeadTailProperties

\* The hash map always holds sequences of frames and the last answer of
\* ProcessPoll is a frame or nothing.
THEOREM StoreTypeCorrect == StoreSpec => []StoreTypeOK
<1>1. StoreInit => StoreTypeOK
  BY Zenon DEF StoreInit, StoreTypeOK
<1>2. StoreTypeOK /\ [StoreNext]_storeVars => StoreTypeOK'
  <2> SUFFICES ASSUME StoreTypeOK, [StoreNext]_storeVars PROVE StoreTypeOK'
    BY Zenon
  <2> USE DEF StoreTypeOK
  <2>1. ASSUME NEW m \in MailboxID, NEW f \in Frame, ProcessPush(m, f)
        PROVE  StoreTypeOK'
    <3>1. Queue(m) \in Seq(Frame)
      BY DEF Queue
    <3>2. Append(Queue(m), f) \in Seq(Frame)
      BY <3>1
    <3> QED  BY <2>1, <3>1, <3>2 DEF ProcessPush, WithEntry
  <2>2. ASSUME NEW m \in MailboxID, ProcessPoll(m)
        PROVE  StoreTypeOK'
    <3>1. CASE Queue(m) = <<>>
      BY <2>2, <3>1, Zenon DEF ProcessPoll
    <3>2. CASE Queue(m) # <<>>
      <4>1. Queue(m) \in Seq(Frame)
        BY DEF Queue
      <4>2. Tail(Queue(m)) \in Seq(Frame) /\ Head(Queue(m)) \in Frame
        BY <3>2, <4>1, QueueTail, Zenon
      <4> QED
        BY <2>2, <3>2, <4>2, Zenon DEF ProcessPoll, WithEntry, WithoutEntry
    <3> QED  BY <3>1, <3>2
  <2>3. CASE UNCHANGED storeVars
    BY <2>3, Zenon DEF storeVars
  <2> QED  BY <2>1, <2>2, <2>3, ZenonT(20) DEF StoreNext
<1> QED  BY <1>1, <1>2, PTL DEF StoreSpec

\* No history of pushes and polls takes a mailbox above the quota tested by
\* ProcessPush.
THEOREM StoreQuotaHolds == StoreSpec => []QuotaRespected
<1>1. StoreInit => QuotaRespected
  BY Zenon DEF StoreInit, QuotaRespected
<1>2. StoreTypeOK /\ QuotaRespected /\ [StoreNext]_storeVars =>
          QuotaRespected'
  <2> SUFFICES ASSUME StoreTypeOK, QuotaRespected, [StoreNext]_storeVars
               PROVE  QuotaRespected'
    BY Zenon
  <2> USE BrokerAssumption DEF StoreTypeOK, QuotaRespected
  <2>1. ASSUME NEW m \in MailboxID, NEW f \in Frame, ProcessPush(m, f)
        PROVE  QuotaRespected'
    <3>1. Queue(m) \in Seq(Frame) /\ Len(Queue(m)) <= MaxMessages
      BY DEF Queue
    <3>2. CASE Len(Queue(m)) >= MaxMessages
      BY <2>1, <3>1, <3>2, Zenon DEF ProcessPush, WithEntry
    <3>3. CASE Len(Queue(m)) < MaxMessages
      <4>1. Len(Append(Queue(m), f)) <= MaxMessages
        BY <3>1, <3>3
      <4>2. queues' = WithEntry(m, Append(Queue(m), f))
        BY <2>1, <3>1, <3>3 DEF ProcessPush
      <4> QED  BY <4>1, <4>2 DEF WithEntry
    <3> QED  BY <3>1, <3>2, <3>3
  <2>2. ASSUME NEW m \in MailboxID, ProcessPoll(m)
        PROVE  QuotaRespected'
    <3>1. CASE Queue(m) = <<>>
      BY <2>2, <3>1, Zenon DEF ProcessPoll
    <3>2. CASE Queue(m) # <<>>
      <4>1. Queue(m) \in Seq(Frame) /\ Len(Queue(m)) <= MaxMessages
        BY DEF Queue
      <4>2. Tail(Queue(m)) \in Seq(Frame) /\ Len(Tail(Queue(m))) <= MaxMessages
        BY <3>2, <4>1, QueueTail
      <4> QED
        BY <2>2, <3>2, <4>2, Zenon DEF ProcessPoll, WithEntry, WithoutEntry
    <3> QED  BY <3>1, <3>2
  <2>3. CASE UNCHANGED storeVars
    BY <2>3, Zenon DEF storeVars
  <2> QED  BY <2>1, <2>2, <2>3 DEF StoreNext
<1> QED  BY <1>1, <1>2, StoreTypeCorrect, PTL DEF StoreSpec

\* With a positive quota no entry outlives its frames, so the memory of the
\* hash map is proportional to what it stores.
THEOREM StoreHasNoEmptyEntry == StoreSpec => []NoEmptyEntry
<1>1. StoreInit => NoEmptyEntry
  BY Zenon DEF StoreInit, NoEmptyEntry
<1>2. StoreTypeOK /\ NoEmptyEntry /\ [StoreNext]_storeVars =>
          NoEmptyEntry'
  <2> SUFFICES ASSUME StoreTypeOK, NoEmptyEntry, [StoreNext]_storeVars,
                      MaxMessages > 0, NEW n \in DOMAIN queues'
               PROVE  queues'[n] # <<>>
    BY Zenon DEF NoEmptyEntry
  <2> USE BrokerAssumption DEF StoreTypeOK, NoEmptyEntry
  <2>1. ASSUME NEW m \in MailboxID, NEW f \in Frame, ProcessPush(m, f)
        PROVE  queues'[n] # <<>>
    <3>1. Queue(m) \in Seq(Frame)
      BY DEF Queue
    <3>2. CASE Len(Queue(m)) >= MaxMessages
      <4>1. Queue(m) # <<>>
        BY <3>1, <3>2
      <4> QED  BY <2>1, <3>2, <4>1 DEF ProcessPush, WithEntry
    <3>3. CASE ~ Len(Queue(m)) >= MaxMessages
      <4>1. Append(Queue(m), f) # <<>>
        BY <3>1
      <4> QED  BY <2>1, <3>3, <4>1 DEF ProcessPush, WithEntry
    <3> QED  BY <3>2, <3>3
  <2>2. ASSUME NEW m \in MailboxID, ProcessPoll(m)
        PROVE  queues'[n] # <<>>
    BY <2>2, Zenon DEF ProcessPoll, WithEntry, WithoutEntry
  <2>3. CASE UNCHANGED storeVars
    BY <2>3, Zenon DEF storeVars
  <2> QED  BY <2>1, <2>2, <2>3 DEF StoreNext
<1> QED  BY <1>1, <1>2, StoreTypeCorrect, PTL DEF StoreSpec

\* The hash map implements independent bounded first-in first-out mailboxes:
\* every push or poll is a step of MailboxStore.
THEOREM StoreRefinement == StoreSpec => ImplementsMailboxStore
<1> DEFINE box == [m \in MailboxID |-> Queue(m)]
<1>1. StoreInit => Store!Init
  BY Zenon DEF StoreInit, Store!Init, Queue
<1>2. StoreTypeOK /\ [StoreNext]_storeVars => [Store!Next]_(Store!vars)
  <2> SUFFICES ASSUME StoreTypeOK, [StoreNext]_storeVars
               PROVE  [Store!Next]_(Store!vars)
    BY Zenon
  <2> USE BrokerAssumption
  <2>1. ASSUME NEW m \in MailboxID, NEW f \in Frame, ProcessPush(m, f)
        PROVE  Store!Store(m, f) \/ Store!Refuse(m)
    <3>1. Queue(m) \in Seq(Frame) /\ box[m] = Queue(m)
      BY DEF StoreTypeOK, Queue
    <3>2. CASE Len(Queue(m)) >= MaxMessages
      <4>1. queues' = WithEntry(m, Queue(m)) /\ reply' = reply
        BY <2>1, <3>2, Zenon DEF ProcessPush
      <4>2. \A x \in MailboxID : Queue(x)' = Queue(x)
        BY <4>1, Zenon DEF WithEntry, Queue
      <4> QED  BY <3>1, <3>2, <4>1, <4>2 DEF Store!Refuse, Store!vars
    <3>3. CASE ~ Len(Queue(m)) >= MaxMessages
      <4>1. queues' = WithEntry(m, Append(Queue(m), f)) /\ reply' = reply
        BY <2>1, <3>3, Zenon DEF ProcessPush
      <4>2. \A x \in MailboxID :
               Queue(x)' = IF x = m THEN Append(Queue(m), f) ELSE Queue(x)
        BY <4>1, Zenon DEF WithEntry, Queue
      <4>3. Len(box[m]) < MaxMessages
        BY <3>1, <3>3
      <4>4. box' = [box EXCEPT ![m] = Append(box[m], f)]
        BY <3>1, <4>2, Zenon
      <4> QED  BY <4>1, <4>3, <4>4 DEF Store!Store
    <3> QED  BY <3>2, <3>3
  <2>2. ASSUME NEW m \in MailboxID, ProcessPoll(m)
        PROVE  Store!Fetch(m) \/ Store!FetchNothing(m)
    <3>1. Queue(m) \in Seq(Frame) /\ box[m] = Queue(m)
      BY DEF StoreTypeOK, Queue
    <3>2. CASE Queue(m) = <<>>
      <4>1. queues' = queues /\ reply' = Empty
        BY <2>2, <3>2, Zenon DEF ProcessPoll
      <4>2. \A x \in MailboxID : Queue(x)' = Queue(x)
        BY <4>1, Zenon DEF Queue
      <4> QED  BY <3>1, <3>2, <4>1, <4>2 DEF Store!FetchNothing
    <3>3. CASE Queue(m) # <<>>
      <4>1. reply' = Head(Queue(m))
        BY <2>2, <3>3, Zenon DEF ProcessPoll
      <4>2. \A x \in MailboxID :
               Queue(x)' = IF x = m THEN Tail(Queue(m)) ELSE Queue(x)
        BY <2>2, <3>3, Zenon
           DEF ProcessPoll, WithEntry, WithoutEntry, Queue
      <4>3. box' = [box EXCEPT ![m] = Tail(box[m])]
        BY <3>1, <4>2, Zenon
      <4> QED  BY <3>1, <3>3, <4>1, <4>3 DEF Store!Fetch
    <3> QED  BY <3>2, <3>3
  <2>3. CASE UNCHANGED storeVars
    BY <2>3, Zenon DEF storeVars, Store!vars, Queue
  <2> QED  BY <2>1, <2>2, <2>3 DEF StoreNext, Store!Next
<1> QED
  BY <1>1, <1>2, StoreTypeCorrect, PTL
     DEF StoreSpec, ImplementsMailboxStore, Store!Spec

-----------------------------------------------------------------------------
(* The client's connection. *)

\* A set of naturals that is not empty has a least member.
LEMMA NatLeast ==
    ASSUME NEW T \in SUBSET Nat, T # {}
    PROVE  \E m \in T : \A k \in T : m <= k
<1> DEFINE R == OpToRel(<, Nat)
<1>1. IsWellFoundedOn(R, Nat)
  BY NatLessThanWellFounded, Zenon
<1>2. \A a, b \in Nat : a < b => <<a, b>> \in R
  BY Zenon DEF OpToRel
<1> HIDE DEF R
<1>3. PICK m \in T : \A k \in T : ~ (<<k, m>> \in R)
  BY <1>1, WFMin, Zenon
<1>4. \A k \in T : ~(k < m) /\ k \in Nat /\ m \in Nat
  BY <1>2, <1>3, Zenon
<1>5. \A k \in T : m <= k
  BY <1>4
<1> QED
  BY <1>5, Zenon

\* Induction, as a property of sets of numbers.
LEMMA NatInduct ==
    ASSUME NEW B, 0 \in B, \A n \in Nat : n \in B => n + 1 \in B
    PROVE  \A n \in Nat : n \in B
<1> DEFINE T == Nat \ B
<1> SUFFICES ASSUME T # {} PROVE FALSE
  BY Zenon
<1>1. PICK m \in T : \A k \in T : m <= k
  BY NatLeast, Zenon
<1>2. m \in Nat /\ m # 0
  BY Zenon
<1>3. m - 1 \in Nat /\ ~(m <= m - 1) /\ (m - 1) + 1 = m
  BY <1>2
<1>4. m - 1 \in B
  BY <1>1, <1>3, Zenon
<1> QED
  BY <1>3, <1>4, Zenon

LEMMA TailShorter ==
    ASSUME NEW q \in Seq(Int), q # <<>>
    PROVE  Tail(q) \in Seq(Int) /\ Len(Tail(q)) = Len(q) - 1 /\ Len(q) \in Nat \ {0}
  OBVIOUS

\* Induction over queues.
LEMMA QueueInduct ==
    ASSUME NEW B, <<>> \in B,
           \A q \in Seq(Int) : q # <<>> /\ Tail(q) \in B => q \in B
    PROVE  \A q \in Seq(Int) : q \in B
<1> DEFINE C == {n \in Nat : \A q \in Seq(Int) : Len(q) = n => q \in B}
<1>1. 0 \in C
  <2>1. \A q \in Seq(Int) : Len(q) = 0 => q = <<>>
    OBVIOUS
  <2> QED
    BY <2>1, Zenon
<1>2. ASSUME NEW n \in Nat, n \in C PROVE n + 1 \in C
  <2> SUFFICES ASSUME NEW q \in Seq(Int), Len(q) = n + 1 PROVE q \in B
    OBVIOUS
  <2>1. q # <<>> /\ Tail(q) \in Seq(Int) /\ Len(Tail(q)) = n
    OBVIOUS
  <2> QED
    BY <1>2, <2>1, Zenon
<1> HIDE DEF C
<1>3. \A n \in Nat : n \in C
  BY <1>1, <1>2, NatInduct, Zenon
<1> QED
  BY <1>3 DEF C

\* DataOf, one step; and what it is on queues of at most n frames.
Picked(q) == IF Head(q) \in Data THEN <<Head(q)>> ELSE <<>>
UpTo(n) == {q \in Seq(Int) : Len(q) <= n}
Selects(g, n) ==
    g = [q \in UpTo(n) |-> IF q = <<>> THEN <<>> ELSE Picked(q) \o g[Tail(q)]]

\* A function that selects as DataOf does exists, for queues of every length.
LEMMA SelectsExists == \A n \in Nat : \E g : Selects(g, n)
<1> DEFINE B == {n \in Nat : \E g : Selects(g, n)}
<1>1. 0 \in B
  <2> DEFINE g == [q \in UpTo(0) |-> <<>>]
  <2>1. \A q \in UpTo(0) : q = <<>>
    BY DEF UpTo
  <2>2. g = [q \in UpTo(0) |-> IF q = <<>> THEN <<>> ELSE Picked(q) \o g[Tail(q)]]
    BY <2>1, Zenon
  <2> QED
    BY <2>2, Zenon DEF Selects
<1>2. ASSUME NEW n \in Nat, n \in B PROVE n + 1 \in B
  <2>1. PICK g : Selects(g, n)
    BY <1>2, Zenon
  <2> DEFINE m == n + 1
  <2> DEFINE F(q) == IF q = <<>> THEN <<>> ELSE Picked(q) \o g[Tail(q)]
  <2> DEFINE h == [q \in UpTo(m) |-> F(q)]
  <2>2. \A q \in UpTo(m) : q # <<>> => Tail(q) \in UpTo(n) /\ Tail(q) \in UpTo(m)
    <3>1. \A q \in UpTo(m) : q # <<>> => /\ Tail(q) \in Seq(Int)
                                         /\ Len(Tail(q)) <= n /\ Len(Tail(q)) <= m
      BY TailShorter DEF UpTo
    <3> QED
      BY <3>1, Zenon DEF UpTo
  <2>3. \A q \in UpTo(n) : g[q] = F(q)
    BY <2>1, Zenon DEF Selects
  <2>4. \A q \in UpTo(m) : q # <<>> => h[Tail(q)] = g[Tail(q)]
    BY <2>2, <2>3, Zenon
  <2>5. h = [q \in UpTo(m) |-> IF q = <<>> THEN <<>> ELSE Picked(q) \o h[Tail(q)]]
    BY <2>4, Zenon
  <2>6. \E f : Selects(f, m)
    BY <2>5, Zenon DEF Selects
  <2> QED
    BY <2>6
<1> HIDE DEF B
<1>3. \A n \in Nat : n \in B
  BY <1>1, <1>2, NatInduct, Zenon
<1> QED
  BY <1>3, Zenon DEF B

\* Two such functions agree where both are defined.
LEMMA SelectsAgree ==
    ASSUME NEW g, NEW h, NEW a \in Nat, NEW b \in Nat, Selects(g, a), Selects(h, b), a <= b
    PROVE  \A q \in UpTo(a) : g[q] = h[q]
<1> DEFINE B == {q \in Seq(Int) : q \in UpTo(a) => g[q] = h[q]}
<1>1. <<>> \in B
  BY DEF Selects, UpTo
<1>2. ASSUME NEW q \in Seq(Int), q # <<>> /\ Tail(q) \in B PROVE q \in B
  <2> SUFFICES ASSUME q \in UpTo(a) PROVE g[q] = h[q]
    BY Zenon
  <2>1. q \in UpTo(b) /\ Tail(q) \in UpTo(a)
    BY <1>2, TailShorter DEF UpTo
  <2>2. g[Tail(q)] = h[Tail(q)]
    BY <1>2, <2>1, Zenon
  <2> QED
    BY <1>2, <2>1, <2>2, Zenon DEF Selects
<1> HIDE DEF B
<1>3. \A q \in Seq(Int) : q \in B
  BY <1>1, <1>2, QueueInduct, Zenon
<1> QED
  BY <1>3, Zenon DEF B, UpTo

\* DataOf satisfies the equation that defines it.
LEMMA DataOfUnfolds ==
    \A q \in Seq(Int) :
        DataOf[q] = IF q = <<>> THEN <<>> ELSE Picked(q) \o DataOf[Tail(q)]
<1> DEFINE F(f) == [q \in Seq(Int) |-> IF q = <<>> THEN <<>> ELSE Picked(q) \o f[Tail(q)]]
<1> DEFINE G(n) == CHOOSE g : Selects(g, n)
<1> DEFINE f == [q \in Seq(Int) |-> G(Len(q))[q]]
<1>1. \A n \in Nat : Selects(G(n), n)
  BY SelectsExists, Zenon
<1> HIDE DEF G
<1>2. \A q \in Seq(Int) : Len(q) \in Nat /\ q \in UpTo(Len(q))
  BY DEF UpTo
<1>3. \A q \in Seq(Int) :
          G(Len(q))[q] = IF q = <<>> THEN <<>> ELSE Picked(q) \o G(Len(q))[Tail(q)]
  BY <1>1, <1>2, Zenon DEF Selects
<1>4. \A q \in Seq(Int) : q # <<>> => G(Len(q))[Tail(q)] = G(Len(Tail(q)))[Tail(q)]
  <2> SUFFICES ASSUME NEW q \in Seq(Int), q # <<>>
               PROVE  G(Len(q))[Tail(q)] = G(Len(Tail(q)))[Tail(q)]
    BY Zenon
  <2>1. /\ Tail(q) \in Seq(Int) /\ Len(Tail(q)) \in Nat /\ Len(q) \in Nat
        /\ Len(Tail(q)) <= Len(q)
    BY TailShorter
  <2>2. Tail(q) \in UpTo(Len(Tail(q)))
    BY <1>2, <2>1, Zenon
  <2> QED
    BY <1>1, <2>1, <2>2, SelectsAgree, Zenon
<1>5. f = F(f)
  BY <1>3, <1>4, TailShorter, Zenon
<1> HIDE DEF f
<1>6. DataOf = CHOOSE g : g = F(g)
  BY Zenon DEF DataOf, Picked
<1> HIDE DEF F
<1>7. DataOf = F(DataOf)
  BY <1>5, <1>6, Zenon
<1> QED
  BY <1>7, Zenon DEF F

LEMMA PickedType == \A q : Picked(q) \in Seq(Data)
  BY DEF Picked

LEMMA JoinData == \A s, t \in Seq(Data) : s \o t \in Seq(Data)
  OBVIOUS

LEMMA DataOfType == \A q \in Seq(Int) : DataOf[q] \in Seq(Data)
<1> DEFINE B == {q \in Seq(Int) : DataOf[q] \in Seq(Data)}
<1>1. <<>> \in B
  <2>1. <<>> \in Seq(Int) /\ <<>> \in Seq(Data)
    OBVIOUS
  <2>2. DataOf[<<>>] = <<>>
    BY <2>1, DataOfUnfolds, Zenon
  <2> QED
    BY <2>1, <2>2, Zenon
<1>2. ASSUME NEW q \in Seq(Int), q # <<>> /\ Tail(q) \in B PROVE q \in B
  BY <1>2, DataOfUnfolds, PickedType, JoinData, Zenon
<1> HIDE DEF B
<1>3. \A q \in Seq(Int) : q \in B
  BY <1>1, <1>2, QueueInduct, Zenon
<1> QED
  BY <1>3, Zenon DEF B

LEMMA Associates ==
    ASSUME NEW s \in Seq(Data), NEW t \in Seq(Data), NEW u \in Seq(Data)
    PROVE  /\ (s \o t) \o u = s \o (t \o u)
           /\ s \o <<>> = s /\ <<>> \o s = s
  OBVIOUS

LEMMA AppendTail ==
    ASSUME NEW q \in Seq(Int), NEW x \in Int, q # <<>>
    PROVE  /\ Append(q, x) \in Seq(Int) /\ Append(q, x) # <<>>
           /\ Head(Append(q, x)) = Head(q) /\ Tail(Append(q, x)) = Append(Tail(q), x)
  OBVIOUS

\* A frame that enters a queue at its end comes last.
LEMMA DataOfAppend ==
    ASSUME NEW x \in Int
    PROVE  \A q \in Seq(Int) : DataOf[Append(q, x)] = DataOf[q] \o Picked(<<x>>)
<1> DEFINE X == Picked(<<x>>)
<1> DEFINE B == {q \in Seq(Int) : DataOf[Append(q, x)] = DataOf[q] \o X}
<1>1. <<>> \in B
  <2>1. Append(<<>>, x) = <<x>> /\ <<x>> \in Seq(Int) /\ <<>> \in Seq(Int)
    OBVIOUS
  <2>2. <<x>> # <<>> /\ Tail(<<x>>) = <<>>
    OBVIOUS
  <2>3. DataOf[<<>>] = <<>> /\ DataOf[<<x>>] = X \o <<>>
    BY <2>1, <2>2, DataOfUnfolds, Zenon
  <2>4. X \o <<>> = <<>> \o X
    BY PickedType, Associates, Zenon
  <2> QED
    BY <2>1, <2>3, <2>4, Zenon
<1>2. ASSUME NEW q \in Seq(Int), q # <<>> /\ Tail(q) \in B PROVE q \in B
  <2>1. /\ Append(q, x) \in Seq(Int) /\ Append(q, x) # <<>>
        /\ Picked(Append(q, x)) = Picked(q) /\ Tail(Append(q, x)) = Append(Tail(q), x)
    BY <1>2, AppendTail, Zenon DEF Picked
  <2>2. DataOf[Append(q, x)] = Picked(q) \o (DataOf[Tail(q)] \o X)
    BY <1>2, <2>1, DataOfUnfolds, Zenon
  <2>3. /\ DataOf[q] = Picked(q) \o DataOf[Tail(q)]
        /\ DataOf[Tail(q)] \in Seq(Data)
    BY <1>2, TailShorter, DataOfUnfolds, DataOfType, Zenon
  <2>4. (Picked(q) \o DataOf[Tail(q)]) \o X = Picked(q) \o (DataOf[Tail(q)] \o X)
    <3>1. Picked(q) \in Seq(Data) /\ X \in Seq(Data)
      BY PickedType, Zenon
    <3> HIDE DEF X
    <3> QED
      BY <2>3, <3>1, Associates, Zenon
  <2> QED
    BY <2>2, <2>3, <2>4, Zenon
<1> HIDE DEF B
<1>3. \A q \in Seq(Int) : q \in B
  BY <1>1, <1>2, QueueInduct, Zenon
<1> QED
  BY <1>3, Zenon DEF B

-----------------------------------------------------------------------------
(* The connection. *)

\* The strengthening of ChallengeAnsweredFirst.
\* Before connect there is nothing to write; the frame being written is the
\* front of the queue; nothing enters the queue before the challenge is
\* answered; and as long as the connection holds the answer is the next to
\* leave or has left.
ConnectionInv ==
    /\ outbox \in Seq(Data) /\ submitted \in Nat
    /\ alive \in BOOLEAN /\ started \in BOOLEAN /\ link \in BOOLEAN
    /\ isAuthenticated \in BOOLEAN
    /\ socket \in {"none", "open", "closed"}
    /\ writeQueue \in Seq(Int) /\ written \in Seq(Int)
    /\ inFlight # <<>> => writeQueue # <<>> /\ inFlight = <<Head(writeQueue)>>
    /\ ~started => /\ ~link /\ socket = "none" /\ timer = "off" /\ reading = "off"
                   /\ written = <<>>
    /\ started => socket # "none"
    /\ isAuthenticated => started
    /\ ~isAuthenticated => writeQueue = <<>>
    /\ written # <<>> => Head(written) = AuthResponse
    /\ written = <<>> /\ isAuthenticated /\ link /\ socket = "open" =>
           writeQueue # <<>> /\ Head(writeQueue) = AuthResponse

LEMMA FrameFacts ==
    /\ PollFrame \in Int /\ AuthResponse \in Int /\ Data \subseteq Int
    /\ PollFrame \notin Data /\ AuthResponse \notin Data
  BY ClientAssumption DEF Data, PollFrame, AuthResponse

LEMMA QueueSteps ==
    ASSUME NEW q \in Seq(Int), NEW x \in Int
    PROVE  /\ Append(q, x) \in Seq(Int) /\ Append(q, x) # <<>>
           /\ q # <<>> => /\ Tail(q) \in Seq(Int) /\ Head(q) \in Int
                          /\ Head(Append(q, x)) = Head(q)
           /\ q = <<>> => Head(Append(q, x)) = x
<1>1. Append(q, x) \in Seq(Int) /\ Append(q, x) # <<>>
  <2>1. Append(q, x) \in Seq(Int) /\ Len(Append(q, x)) = Len(q) + 1 /\ Len(q) \in Nat
    OBVIOUS
  <2>2. Len(<<>>) = 0 /\ \A n \in Nat : n + 1 # 0
    OBVIOUS
  <2> QED
    BY <2>1, <2>2, Zenon
<1>2. q # <<>> => /\ Tail(q) \in Seq(Int) /\ Head(q) \in Int
                  /\ Head(Append(q, x)) = Head(q)
  OBVIOUS
<1>3. q = <<>> => Head(Append(q, x)) = x
  OBVIOUS
<1> QED
  BY <1>1, <1>2, <1>3, Zenon

LEMMA OutboxSteps ==
    ASSUME NEW q \in Seq(Data)
    PROVE  /\ \A x \in Data : Append(q, x) \in Seq(Data)
           /\ q # <<>> => Tail(q) \in Seq(Data) /\ Head(q) \in Data
  OBVIOUS

LEMMA OneInFlight ==
    ASSUME NEW x
    PROVE  <<x>> # <<>> /\ Head(<<x>>) = x /\ Tail(<<x>>) = <<>>
  OBVIOUS

\* QueueFrame keeps the frame being written at the front.
LEMMA PushEffect ==
    ASSUME ConnectionInv, NEW f \in Int, QueueFrame(f)
    PROVE  /\ writeQueue' \in Seq(Int) /\ writeQueue' # <<>>
           /\ writeQueue' = Append(writeQueue, f)
           /\ inFlight' # <<>> => inFlight' = <<Head(writeQueue')>>
           /\ Head(writeQueue') = IF writeQueue = <<>> THEN f ELSE Head(writeQueue)
<1>1. /\ writeQueue' = Append(writeQueue, f)
      /\ inFlight' = DoWrite(inFlight, writeQueue')
  BY Zenon DEF QueueFrame
<1>2. /\ writeQueue \in Seq(Int)
      /\ inFlight # <<>> => writeQueue # <<>> /\ inFlight = <<Head(writeQueue)>>
  BY Zenon DEF ConnectionInv
<1>3. /\ writeQueue' \in Seq(Int) /\ writeQueue' # <<>>
      /\ Head(writeQueue') = IF writeQueue = <<>> THEN f ELSE Head(writeQueue)
  BY <1>1, <1>2, QueueSteps, Zenon
<1>4. inFlight' # <<>> => inFlight' = <<Head(writeQueue')>>
  BY <1>1, <1>2, <1>3, Zenon DEF DoWrite
<1> QED
  BY <1>1, <1>3, <1>4, Zenon

LEMMA InitConnection == ClientInit => ConnectionInv
<1>1. <<>> \in Seq(Data) /\ <<>> \in Seq(Int) /\ 0 \in Nat
  OBVIOUS
<1> QED
  BY <1>1, Zenon DEF ClientInit, ConnectionInv

\* What is written next, once a write has ended or failed.
LEMMA PopEffect ==
    ASSUME ConnectionInv, inFlight # <<>>
    PROVE  /\ writeQueue # <<>> /\ Head(inFlight) = Head(writeQueue)
           /\ Head(writeQueue) \in Int /\ Tail(writeQueue) \in Seq(Int)
           /\ Tail(inFlight) = <<>> /\ started /\ isAuthenticated
           /\ DoWrite(Tail(inFlight), Tail(writeQueue)) # <<>> =>
                  /\ Tail(writeQueue) # <<>>
                  /\ DoWrite(Tail(inFlight), Tail(writeQueue)) = <<Head(Tail(writeQueue))>>
<1>1. writeQueue # <<>> /\ inFlight = <<Head(writeQueue)>> /\ writeQueue \in Seq(Int)
  BY Zenon DEF ConnectionInv
<1>2. Head(inFlight) = Head(writeQueue) /\ Tail(inFlight) = <<>>
  BY <1>1, OneInFlight, Zenon
<1>3. started /\ isAuthenticated
  BY <1>1, Zenon DEF ConnectionInv
<1>4. Head(writeQueue) \in Int /\ Tail(writeQueue) \in Seq(Int)
  BY <1>1
<1> QED
  BY <1>1, <1>2, <1>3, <1>4, Zenon DEF DoWrite

LEMMA StepConnection ==
    ConnectionInv /\ [ClientNext]_clientVars => ConnectionInv'
<1> SUFFICES ASSUME ConnectionInv, [ClientNext]_clientVars PROVE ConnectionInv'
  BY Zenon
<1>1. CASE Submit
  <2>1. submitted + 1 \in Data /\ submitted + 1 \in Nat
    BY <1>1, ClientAssumption DEF Submit, ConnectionInv, Data
  <2>2. outbox' \in Seq(Data)
    BY <1>1, <2>1, OutboxSteps, Zenon DEF Submit, ConnectionInv
  <2> QED
    BY <1>1, <2>1, <2>2, Zenon DEF Submit, ConnectionInv
<1>2. CASE Connect
  BY <1>2, Zenon DEF Connect, ConnectionInv
<1>3. CASE ConnectFails
  BY <1>3, Zenon DEF ConnectFails, ConnectionInv, Cancelled, repl
<1>4. CASE ConnectAgain
  BY <1>4, Zenon DEF ConnectAgain, ConnectionInv
<1>5. CASE LinkDies
  BY <1>5, Zenon DEF LinkDies, ConnectionInv, repl
<1>6. ASSUME NEW kind, RelaySends(kind) PROVE ConnectionInv'
  BY <1>6, Zenon DEF RelaySends, ConnectionInv, repl
<1>7. CASE TimerExpires
  BY <1>7, Zenon DEF TimerExpires, ConnectionInv, repl
<1>8. CASE DoCbrTick
  <2>1. CASE ~isAuthenticated
    BY <1>8, <2>1, Zenon DEF DoCbrTick, ConnectionInv
  <2>2. CASE isAuthenticated
    <3> DEFINE f == IF outbox # <<>> THEN Head(outbox) ELSE PollFrame
    <3>1. QueueFrame(f) /\ outbox' = (IF outbox # <<>> THEN Tail(outbox) ELSE outbox)
      BY <1>8, <2>2, Zenon DEF DoCbrTick
    <3>2. f \in Int /\ outbox' \in Seq(Data)
      BY <3>1, FrameFacts, OutboxSteps, Zenon DEF ConnectionInv
    <3> HIDE DEF f
    <3>3. /\ writeQueue' \in Seq(Int) /\ writeQueue' # <<>>
          /\ inFlight' # <<>> => inFlight' = <<Head(writeQueue')>>
          /\ Head(writeQueue') = IF writeQueue = <<>> THEN f ELSE Head(writeQueue)
      BY <3>1, <3>2, PushEffect, Zenon
    <3>4. /\ timer = "due"
          /\ UNCHANGED <<submitted, alive, started, socket, link, isAuthenticated, written>>
      BY <1>8, Zenon DEF DoCbrTick
    <3> QED
      BY <2>2, <3>2, <3>3, <3>4, Zenon DEF ConnectionInv
  <2> QED
    BY <2>1, <2>2, Zenon
<1>9. CASE ReadCompletes
  BY <1>9, Zenon DEF ReadCompletes, ConnectionInv, repl
<1>10. CASE ReadFails
  BY <1>10, Zenon DEF ReadFails, ConnectionInv, Cancelled, repl
<1>11. CASE HandleRead
  <2>1. /\ reading = "ready"
        /\ UNCHANGED <<outbox, submitted, alive, started, link, written>>
    BY <1>11, Zenon DEF HandleRead, repl
  <2>2. started
    BY <2>1, Zenon DEF ConnectionInv
  <2>3. ASSUME isAuthenticated' = TRUE, QueueFrame(AuthResponse), UNCHANGED <<socket, timer>>
        PROVE  ConnectionInv'
    <3>1. /\ writeQueue' \in Seq(Int) /\ writeQueue' # <<>>
          /\ inFlight' # <<>> => inFlight' = <<Head(writeQueue')>>
          /\ Head(writeQueue') = IF writeQueue = <<>> THEN AuthResponse ELSE Head(writeQueue)
      BY <2>3, FrameFacts, PushEffect, Zenon
    <3> QED
      BY <2>1, <2>2, <2>3, <3>1, Zenon DEF ConnectionInv
  <2>4. ASSUME UNCHANGED <<isAuthenticated, writeQueue, inFlight, socket, timer>>
        PROVE  ConnectionInv'
    BY <2>1, <2>2, <2>4, Zenon DEF ConnectionInv
  <2>5. ASSUME socket' = "closed", UNCHANGED <<isAuthenticated, writeQueue, inFlight>>
        PROVE  ConnectionInv'
    BY <2>1, <2>2, <2>5, Zenon DEF ConnectionInv
  <2> QED
    BY <1>11, <2>3, <2>4, <2>5, Zenon DEF HandleRead
<1>12. CASE WriteDone
  <2>1. /\ socket = "open" /\ inFlight # <<>>
        /\ writeQueue' = Tail(writeQueue)
        /\ inFlight' = DoWrite(Tail(inFlight), Tail(writeQueue))
        /\ UNCHANGED <<outbox, submitted, alive, started, socket, link, timer, reading,
                       isAuthenticated>>
    BY <1>12, Zenon DEF WriteDone, repl
  <2>2. \/ written' = written /\ (~link \/ written # <<>>)
        \/ written' = Append(written, Head(writeQueue)) /\ link
    BY <1>12, <2>1, PopEffect, Zenon DEF WriteDone, ConnectionInv
  <2>3. CASE written' = written /\ (~link \/ written # <<>>)
    BY <2>1, <2>3, PopEffect, Zenon DEF ConnectionInv
  <2>4. CASE written' = Append(written, Head(writeQueue)) /\ link
    <3>1. /\ written' \in Seq(Int) /\ written' # <<>>
          /\ Head(written') =
                 IF written = <<>> THEN Head(writeQueue) ELSE Head(written)
      BY <2>1, <2>4, PopEffect, QueueSteps, Zenon DEF ConnectionInv
    <3>2. written = <<>> => Head(writeQueue) = AuthResponse
      BY <2>1, <2>4, PopEffect, Zenon DEF ConnectionInv
    <3> QED
      BY <2>1, <3>1, <3>2, PopEffect, Zenon DEF ConnectionInv
  <2> QED
    BY <2>2, <2>3, <2>4, Zenon
<1>13. CASE WriteFails
  <2>1. /\ inFlight # <<>> /\ (socket = "closed" \/ ~link)
        /\ writeQueue' = Tail(writeQueue) /\ inFlight' = Tail(inFlight)
        /\ UNCHANGED <<outbox, submitted, alive, started, socket, link, timer, reading,
                       isAuthenticated, written>>
    BY <1>13, Zenon DEF WriteFails, repl
  <2> QED
    BY <2>1, PopEffect, Zenon DEF ConnectionInv
<1>14. CASE UNCHANGED clientVars
  BY <1>14, Zenon DEF ConnectionInv, clientVars, repl
<1> QED
  BY <1>1, <1>2, <1>3, <1>4, <1>5, <1>6, <1>7, <1>8, <1>9, <1>10, <1>11, <1>12, <1>13,
     <1>14, ZenonT(20) DEF ClientNext

\* DoCbrTick and HandleRead never let a frame overtake the AUTH_RESPONSE: it is
\* the first frame on the wire.
THEOREM ChallengeFirst == ClientSpec => []ChallengeAnsweredFirst
<1>1. ConnectionInv => ChallengeAnsweredFirst
  BY Zenon DEF ConnectionInv, ChallengeAnsweredFirst
<1>2. ConnectionInv /\ [ClientNext]_clientVars => ConnectionInv'
  BY StepConnection, Zenon
<1> QED
  BY <1>1, <1>2, InitConnection, PTL DEF ClientSpec

-----------------------------------------------------------------------------
(* The connection as a channel. *)

\* A tick moves a frame from the outbox to the end of the queue, or adds one
\* that the session logic does not know of.
LEMMA PendingPush ==
    ASSUME ConnectionInv, NEW f \in Int, writeQueue' = Append(writeQueue, f),
           \/ f \notin Data /\ outbox' = outbox
           \/ outbox # <<>> /\ f = Head(outbox) /\ outbox' = Tail(outbox)
    PROVE  Pending' = Pending
<1>1. writeQueue \in Seq(Int) /\ f \in Int /\ outbox \in Seq(Data)
  BY Zenon DEF ConnectionInv
<1>2. /\ DataOf[writeQueue'] = DataOf[writeQueue] \o Picked(<<f>>)
      /\ DataOf[writeQueue] \in Seq(Data)
  BY <1>1, DataOfAppend, DataOfType, Zenon
<1>3. Head(<<f>>) = f
  OBVIOUS
<1>4. CASE f \notin Data /\ outbox' = outbox
  <2>1. Picked(<<f>>) = <<>>
    BY <1>3, <1>4, Zenon DEF Picked
  <2> QED
    BY <1>1, <1>2, <1>4, <2>1, Associates, ZenonT(20) DEF Pending
<1>5. CASE outbox # <<>> /\ f = Head(outbox) /\ outbox' = Tail(outbox)
  <2>1. f \in Data /\ outbox' \in Seq(Data) /\ outbox = <<f>> \o outbox'
    BY <1>1, <1>5
  <2>2. Picked(<<f>>) = <<f>> /\ <<f>> \in Seq(Data)
    BY <1>3, <2>1 DEF Picked
  <2>3. (DataOf[writeQueue] \o <<f>>) \o outbox' =
            DataOf[writeQueue] \o (<<f>> \o outbox')
    BY <1>2, <2>1, <2>2, Associates, ZenonT(60)
  <2> QED
    BY <1>2, <2>1, <2>2, <2>3, Zenon DEF Pending
<1> QED
  BY <1>4, <1>5, Zenon

\* A frame that leaves the queue was the first of them.
LEMMA PendingPop ==
    ASSUME ConnectionInv, inFlight # <<>>, writeQueue' = Tail(writeQueue), outbox' = outbox
    PROVE  IF Head(writeQueue) \in Data
           THEN Pending # <<>> /\ Head(Pending) = Head(writeQueue)
                 /\ Pending' = Tail(Pending)
           ELSE Pending' = Pending
<1> DEFINE x == Head(writeQueue)
<1>1. /\ writeQueue \in Seq(Int) /\ outbox \in Seq(Data) /\ writeQueue # <<>>
      /\ Tail(writeQueue) \in Seq(Int)
  BY PopEffect, Zenon DEF ConnectionInv
<1>2. /\ DataOf[writeQueue] = Picked(writeQueue) \o DataOf[writeQueue']
      /\ DataOf[writeQueue'] \in Seq(Data)
  BY <1>1, DataOfUnfolds, DataOfType, Zenon
<1>3. CASE x \notin Data
  <2>1. Picked(writeQueue) = <<>>
    BY <1>3, Zenon DEF Picked
  <2> QED
    BY <1>2, <1>3, <2>1, Associates DEF Pending
<1>4. CASE x \in Data
  <2>1. Picked(writeQueue) = <<x>> /\ <<x>> \in Seq(Data)
    BY <1>4 DEF Picked
  <2> HIDE DEF x
  <2>2. Pending = <<x>> \o Pending' /\ Pending' \in Seq(Data)
    <3> DEFINE rest == DataOf[writeQueue']
    <3>0. rest \in Seq(Data) /\ <<x>> \in Seq(Data) /\ outbox \in Seq(Data)
      BY <1>1, <1>2, <2>1, Zenon
    <3> HIDE DEF rest
    <3>a. (<<x>> \o rest) \o outbox = <<x>> \o (rest \o outbox)
      BY <3>0, Associates, Zenon
    <3>1. (<<x>> \o DataOf[writeQueue']) \o outbox =
              <<x>> \o (DataOf[writeQueue'] \o outbox)
      BY <3>a, Zenon DEF rest
    <3> QED
      BY <1>1, <1>2, <2>1, <3>1, JoinData, Zenon DEF Pending
  <2>3. \A t \in Seq(Data) : /\ <<x>> \o t # <<>> /\ Head(<<x>> \o t) = x
                             /\ Tail(<<x>> \o t) = t
    BY <1>4
  <2>4. Pending # <<>> /\ Head(Pending) = x /\ Pending' = Tail(Pending)
    BY <2>2, <2>3, Zenon
  <2> QED
    BY <1>4, <2>4, Zenon DEF x
<1> QED
  BY <1>3, <1>4, Zenon

\* Every step of the connection is a step of the channel, or changes nothing
\* that the session logic sees.
ChannelStep ==
    \/ \E f \in Data : /\ Pending' = Append(Pending, f)
                       /\ Transmitted' = Transmitted /\ Line' = Line
    \/ /\ Line = "up" /\ Pending # <<>>
       /\ Transmitted' = Append(Transmitted, Head(Pending))
       /\ Pending' = Tail(Pending) /\ Line' = Line
    \/ /\ Line = "broken" /\ Pending # <<>> /\ Pending' = Tail(Pending)
       /\ Transmitted' = Transmitted /\ Line' = Line
    \/ /\ Line = "new" /\ Line' = "up"
       /\ Pending' = Pending /\ Transmitted' = Transmitted
    \/ /\ Line = "up" /\ Line' = "broken"
       /\ Pending' = Pending /\ Transmitted' = Transmitted
    \/ Pending' = Pending /\ Transmitted' = Transmitted /\ Line' = Line

LEMMA StepIsChannelStep ==
    ASSUME ConnectionInv, [ClientNext]_clientVars
    PROVE  ChannelStep
<1>0. ASSUME UNCHANGED <<outbox, writeQueue, written>>
      PROVE  Pending' = Pending /\ Transmitted' = Transmitted
  BY <1>0, Zenon DEF Pending, Transmitted
<1>00. ASSUME UNCHANGED <<started, socket, link>>
       PROVE  Line' = Line
  BY <1>00, Zenon DEF Line, Broken
<1>1. CASE Submit
  <2>1. submitted + 1 \in Data
    BY <1>1, ClientAssumption DEF Submit, ConnectionInv, Data
  <2>2. /\ outbox' = Append(outbox, submitted + 1) /\ writeQueue' = writeQueue
        /\ written' = written /\ Line' = Line
    BY <1>1, <1>00, Zenon DEF Submit
  <2>3. writeQueue \in Seq(Int) /\ outbox \in Seq(Data)
    BY Zenon DEF ConnectionInv
  <2>4. \A s, t \in Seq(Data), f \in Data : s \o Append(t, f) = Append(s \o t, f)
    OBVIOUS
  <2>5. Pending' = Append(Pending, submitted + 1)
    BY <2>1, <2>2, <2>3, <2>4, DataOfType, Zenon DEF Pending
  <2>6. Transmitted' = Transmitted
    BY <2>2, Zenon DEF Transmitted
  <2> QED
    BY <2>1, <2>2, <2>5, <2>6, Zenon DEF ChannelStep
<1>2. CASE Connect
  BY <1>2, <1>0, Zenon DEF Connect, ChannelStep, Line, Broken
<1>3. CASE ConnectFails
  BY <1>3, <1>0, Zenon DEF ConnectFails, ChannelStep, Line, Broken, repl, ConnectionInv
<1>4. CASE ConnectAgain
  BY <1>4, <1>0, <1>00, Zenon DEF ConnectAgain, ChannelStep
<1>5. CASE LinkDies
  BY <1>5, <1>0, Zenon DEF LinkDies, ChannelStep, Line, Broken, repl, ConnectionInv
<1>6. ASSUME NEW kind, RelaySends(kind) PROVE ChannelStep
  BY <1>6, <1>0, <1>00, Zenon DEF RelaySends, ChannelStep, repl
<1>7. CASE TimerExpires
  BY <1>7, <1>0, <1>00, Zenon DEF TimerExpires, ChannelStep, repl
<1>8. CASE DoCbrTick
  <2>1. Line' = Line /\ Transmitted' = Transmitted
    BY <1>8, <1>00, Zenon DEF DoCbrTick, Transmitted
  <2>2. CASE ~isAuthenticated
    BY <1>8, <1>0, <2>1, <2>2, Zenon DEF DoCbrTick, ChannelStep
  <2>3. CASE isAuthenticated /\ outbox = <<>>
    <3>1. writeQueue' = Append(writeQueue, PollFrame) /\ outbox' = outbox
      BY <1>8, <2>3, Zenon DEF DoCbrTick, QueueFrame
    <3> QED
      BY <2>1, <3>1, PendingPush, FrameFacts, Zenon DEF ChannelStep
  <2>4. CASE isAuthenticated /\ outbox # <<>>
    <3>1. writeQueue' = Append(writeQueue, Head(outbox)) /\ outbox' = Tail(outbox)
      BY <1>8, <2>4, Zenon DEF DoCbrTick, QueueFrame
    <3>2. Head(outbox) \in Int
      BY <2>4, OutboxSteps, FrameFacts, Zenon DEF ConnectionInv
    <3> QED
      BY <2>1, <2>4, <3>1, <3>2, PendingPush, Zenon DEF ChannelStep
  <2> QED
    BY <2>2, <2>3, <2>4, Zenon DEF ConnectionInv
<1>9. CASE ReadCompletes
  BY <1>9, <1>0, <1>00, Zenon DEF ReadCompletes, ChannelStep, repl
<1>10. CASE ReadFails
  BY <1>10, <1>0, Zenon DEF ReadFails, ChannelStep, Line, Broken, repl, ConnectionInv
<1>11. CASE HandleRead
  <2>1. started /\ UNCHANGED <<outbox, started, link, written>>
    BY <1>11, Zenon DEF HandleRead, repl, ConnectionInv
  <2>2. Transmitted' = Transmitted
    BY <2>1, Zenon DEF Transmitted
  <2>3. ASSUME QueueFrame(AuthResponse), socket' = socket PROVE ChannelStep
    <3>1. Pending' = Pending
      BY <2>1, <2>3, PendingPush, FrameFacts, Zenon DEF QueueFrame
    <3> QED
      BY <1>00, <2>1, <2>2, <2>3, <3>1, Zenon DEF ChannelStep
  <2>4. ASSUME writeQueue' = writeQueue, socket' = socket PROVE ChannelStep
    BY <1>0, <1>00, <2>1, <2>4, Zenon DEF ChannelStep
  <2>5. ASSUME writeQueue' = writeQueue, socket' = "closed" PROVE ChannelStep
    BY <1>0, <2>1, <2>5, Zenon DEF ChannelStep, Line, Broken
  <2> QED
    BY <1>11, <2>3, <2>4, <2>5, Zenon DEF HandleRead
<1>12. CASE WriteDone
  <2>1. /\ socket = "open" /\ inFlight # <<>> /\ writeQueue' = Tail(writeQueue)
        /\ outbox' = outbox /\ Line' = Line /\ started
    BY <1>12, <1>00, PopEffect, Zenon DEF WriteDone, repl
  <2>2. IF Head(writeQueue) \in Data
        THEN Pending # <<>> /\ Head(Pending) = Head(writeQueue)
                 /\ Pending' = Tail(Pending)
        ELSE Pending' = Pending
    BY <2>1, PendingPop, Zenon
  <2>3. Head(inFlight) = Head(writeQueue) /\ Head(writeQueue) \in Int
    BY <2>1, PopEffect, Zenon
  <2>4. CASE ~link
    <3>1. written' = written
      BY <1>12, <2>4, Zenon DEF WriteDone
    <3>2. Transmitted' = Transmitted /\ Line = "broken"
      BY <2>1, <2>4, <3>1, Zenon DEF Transmitted, Line, Broken
    <3> QED
      BY <2>1, <2>2, <3>2, Zenon DEF ChannelStep
  <2>5. CASE link
    <3>1. Line = "up"
      BY <2>1, <2>5, Zenon DEF Line, Broken
    <3>2. Transmitted' = IF Head(writeQueue) \in Data
                         THEN Append(Transmitted, Head(writeQueue)) ELSE Transmitted
      <4>1. CASE written' = written /\ Head(writeQueue) = PollFrame
        BY <4>1, FrameFacts, Zenon DEF Transmitted
      <4>2. CASE written' = Append(written, Head(writeQueue))
        <5>1. written \in Seq(Int) /\ Head(writeQueue) \in Int
          BY <2>3, Zenon DEF ConnectionInv
        <5> DEFINE x == Head(writeQueue)
        <5>2. /\ Transmitted' = Transmitted \o Picked(<<x>>)
              /\ Transmitted \in Seq(Data)
          BY <4>2, <5>1, DataOfAppend, DataOfType, Zenon DEF Transmitted
        <5> HIDE DEF x
        <5>3. Picked(<<x>>) = IF x \in Data THEN <<x>> ELSE <<>>
          BY OneInFlight DEF Picked
        <5>4. \A s \in Seq(Data) : /\ s \o <<>> = s
                                   /\ x \in Data => s \o <<x>> = Append(s, x)
          OBVIOUS
        <5>5. \A u \in Seq(Data) :
                  u \o Picked(<<x>>) = IF x \in Data THEN Append(u, x) ELSE u
          <6>1. CASE x \in Data
            <7>1. Picked(<<x>>) = <<x>>
              BY <5>3, <6>1, Zenon
            <7>2. \A u \in Seq(Data) : u \o <<x>> = Append(u, x)
              BY <6>1
            <7> QED
              BY <6>1, <7>1, <7>2, Zenon
          <6>2. CASE x \notin Data
            <7>1. Picked(<<x>>) = <<>>
              BY <5>3, <6>2, Zenon
            <7> QED
              BY <5>4, <6>2, <7>1, Zenon
          <6> QED
            BY <6>1, <6>2, Zenon
        <5>6. Transmitted' =
                  IF x \in Data THEN Append(Transmitted, x)
                  ELSE Transmitted
          BY <5>2, <5>5, Zenon
        <5> QED
          BY <5>6, Zenon DEF x
      <4> QED
        BY <1>12, <2>3, <2>5, <4>1, <4>2, Zenon DEF WriteDone
    <3> QED
      BY <2>1, <2>2, <3>1, <3>2, Zenon DEF ChannelStep
  <2> QED
    BY <2>4, <2>5, Zenon
<1>13. CASE WriteFails
  <2>1. /\ inFlight # <<>> /\ writeQueue' = Tail(writeQueue) /\ outbox' = outbox
        /\ Transmitted' = Transmitted /\ Line' = Line /\ Line = "broken"
    BY <1>13, <1>00, PopEffect, Zenon
       DEF WriteFails, repl, Transmitted, Line, Broken
  <2>2. IF Head(writeQueue) \in Data
        THEN Pending # <<>> /\ Head(Pending) = Head(writeQueue)
                 /\ Pending' = Tail(Pending)
        ELSE Pending' = Pending
    BY <2>1, PendingPop, Zenon
  <2> QED
    BY <2>1, <2>2, Zenon DEF ChannelStep
<1>14. CASE UNCHANGED clientVars
  BY <1>14, <1>0, <1>00, Zenon DEF ChannelStep, clientVars, repl
<1> QED
  BY <1>1, <1>2, <1>3, <1>4, <1>5, <1>6, <1>7, <1>8, <1>9, <1>10, <1>11, <1>12, <1>13,
     <1>14, Zenon DEF ClientNext

\* Whatever the timer, the network and the commands do, the connection is a
\* first-in first-out channel that loses frames only after it broke.
THEOREM ConnectionIsChannel == ClientSpec => ImplementsClientChannel
<1>1. ClientInit => Port!Init
  <2>1. <<>> \in Seq(Int) /\ <<>> \o <<>> = <<>>
    OBVIOUS
  <2>2. DataOf[<<>>] = <<>>
    BY <2>1, DataOfUnfolds, Zenon
  <2> QED
    BY <2>1, <2>2, Zenon DEF ClientInit, Port!Init, Pending, Transmitted, Line
<1>2. ConnectionInv /\ [ClientNext]_clientVars => [Port!Next]_(Port!vars)
  <2> SUFFICES ASSUME ChannelStep PROVE [Port!Next]_(Port!vars)
    BY StepIsChannelStep, Zenon
  <2> QED
    BY Zenon DEF ChannelStep, Port!Next, Port!vars, Port!Submit,
           Port!Transmit, Port!Lose, Port!Up, Port!Break
<1>3. ConnectionInv /\ [ClientNext]_clientVars => ConnectionInv'
  BY StepConnection, Zenon
<1> QED
  BY <1>1, <1>2, <1>3, InitConnection, PTL
     DEF ClientSpec, ImplementsClientChannel, Port!Spec
=============================================================================
