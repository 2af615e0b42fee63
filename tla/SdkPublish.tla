----------------------------- MODULE SdkPublish -----------------------------
(***************************************************************************)
(* scripts/build_yocto.py and scripts/upload_sdk.py: how a Yocto SDK is    *)
(* built from a commit and published under the tag sdk-latest.             *)
(*                                                                         *)
(* A workspace is a checkout with its yocto-dev directory beside it: a     *)
(* runner of .github/workflows/auto-release.yml, or a maintainer's         *)
(* machine, which keeps what earlier runs left there.  Each runs a job:    *)
(* build_yocto.py and, after an SDK build that succeeded, upload_sdk.py.   *)
(* Nothing keeps two jobs from running at the same time.                   *)
(***************************************************************************)
EXTENDS Integers, Sequences, SequencesExt, RunCommand

CONSTANTS
    Workspaces,
    Prepared,      \* the workspaces where an earlier run cloned and configured
    MaxCommit,     \* bound: commits of main that change meta-blankchat
    MaxFaults      \* bound: commands that fail or are killed

VARIABLES
    head,          \* the newest commit of main
    release,       \* the SDK under the tag sdk-latest, 0 when there is none
    pc,            \* per workspace: the step its job is about to do
    job,           \* per workspace: what its job is to build, and from which commit
    repo,          \* per workspace: the repositories beside the checkout
    layers,        \* per workspace: the layers in conf/bblayers.conf
    sdk,           \* per workspace: the installer in tmp/deploy/sdk
    faults,
    \* observation only
    published,     \* a release has been out
    abandoned      \* the last release was deleted by a job that then failed

vars == <<head, release, pc, job, repo, layers, sdk, faults, published, abandoned>>

ASSUME PublishBounds ==
    Prepared \subseteq Workspaces /\ MaxCommit \in Nat \ {0} /\ MaxFaults \in Nat

None == 0
Torn == -1          \* an installer whose writing was cut short
Commits == 1 .. MaxCommit

\* The repositories build_yocto.py clones, in its order.
Repos == <<"poky", "meta-openembedded", "meta-tor", "meta-security">>

\* Mutant: the project's own layer is forgotten.
Layers_NoBlankchat == <<"meta-oe", "meta-python", "meta-networking", "meta-tor",
                        "meta-security">>

\* The layers it adds, in its order.
Layers == <<"meta-oe", "meta-python", "meta-networking", "meta-tor",
            "meta-security", "meta-blankchat">>

\* Where a layer lies; meta-blankchat is part of the checkout.
RepoOf(l) ==
    CASE l \in {"meta-oe", "meta-python", "meta-networking"} -> "meta-openembedded"
      [] l \in {"meta-tor", "meta-security"} -> l
      [] OTHER -> "checkout"

\* LAYERDEPENDS of the layers, beyond core.
LayerDepends(l) ==
    CASE l = "meta-networking" -> {"meta-oe", "meta-python"}
      [] l \in {"meta-python", "meta-security"} -> {"meta-oe"}
      [] OTHER -> {}

\* The layers whose recipes the images install: without one bitbake fails.
Needed == {"meta-oe", "meta-networking", "meta-tor", "meta-blankchat"}

\* What a job is to build; a script that ended has none.
NoJob == [sdk |-> FALSE, commit |-> None]

Usable(w, r) == r = "checkout" \/ repo[w][r] = "whole"

Init ==
    /\ head = 1
    /\ release = None
    /\ pc = [w \in Workspaces |-> "exit"]
    /\ job = [w \in Workspaces |-> NoJob]
    /\ repo = [w \in Workspaces |->
                  [r \in ToSet(Repos) |-> IF w \in Prepared THEN "whole" ELSE "absent"]]
    /\ layers = [w \in Workspaces |-> IF w \in Prepared THEN ToSet(Layers) ELSE {}]
    /\ sdk = [w \in Workspaces |-> None]
    /\ faults = 0
    /\ published = FALSE
    /\ abandoned = FALSE

\* A fault is a command that fails, or is killed with its script.
Fault == faults < MaxFaults /\ faults' = faults + 1

\* The job of w goes on with the given step, or is over.
GoTo(w, step) ==
    /\ pc' = [pc EXCEPT ![w] = step]
    /\ job' = [job EXCEPT ![w] = IF step = "exit" THEN NoJob ELSE @]

\* A push to main.
Push ==
    /\ head < MaxCommit
    /\ head' = head + 1
    /\ UNCHANGED <<release, pc, job, repo, layers, sdk, faults, published, abandoned>>

-----------------------------------------------------------------------------
(* build_yocto.py *)

\* A job starts on whatever commit is checked out: build_yocto.py never pulls.
\* A workflow run has the commit that triggered it, also when it is run again
\* later; a maintainer may be behind main.  The checkout stays as it is until
\* the job is over.
Start(w, forSdk) ==
    /\ pc[w] = "exit"
    /\ pc' = [pc EXCEPT ![w] = "clone"]
    /\ \E commit \in 1 .. head :
           job' = [job EXCEPT ![w] = [sdk |-> forSdk, commit |-> commit]]
    /\ UNCHANGED <<head, release, repo, layers, sdk, faults, published, abandoned>>

Absent(w) == SelectSeq(Repos, LAMBDA r : repo[w][r] = "absent")

\* Mutant: a repository is cloned whether or not its directory exists.
ToClone_Always(w) == Repos

\* A repository is cloned only when its directory does not exist.
ToClone(w) == Absent(w)

\* git clone creates the directory, and removes it when it fails; killed, it
\* leaves the directory behind.  It refuses a directory that exists.
Clone(w) ==
    /\ pc[w] = "clone"
    /\ ToClone(w) # <<>>
    /\ LET r == Head(ToClone(w)) IN
       \/ /\ repo[w][r] = "absent"
          /\ repo' = [repo EXCEPT ![w][r] = "whole"]
          /\ UNCHANGED <<pc, job, faults>>
       \/ /\ IF repo[w][r] = "absent" THEN Fault ELSE UNCHANGED faults
          /\ GoTo(w, AfterCommand(FALSE, "clone"))
          /\ UNCHANGED repo
       \/ /\ Fault
          /\ repo[w][r] = "absent"
          /\ repo' = [repo EXCEPT ![w][r] = "partial"]
          /\ GoTo(w, "exit")
    /\ UNCHANGED <<head, release, layers, sdk, published, abandoned>>

\* The Dockerfile is part of the checkout; docker builds the builder image.
DockerBuild(w) ==
    /\ pc[w] = "clone"
    /\ ToClone(w) = <<>>
    /\ \E ok \in BOOLEAN :
         /\ IF ok THEN UNCHANGED faults ELSE Fault
         /\ GoTo(w, AfterCommand(ok, "bitbake"))
    /\ UNCHANGED <<head, release, repo, layers, sdk, published, abandoned>>

\* bitbake-layers add-layer: a layer that is missing, or whose dependencies
\* are not configured, is refused; "|| true" hides it.  skip is a layer whose
\* addition fails for another reason.
AddLayers(w, skip) ==
    LET after[i \in 0 .. Len(Layers)] ==
            IF i = 0 THEN layers[w]
            ELSE IF /\ Layers[i] # skip
                    /\ Usable(w, RepoOf(Layers[i]))
                    /\ LayerDepends(Layers[i]) \subseteq after[i - 1]
                 THEN after[i - 1] \cup {Layers[i]}
                 ELSE after[i - 1]
    IN  after[Len(Layers)]

\* Mutant: an installer that is already there is kept.
Left_Reused(w, ok) == IF sdk[w] # None THEN {sdk[w]} ELSE {job[w].commit}

\* The installers the deploy directory may hold after populate_sdk: a build
\* that fails leaves the old one, or a torn one.
Left(w, ok) == IF ok THEN {job[w].commit} ELSE {sdk[w], Torn}

\* Inside the container: the environment needs poky, the layers are added, the
\* configuration is rewritten and bitbake runs; bash returns bitbake's status.
Bitbake(w) ==
    /\ pc[w] = "bitbake"
    /\ \E skip \in {"none"} \cup (ToSet(Layers) \ layers[w]), ok \in BOOLEAN :
         LET have == IF Usable(w, "poky") THEN AddLayers(w, skip) ELSE layers[w]
             able == Usable(w, "poky") /\ Needed \subseteq have
         IN  /\ skip # "none" => Usable(w, "poky")
             /\ ok => able
             /\ IF skip # "none" \/ (~ok /\ able) THEN Fault ELSE UNCHANGED faults
             /\ layers' = [layers EXCEPT ![w] = have]
             /\ \E s \in IF job[w].sdk /\ able THEN Left(w, ok) ELSE {sdk[w]} :
                    sdk' = [sdk EXCEPT ![w] = s]
             /\ GoTo(w, AfterCommand(ok, IF job[w].sdk THEN "find" ELSE "exit"))
    /\ UNCHANGED <<head, release, repo, published, abandoned>>

-----------------------------------------------------------------------------
(* upload_sdk.py *)

\* The newest installer of the deploy directory, and whether a release exists:
\* gh release view failing for any reason counts as "there is none".
Find(w) ==
    /\ pc[w] = "find"
    /\ \E seen \in BOOLEAN :
         /\ seen => release # None
         /\ IF ~seen /\ release # None /\ sdk[w] # None
            THEN Fault ELSE UNCHANGED faults
         /\ GoTo(w, IF sdk[w] = None THEN "exit" ELSE IF seen THEN "delete" ELSE "create")
    /\ UNCHANGED <<head, release, repo, layers, sdk, published, abandoned>>

\* Mutant: the script ends once the old release is gone.
OnceDeleted_Ends == "exit"

\* The step that follows the deletion.
OnceDeleted == "create"

\* gh release delete --cleanup-tag removes whatever release is there, and
\* fails when there is none.  A fault may come before or after the deletion.
Delete(w) ==
    /\ pc[w] = "delete"
    /\ \E ok, done \in BOOLEAN :
         /\ ok => done
         /\ done => release # None
         /\ IF ~ok /\ release # None THEN Fault ELSE UNCHANGED faults
         /\ release' = IF done THEN None ELSE release
         /\ abandoned' = IF done THEN ~ok ELSE abandoned
         /\ GoTo(w, AfterCommand(ok, OnceDeleted))
    /\ UNCHANGED <<head, repo, layers, sdk, published>>

\* gh release create uploads the installer to a draft and publishes it under
\* the tag, which fails when a release has it.
Create(w) ==
    /\ pc[w] = "create"
    /\ \E ok, done \in BOOLEAN :
         /\ ok => done
         /\ done => release = None
         /\ IF ~ok /\ release = None THEN Fault ELSE UNCHANGED faults
         /\ release' = IF done THEN sdk[w] ELSE release
         /\ published' = (published \/ done)
         /\ abandoned' = (~done /\ (abandoned \/ release = None))
         /\ GoTo(w, AfterCommand(ok, "exit"))
    /\ UNCHANGED <<head, repo, layers, sdk>>

-----------------------------------------------------------------------------
Step(w) == Clone(w) \/ DockerBuild(w) \/ Bitbake(w) \/ Find(w) \/ Delete(w) \/ Create(w)

Next ==
    \/ Push
    \/ \E w \in Workspaces : (\E forSdk \in BOOLEAN : Start(w, forSdk)) \/ Step(w)

Spec == Init /\ [][Next]_vars

\* A script that runs goes on; a workspace builds the SDK again and again.
FairSpec ==
    /\ Spec
    /\ \A w \in Workspaces : WF_vars(Step(w)) /\ SF_vars(Start(w, TRUE))

-----------------------------------------------------------------------------
Installers == {Torn} \cup Commits

Steps == {"exit", "clone", "bitbake", "find", "delete", "create"}
Job == [sdk: BOOLEAN, commit: {None} \cup Commits]

\* The types of what the scripts read and write.  A release is never a torn
\* installer, although a deploy directory may hold one.
TypeOK ==
    /\ head \in Commits
    /\ release \in {None} \cup Commits
    /\ published \in BOOLEAN
    /\ pc \in [Workspaces -> Steps]
    /\ job \in [Workspaces -> Job]
    /\ sdk \in [Workspaces -> {None} \cup Installers]

Channel == INSTANCE SdkChannel

\* Whatever two jobs do to each other, and wherever one is cut short, the tag
\* names no release or the whole SDK of a commit, and an upload never replaces
\* a release in place (upload_sdk.py deletes, then creates; build_yocto.py must
\* have succeeded first).
ImplementsChannel == Channel!Spec

\* The tag is without a release, once it had one, only while a job is about to
\* create the next, or because a job failed between deleting and creating
\* (upload_sdk.py, the two run_command calls).
GapHasOwner ==
    release = None /\ published =>
        abandoned \/ \E w \in Workspaces : pc[w] = "create"

\* What a job puts under the tag is the SDK of the commit it was started on: never
\* an installer that an earlier job of the workspace left, whole or torn, and
\* never that of a job that races it (build_yocto.py must have succeeded before
\* upload_sdk.py takes the newest installer of tmp/deploy/sdk).
PublishesOwnBuild ==
    [][\A w \in Workspaces :
          pc[w] = "create" /\ release' \notin {None, release} /\ pc'[w] # pc[w]
              => release' = job[w].commit]_vars

StuckClone(w) == \E r \in ToSet(Repos) : repo[w][r] = "partial"

\* Running build_yocto.py --sdk again repairs whatever a failed run left, bar a
\* clone that was killed: its directory exists, so it is never cloned again.
BuildRecovers ==
    \A w \in Workspaces : []<>(pc[w] = "find") \/ <>[]StuckClone(w)

\* Once commands stop failing, the tag gets a release again and again, however
\* the jobs race, unless no workspace can build any more.
ReleaseReturns ==
    []<>(release # None) \/ <>[](\A w \in Workspaces : StuckClone(w))

=============================================================================
