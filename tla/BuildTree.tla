----------------------------- MODULE BuildTree -----------------------------
(***************************************************************************)
(* scripts/build.py, coverage.py, format.py, test.py, valgrind.py, run.py  *)
(* and clean.py, on the machine of SdkInstall: several shells configure,   *)
(* build, check and remove the build trees of one checkout, while an SDK   *)
(* is downloaded and the sources are edited.                               *)
(*                                                                         *)
(* A build tree is build/<preset>.  The scripts take its directory for the *)
(* sign that it is configured; the model keeps the two apart.              *)
(***************************************************************************)
EXTENDS SdkInstall, FiniteSets

CONSTANTS
    Presets,
    Sourced,       \* the shells where bc-env.sh set OECORE_NATIVE_SYSROOT
    Retrier,       \* the shell that runs build.py -c until it works
    MaxSource,     \* bound: versions of the sources
    MaxRuns        \* bound: script runs other than the retries

VARIABLES
    job,           \* per shell: the script it runs, its preset and -c, and the
                   \* version of the sources when it started
    tree,          \* per preset: its directory, configuration and executables
    source,        \* the version of the sources
    runs,
    root,          \* compile_commands.json in the project root
    writers,       \* the shells whose build.py has that very file open; one that
                   \* was unlinked meanwhile is written in vain
    \* observation only
    openers,       \* the presets of the builds that had it open when it was last
                   \* opened
    cut            \* a build.py was killed while it wrote it

rootVars == <<root, writers, openers, cut>>
buildVars == <<job, tree, source, runs, rootVars>>
vars == <<installVars, pc, faults, buildVars>>

Debug == "yocto-debug"
Coverage == "yocto-coverage"

ASSUME BuildBounds ==
    /\ {Debug, Coverage} \subseteq Presets
    /\ "missing" \notin Presets
    /\ Sourced \subseteq Shells /\ Retrier \in Shells
    /\ MaxSource \in Nat \ {0} /\ MaxRuns \in Nat

\* conf is the location of the SDK that the tree is configured for; exe the
\* version of the sources its executables are built from.
NoTree == [dir |-> FALSE, conf |-> "none", exe |-> 0]

\* A file has two parts, written one after the other: the preset whose
\* compile_commands.json each was copied from, "missing" before it is written.
NoFile == [there |-> FALSE, front |-> "missing", back |-> "missing"]
Truncated == [there |-> TRUE, front |-> "missing", back |-> "missing"]
Whole(p) == [there |-> TRUE, front |-> p, back |-> p]

NoJob == [script |-> "none", preset |-> Debug, force |-> FALSE, since |-> 0]

Scripts == {"build", "coverage", "format", "test", "valgrind", "run", "clean"}

\* The runs a shell can start: coverage.py and valgrind.py have a fixed preset,
\* build.py alone has -c.
Jobs ==
    {j \in [script: Scripts, preset: Presets, force: BOOLEAN, since: {0}] :
        /\ j.script = "coverage" => j.preset = Coverage
        /\ j.script \in {"valgrind", "clean"} => j.preset = Debug
        /\ j.force => j.script = "build"}

ForcedBuild == [script |-> "build", preset |-> Debug, force |-> TRUE, since |-> 0]

Init ==
    /\ InstallInit
    /\ pc = [s \in Shells |-> "exit"]
    /\ faults = 0
    /\ job = [s \in Shells |-> NoJob]
    /\ tree = [p \in Presets |-> NoTree]
    /\ source = 1
    /\ runs = 0
    /\ root = NoFile /\ writers = {} /\ openers = {} /\ cut = FALSE

-----------------------------------------------------------------------------
(* What the scripts find out before they act *)

MyTree(s) == tree[job[s].preset]

\* The SDK that cmake uses in shell s: bc-env.sh sources the default one.
UsedDir(s) == IF s \in Sourced THEN "default" ELSE YoctoSdkDir(s)

\* load_yocto_env, skipped when the environment is already there: no SDK or no
\* environment-setup script fails, a torn SDK may.
EnvLoads(s) ==
    IF s \in Sourced THEN {TRUE}
    ELSE IF ~HasSetup(YoctoSdkDir(s)) THEN {FALSE}
    ELSE IF sdk[YoctoSdkDir(s)] = Torn THEN BOOLEAN ELSE {TRUE}

\* Mutant: build.py configures only a tree that is not there.
NeedsConfigure_DirOnly(s) == ~MyTree(s).dir

NeedsConfigure(s) == job[s].force \/ ~MyTree(s).dir

\* Mutant: build.py takes executables that are there for up to date.
BuildAfterEnv_Skips(s) ==
    IF MyTree(s).exe # 0 THEN "root" ELSE IF NeedsConfigure(s) THEN "configure" ELSE "make"

\* What each script does once the environment is loaded.
BuildAfterEnv(s) == IF NeedsConfigure(s) THEN "configure" ELSE "make"
CoverageAfterEnv(s) == "configure"
FormatAfterEnv(s) == IF MyTree(s).dir THEN "target" ELSE "configure"
TestAfterEnv(s) == IF MyTree(s).dir THEN "check" ELSE "exit"
ValgrindAfterEnv(s) == IF MyTree(s).dir /\ MyTree(s).exe # 0 THEN "check" ELSE "exit"

AfterEnv(s) ==
    CASE job[s].script = "build" -> BuildAfterEnv(s)
      [] job[s].script = "coverage" -> CoverageAfterEnv(s)
      [] job[s].script = "format" -> FormatAfterEnv(s)
      [] job[s].script = "test" -> TestAfterEnv(s)
      [] OTHER -> ValgrindAfterEnv(s)

\* A tool that needs the SDK in d: without one it fails, with a torn one it may.
Tool(ok, d) ==
    /\ ok => HasSetup(d)
    /\ IF ~ok /\ sdk[d] \in Commits THEN Fault ELSE UNCHANGED faults

-----------------------------------------------------------------------------
(* The scripts *)

Start(s, j) ==
    /\ pc[s] = "exit"
    /\ job' = [job EXCEPT ![s] = [j EXCEPT !.since = source]]
    /\ GoTo(s, CASE j.script = "clean" -> "clean"
                 [] j.script = "run" -> "find"
                 [] OTHER -> "env")
    /\ UNCHANGED <<installVars, faults, tree, source, rootVars>>

\* The script of s goes on with the given step, or is over.
To(s, step) ==
    /\ GoTo(s, step)
    /\ job' = [job EXCEPT ![s] = IF step = "exit" THEN NoJob ELSE @]

LoadYoctoEnv(s) ==
    /\ pc[s] = "env"
    /\ \E ok \in EnvLoads(s) : To(s, IF ok THEN AfterEnv(s) ELSE "exit")
    /\ UNCHANGED <<installVars, faults, tree, source, runs, rootVars>>

\* A tree after cmake --preset, which makes the directory first and writes the
\* build files last.
Configured(t, ok, d) == [t EXCEPT !.dir = TRUE, !.conf = IF ok THEN d ELSE t.conf]

Configure(s) ==
    /\ pc[s] = "configure"
    /\ \E ok \in BOOLEAN :
         /\ Tool(ok, UsedDir(s))
         /\ tree' = [tree EXCEPT ![job[s].preset] = Configured(@, ok, UsedDir(s))]
         /\ To(s, AfterCommand(ok, IF job[s].script = "format" THEN "target" ELSE "make"))
    /\ UNCHANGED <<installVars, source, runs, rootVars>>

\* cmake --build: without build files it fails; a failure may come after the
\* executables are linked.
Make(s) ==
    /\ pc[s] = "make"
    /\ \E ok, linked \in BOOLEAN :
         /\ ok => linked
         /\ linked => MyTree(s).conf # "none"
         /\ IF MyTree(s).conf = "none" THEN UNCHANGED faults ELSE Tool(ok, MyTree(s).conf)
         /\ tree' = IF linked THEN [tree EXCEPT ![job[s].preset].exe = source] ELSE tree
         /\ To(s, AfterCommand(ok, IF job[s].script = "build" THEN "root" ELSE "target"))
    /\ UNCHANGED <<installVars, source, runs, rootVars>>

InRoot(s) == pc[s] \in {"root", "unlink", "copy", "copying", "finishing"}

\* Mutant: a root file that is already there is kept.
AfterRoot_Kept == IF root.there THEN "exit" ELSE "copy"

\* A root file that is already there is removed first.
AfterRoot == IF root.there THEN "unlink" ELSE "copy"

\* build.py looks for the tree's compile_commands.json, and for the old one.
Root(s) ==
    /\ pc[s] = "root"
    /\ To(s, IF MyTree(s).conf = "none" THEN "exit" ELSE AfterRoot)
    /\ UNCHANGED <<installVars, faults, tree, source, runs, rootVars>>

\* Unlinking takes the file away from those who are writing it; one that is gone
\* meanwhile raises an exception.
Unlink(s) ==
    /\ pc[s] = "unlink"
    /\ To(s, IF root.there THEN "copy" ELSE "exit")
    /\ root' = NoFile /\ writers' = {} /\ openers' = {} /\ cut' = FALSE
    /\ UNCHANGED <<installVars, faults, tree, source, runs>>

\* copy2 opens the tree's file, then the root file, which it creates or, if
\* another build.py was faster, truncates.
CopyBegins(s) ==
    /\ pc[s] = "copy"
    /\ IF MyTree(s).conf = "none"
       THEN To(s, "exit") /\ UNCHANGED rootVars
       ELSE /\ To(s, "copying")
            /\ root' = Truncated
            /\ writers' = writers \cup {s}
            /\ openers' = {job[t].preset : t \in writers'}
            /\ cut' = FALSE
    /\ UNCHANGED <<installVars, faults, tree, source, runs>>

\* Mutant: the file copied is always that of yocto-debug.
CompileCmds_Debug(s) == Debug

\* The tree whose compile_commands.json is copied.
CompileCmds(s) == job[s].preset

\* The copy writes at its own position of the file it has opened.
CopyPart(s) ==
    /\ pc[s] = "copying"
    /\ root' = IF s \in writers THEN [root EXCEPT !.front = CompileCmds(s)] ELSE root
    /\ To(s, "finishing")
    /\ UNCHANGED <<installVars, faults, tree, source, runs, writers, openers, cut>>

\* The last part, and the file is closed; copying the times of a file that is
\* unlinked may still raise an exception, which changes nothing here.
CopyEnds(s) ==
    /\ pc[s] = "finishing"
    /\ root' = IF s \in writers THEN [root EXCEPT !.back = CompileCmds(s)] ELSE root
    /\ writers' = writers \ {s}
    /\ To(s, "exit")
    /\ UNCHANGED <<installVars, faults, tree, source, runs, openers, cut>>

\* build.py is killed while it replaces the root file.
Kill(s) ==
    /\ InRoot(s)
    /\ Fault
    /\ writers' = writers \ {s}
    /\ cut' = (cut \/ s \in writers)
    /\ To(s, "exit")
    /\ UNCHANGED <<installVars, tree, source, runs, root, openers>>

\* cmake --build --target: ok as for cmake --build.
Target(s, ok) ==
    /\ pc[s] = "target"
    /\ ok => MyTree(s).conf # "none"
    /\ IF MyTree(s).conf = "none" THEN UNCHANGED faults ELSE Tool(ok, MyTree(s).conf)
    /\ To(s, AfterCommand(ok, "exit"))
    /\ UNCHANGED <<installVars, tree, runs, rootVars>>

\* The coverage target runs the tests and writes the report.
CoverageTarget(s) ==
    /\ job[s].script = "coverage"
    /\ \E ok \in BOOLEAN : Target(s, ok)
    /\ UNCHANGED source

\* The format target rewrites sources, some of them also when it fails.
FormatTarget(s) ==
    /\ job[s].script = "format"
    /\ \E ok \in BOOLEAN : Target(s, ok)
    /\ source' \in IF MyTree(s).conf # "none" /\ source < MaxSource
                   THEN {source, source + 1} ELSE {source}

\* run.py needs no environment, only the executable.
FindExecutable(s) ==
    /\ pc[s] = "find"
    /\ To(s, IF MyTree(s).exe # 0 THEN "check" ELSE "exit")
    /\ UNCHANGED <<installVars, faults, tree, source, runs, rootVars>>

\* test.py, valgrind.py and run.py run the executables that are there; nothing
\* depends on the outcome.
Check(s) ==
    /\ pc[s] = "check"
    /\ To(s, "exit")
    /\ UNCHANGED <<installVars, faults, tree, source, runs, rootVars>>

\* What rmtree may leave of a tree when it is cut short.
Remains(t) == {t, NoTree} \cup IF t.dir THEN {[t EXCEPT !.conf = "none"],
                                              [t EXCEPT !.conf = "none", !.exe = 0]} ELSE {}

\* rmtree removes all trees; it fails on a directory that another shell's tool
\* is writing to.
Clean(s) ==
    /\ pc[s] = "clean"
    /\ \/ tree' = [p \in Presets |-> NoTree] /\ UNCHANGED faults
       \/ /\ \E t \in [Presets -> UNION {Remains(tree[p]) : p \in Presets}] :
                /\ \A p \in Presets : t[p] \in Remains(tree[p])
                /\ tree' = t
          /\ IF \E u \in Shells \ {s} : pc[u] \in {"configure", "make", "target"}
             THEN UNCHANGED faults ELSE Fault
    /\ To(s, "exit")
    /\ UNCHANGED <<installVars, source, runs, rootVars>>

-----------------------------------------------------------------------------
\* The developer edits the sources.
Edit ==
    /\ source < MaxSource
    /\ source' = source + 1
    /\ UNCHANGED <<installVars, pc, faults, job, tree, runs, rootVars>>

\* A run other than the retries.
Run(s) ==
    /\ runs < MaxRuns
    /\ runs' = runs + 1
    /\ \/ \E j \in Jobs : Start(s, j)
       \/ StartDownload(s) /\ UNCHANGED <<job, tree, source, rootVars>>

\* The retries: the SDK is downloaded while it is not the one released, and
\* build.py -c is run again.
RetryDownload ==
    /\ sdk[YoctoSdkDir(Retrier)] # release
    /\ StartDownload(Retrier)
    /\ UNCHANGED buildVars

RetryBuild == Start(Retrier, ForcedBuild) /\ UNCHANGED runs

Step(s) ==
    \/ DownloadStep(s) /\ UNCHANGED buildVars
    \/ LoadYoctoEnv(s) \/ Configure(s) \/ Make(s) \/ Root(s) \/ Unlink(s)
    \/ CopyBegins(s) \/ CopyPart(s) \/ CopyEnds(s) \/ CoverageTarget(s) \/ FormatTarget(s)
    \/ FindExecutable(s) \/ Check(s) \/ Clean(s)

Next ==
    \/ Edit
    \/ ReleaseChanges /\ UNCHANGED buildVars
    \/ RetryDownload \/ RetryBuild
    \/ \E s \in Shells : Run(s) \/ Step(s) \/ Kill(s)

Spec == Init /\ [][Next]_vars

\* A script that runs goes on, and the developer does not give up.
FairSpec ==
    /\ Spec
    /\ \A s \in Shells : WF_vars(Step(s))
    /\ SF_vars(RetryDownload) /\ SF_vars(RetryBuild)

-----------------------------------------------------------------------------
\* The steps of download_sdk.py, those in which build.py replaces the root file,
\* and all.
Downloads == {"fetch", "fetching", "install", "installing"}
Rooting == {"unlink", "copy", "copying", "finishing"}
Steps == {"exit", "env", "configure", "make", "root", "target", "find", "check", "clean"}
             \cup Downloads \cup Rooting

JobRecords == [script: Scripts \cup {"none"}, preset: Presets, force: BOOLEAN,
               since: 0 .. MaxSource]

Parts == Presets \cup {"missing"}
Files == [there: BOOLEAN, front: Parts, back: Parts]

Trees == [dir: BOOLEAN, conf: Locations \cup {"none"}, exe: 0 .. MaxSource]

\* The types of what the scripts read and write; no part of a script leads to a
\* step that no script has.
TypeOK ==
    /\ release \in {None} \cup Commits
    /\ asset \in [Shells -> {None} \cup Commits]
    /\ sdk \in [Locations -> {None, Torn, Bare} \cup Commits]
    /\ installer \in {None, Torn} \cup Commits
    /\ published \subseteq Commits
    /\ pc \in [Shells -> Steps]
    /\ job \in [Shells -> JobRecords]
    /\ tree \in [Presets -> Trees]
    /\ source \in 1 .. MaxSource
    /\ root \in Files /\ writers \subseteq Shells
    /\ openers \subseteq Presets /\ cut \in BOOLEAN

\* When build.py gets to report success, the executables of its preset come
\* from sources no older than when it started, or are gone again, whatever
\* other shells configure, build, break or remove meanwhile.
BuiltIsCurrent ==
    \A s \in Shells : InRoot(s) =>
        MyTree(s).exe = 0 \/ MyTree(s).exe >= job[s].since

\* In whatever order builds find, unlink, truncate and write the
\* compile_commands.json of the project root, once none of them has it open no
\* part of it is missing, and each part comes from a build that had it open last:
\* it is the whole file of one preset unless builds of different presets wrote it
\* at the same time.  A build.py that is killed while it writes leaves it partial
\* (build.py, the unlink and copy2 at the end).
RootIsWhole ==
    root.there /\ writers = {} /\ ~cut => {root.front, root.back} \subseteq openers

\* Once a release stays, downloading again replaces whatever an interrupted
\* download or installation left by the SDK released.
EventuallyInstalled ==
    <>[](release # None) => <>[](sdk[YoctoSdkDir(Retrier)] = release)

\* Once a release stays, build.py -c gets yocto-debug built from the present
\* sources, whatever failed configurations, cleans or other builds left.
EventuallyBuilt ==
    <>[](release # None) => []<>(tree[Debug].exe = source)

\* Once a release stays, build.py -c leaves the whole compile_commands.json of
\* yocto-debug in the project root again and again, whatever part of one, or
\* whichever other, builds that were killed or raced it have left there.
RootRecovers ==
    <>[](release # None) => []<>(root = Whole(Debug))

=============================================================================
