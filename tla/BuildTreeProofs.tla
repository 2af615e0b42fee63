--------------------------- MODULE BuildTreeProofs --------------------------
(***************************************************************************)
(* What download_sdk.py and build.py guarantee for every number of shells, *)
(* presets, releases, edits, runs and faults.                              *)
(*                                                                         *)
(* The inductive invariant has three parts that share only pc: downloads   *)
(* (who is in the download directory), builds (how old executables are)    *)
(* and the copy of compile_commands.json in the project root.              *)
(***************************************************************************)
EXTENDS BuildTree, TLAPS

\* Alone in the directory, a download that has fetched holds a whole installer.
DownloadInv ==
    /\ ~shared => \A s, t \in Shells : pc[s] \in Downloads /\ pc[t] \in Downloads => s = t
    /\ \A s \in Shells : pc[s] = "fetching" => asset[s] \in Commits
    /\ \A s \in Shells : pc[s] \in {"install", "installing"} /\ ~shared => installer \in Commits

\* No script started on sources that are yet to be written.
BuildInv == BuiltIsCurrent /\ \A s \in Shells : job[s].since <= source

\* The steps in which build.py has a file open to copy to.
Copying == {"copying", "finishing"}

\* What is missing of the root file, a build.py that has it open is yet to write;
\* without a kill this survives every unlink and truncation.
RootInv ==
    /\ \A s \in writers : pc[s] \in Copying /\ job[s].preset \in openers
    /\ root.front \in openers \cup {"missing"} /\ root.back \in openers \cup {"missing"}
    /\ root.there /\ ~cut =>
           /\ root.front = "missing" => \E s \in writers : pc[s] = "copying"
           /\ root.back = "missing" => writers # {}

IInv == TypeOK /\ DownloadInv /\ BuildInv /\ RootInv

\* The initial states satisfy the invariant.
LEMMA InitIInv == Init => IInv
  <1> SUFFICES ASSUME Init PROVE IInv
    BY Zenon
  <1> USE BuildBounds, InstallBounds DEF Init, InstallInit
  <1>1. NoTree \in Trees /\ NoJob \in JobRecords
    BY DEF NoTree, Trees, NoJob, JobRecords
  <1>2. TypeOK
    <2>1. NoFile \in Files
      BY Zenon DEF NoFile, Files, Parts
    <2>2. source \in 1 .. MaxSource
      BY DEF TypeOK
    <2> QED
      BY <1>1, <2>1, <2>2, Zenon DEF TypeOK, Steps
  <1>3. DownloadInv
    BY Zenon DEF DownloadInv, Downloads
  <1>4. BuildInv
    BY DEF BuildInv, BuiltIsCurrent, InRoot, NoJob
  <1>5. RootInv
    BY DEF RootInv, NoFile
  <1> QED
    BY <1>2, <1>3, <1>4, <1>5, Zenon DEF IInv

-----------------------------------------------------------------------------
(* Which steps leave which part alone *)

\* A step of another script leaves the downloads alone.
LEMMA DownloadFrame ==
    ASSUME DownloadInv, NEW s \in Shells,
           pc[s] \notin Downloads, pc'[s] \notin Downloads,
           \A t \in Shells \ {s} : pc'[t] = pc[t],
           UNCHANGED <<shared, asset, installer>>
    PROVE  DownloadInv'
  BY Zenon DEF DownloadInv, Downloads

\* Executables are left alone, removed or built from the present sources; build.py
\* gets to replace the root file only after it has built.
LEMMA BuildFrame ==
    ASSUME BuildInv, TypeOK, NEW s \in Shells,
           \A p \in Presets : tree'[p].exe \in {tree[p].exe, 0, source},
           InRoot(s)' => /\ job'[s] = job[s]
                         /\ InRoot(s) \/ tree'[job[s].preset].exe = source,
           job'[s].since <= source',
           \A t \in Shells \ {s} : pc'[t] = pc[t] /\ job'[t] = job[t],
           source' \in Nat, source' >= source
    PROVE  BuildInv'
  <1>1. source \in Nat /\ \A t \in Shells : job[t].since \in Nat /\ job[t].preset \in Presets
    BY BuildBounds DEF TypeOK, JobRecords
  <1>2. \A t \in Shells : job'[t].since <= source'
    BY <1>1 DEF BuildInv
  <1>3. ASSUME NEW t \in Shells, InRoot(t)'
        PROVE  MyTree(t)'.exe = 0 \/ MyTree(t)'.exe >= job'[t].since
    <2>1. /\ job'[t] = job[t]
          /\ InRoot(t) \/ tree'[job[t].preset].exe = source
      BY <1>3, Zenon DEF InRoot
    <2>2. tree'[job[t].preset].exe \in {tree[job[t].preset].exe, 0, source}
      BY <1>1, Zenon
    <2>3. InRoot(t) => tree[job[t].preset].exe = 0 \/ tree[job[t].preset].exe >= job[t].since
      BY Zenon DEF BuildInv, BuiltIsCurrent, MyTree
    <2>4. source >= job[t].since
      BY <1>1, Zenon DEF BuildInv
    <2> QED
      BY <2>1, <2>2, <2>3, <2>4, Zenon DEF MyTree
  <1> QED
    BY <1>2, <1>3, Zenon DEF BuildInv, BuiltIsCurrent

\* A step of a script that has no file open leaves the root file alone.
LEMMA RootFrame ==
    ASSUME TypeOK, RootInv, NEW s \in Shells, pc[s] \notin Copying,
           \A t \in Shells \ {s} : pc'[t] = pc[t] /\ job'[t] = job[t],
           UNCHANGED rootVars
    PROVE  RootInv'
  <1>1. \A t \in writers : t \in Shells \ {s}
    BY Zenon DEF TypeOK, RootInv
  <1> QED
    BY <1>1, Zenon DEF RootInv, rootVars

\* What GoTo and To do to pc and job.
LEMMA GoToEffect ==
    ASSUME TypeOK, NEW s \in Shells, NEW step \in Steps, GoTo(s, step)
    PROVE  /\ pc' \in [Shells -> Steps] /\ pc'[s] = step
           /\ \A t \in Shells \ {s} : pc'[t] = pc[t]
  BY Zenon DEF TypeOK, GoTo

LEMMA ToEffect ==
    ASSUME TypeOK, NEW s \in Shells, NEW step \in Steps, To(s, step)
    PROVE  /\ pc' \in [Shells -> Steps] /\ pc'[s] = step
           /\ job' \in [Shells -> JobRecords]
           /\ job'[s] = IF step = "exit" THEN NoJob ELSE job[s]
           /\ \A t \in Shells \ {s} : pc'[t] = pc[t] /\ job'[t] = job[t]
  <1>1. NoJob \in JobRecords
    BY BuildBounds DEF NoJob, JobRecords
  <1> QED
    BY <1>1, GoToEffect, Zenon DEF To, TypeOK

-----------------------------------------------------------------------------
(* download_sdk.py *)

\* A step of a download leaves builds and the root file alone.
LEMMA DownloadLeavesRest ==
    ASSUME IInv, NEW s \in Shells, pc[s] \in Downloads \cup {"exit"},
           NEW step \in Downloads \cup {"exit"}, GoTo(s, step),
           UNCHANGED <<job, tree, source, rootVars>>
    PROVE  BuildInv' /\ RootInv'
  <1>1. step \in Steps /\ step \notin Rooting \cup {"root"}
    BY Zenon DEF Steps, Downloads, Rooting
  <1>2. pc'[s] = step /\ \A t \in Shells \ {s} : pc'[t] = pc[t]
    BY <1>1, GoToEffect, Zenon DEF IInv
  <1>3. BuildInv'
    BY <1>1, <1>2, BuildFrame DEF IInv, BuildInv, TypeOK, InRoot, Rooting
  <1>4. pc[s] \notin Copying
    BY Zenon DEF Downloads, Copying
  <1>5. RootInv'
    BY <1>2, <1>4, RootFrame, Zenon DEF IInv
  <1> QED
    BY <1>3, <1>5, Zenon

\* A download starts: it is alone, or the directory is shared from now on.
LEMMA StartDownloadKeeps ==
    ASSUME IInv, NEW s \in Shells, StartDownload(s),
           UNCHANGED <<job, tree, source, rootVars>>
    PROVE  IInv'
  <1> USE DEF IInv, StartDownload, FirstFetch
  <1>1. pc'[s] = "fetch" /\ \A t \in Shells \ {s} : pc'[t] = pc[t]
    BY GoToEffect, Zenon DEF Steps, Downloads
  <1>2. TypeOK'
    BY GoToEffect, Zenon DEF TypeOK, rootVars, Steps, Downloads
  <1>3. DownloadInv'
    BY <1>1, Zenon DEF DownloadInv, Downloads, Downloading
  <1>4. BuildInv' /\ RootInv'
    BY DownloadLeavesRest, Zenon DEF Downloads
  <1> QED
    BY <1>2, <1>3, <1>4, Zenon

\* How DownloadTo moves on.
LEMMA DownloadToEffect ==
    ASSUME TypeOK, DownloadInv, NEW s \in Shells, pc[s] \in Downloads,
           NEW step \in {"exit", "fetching", "install", "installing"}, DownloadTo(s, step)
    PROVE  /\ pc' \in [Shells -> Steps] /\ pc'[s] = step
           /\ \A t \in Shells \ {s} : pc'[t] = pc[t]
           /\ ~shared' => \A t \in Shells \ {s} : pc[t] \notin Downloads
           /\ step # "exit" /\ ~shared' => ~shared
  <1>1. step \in Steps
    BY Zenon DEF Steps, Downloads
  <1>2. GoTo(s, step)
    BY Zenon DEF DownloadTo
  <1>3. ~shared' => \A t \in Shells \ {s} : pc[t] \notin Downloads
    <2>1. CASE ~shared
      BY <2>1, Zenon DEF DownloadInv
    <2>2. CASE shared
      BY <2>2, Zenon DEF DownloadTo, Downloading, Downloads
    <2> QED
      BY <2>1, <2>2, Zenon
  <1>4. step # "exit" /\ ~shared' => ~shared
    BY Zenon DEF DownloadTo
  <1> QED
    BY <1>1, <1>2, <1>3, <1>4, GoToEffect, Zenon

LEMMA FetchBeginsKeeps ==
    ASSUME IInv, NEW s \in Shells, FetchBegins(s),
           UNCHANGED <<job, tree, source, rootVars>>
    PROVE  IInv'
  <1> USE DEF IInv
  <1>1. pc[s] \in Downloads /\ UNCHANGED <<release, published, sdk>>
    BY Zenon DEF FetchBegins, Downloads
  <1>2. CASE release = None
    <2>1. DownloadTo(s, "exit") /\ UNCHANGED <<installer, asset>>
      BY <1>2, Zenon DEF FetchBegins, AfterCommand
    <2>2. TypeOK'
      BY <1>1, <2>1, DownloadToEffect, Zenon DEF TypeOK, rootVars
    <2>3. DownloadInv'
      BY <1>1, <2>1, DownloadToEffect, Zenon DEF DownloadInv, Downloads
    <2> QED
      BY <1>1, <2>1, <2>2, <2>3, DownloadLeavesRest, Zenon DEF DownloadTo
  <1>3. CASE release # None
    <2>1. DownloadTo(s, "fetching") /\ installer' = Torn /\ asset' = [asset EXCEPT ![s] = release]
      BY <1>3, Zenon DEF FetchBegins
    <2>2. TypeOK'
      BY <1>1, <2>1, DownloadToEffect, Zenon DEF TypeOK, rootVars
    <2>3. DownloadInv'
      <3>1. /\ pc'[s] = "fetching" /\ \A t \in Shells \ {s} : pc'[t] = pc[t]
            /\ ~shared' => \A t \in Shells \ {s} : pc[t] \notin Downloads
        BY <1>1, <2>1, DownloadToEffect, Zenon
      <3>2. asset'[s] \in Commits /\ \A t \in Shells \ {s} : asset'[t] = asset[t]
        BY <1>3, <2>1, Zenon DEF TypeOK
      <3> QED
        BY <3>1, <3>2, Zenon DEF DownloadInv, Downloads
    <2> QED
      BY <1>1, <2>1, <2>2, <2>3, DownloadLeavesRest, Zenon DEF DownloadTo, Downloads
  <1> QED
    BY <1>2, <1>3, Zenon

\* The file that a lone download leaves is the asset it fetched.
LEMMA FetchEndsKeeps ==
    ASSUME IInv, NEW s \in Shells, FetchEnds(s),
           UNCHANGED <<job, tree, source, rootVars>>
    PROVE  IInv'
  <1> USE DEF IInv
  <1>1. PICK ok \in BOOLEAN :
           /\ installer' \in IF ~ok THEN {installer}
                             ELSE IF shared THEN {installer, Torn, asset[s]} ELSE {asset[s]}
           /\ DownloadTo(s, AfterCommand(ok, "install"))
    BY Zenon DEF FetchEnds
  <1> DEFINE step == AfterCommand(ok, "install")
  <1>2. step \in {"exit", "install"} /\ (step = "install" => ok)
    BY Zenon DEF AfterCommand
  <1>3. /\ pc[s] = "fetching" /\ pc[s] \in Downloads /\ asset' = [asset EXCEPT ![s] = None]
        /\ UNCHANGED <<release, published, sdk>>
    BY Zenon DEF FetchEnds, Downloads
  <1>4. DownloadTo(s, step) /\ GoTo(s, step)
    BY <1>1, Zenon DEF DownloadTo
  <1> HIDE DEF step
  <1>5. /\ pc' \in [Shells -> Steps] /\ pc'[s] = step
        /\ \A t \in Shells \ {s} : pc'[t] = pc[t]
        /\ ~shared' => \A t \in Shells \ {s} : pc[t] \notin Downloads
        /\ step # "exit" /\ ~shared' => ~shared
    BY <1>2, <1>3, <1>4, DownloadToEffect, Zenon
  <1>6. TypeOK'
    BY <1>1, <1>3, <1>5, Zenon DEF TypeOK, rootVars
  <1>7. DownloadInv'
    <2>1. asset[s] \in Commits
      BY <1>3, Zenon DEF DownloadInv
    <2>2. \A t \in Shells \ {s} : asset'[t] = asset[t]
      BY <1>3, Zenon DEF TypeOK
    <2>3. step = "install" /\ ~shared' => installer' \in Commits
      BY <1>1, <1>2, <1>5, <2>1, Zenon
    <2> QED
      BY <1>2, <1>5, <2>2, <2>3, Zenon DEF DownloadInv, Downloads
  <1>8. BuildInv' /\ RootInv'
    BY <1>2, <1>3, <1>4, DownloadLeavesRest, Zenon DEF Downloads
  <1> QED
    BY <1>6, <1>7, <1>8, Zenon

\* YOCTO_SDK_DIR names a location.
LEMMA SdkDirIsLocation ==
    ASSUME NEW s \in Shells
    PROVE  YoctoSdkDir(s) \in Locations
  BY InstallBounds, Zenon DEF YoctoSdkDir, Locations

\* What the two steps of the installation do.
LEMMA InstallSteps ==
    ASSUME TypeOK, NEW s \in Shells, InstallBegins(s) \/ InstallEnds(s)
    PROVE  /\ pc[s] \in {"install", "installing"}
           /\ UNCHANGED <<release, published, installer, asset>>
           /\ \E now \in {None, Torn, Bare} \cup Commits :
                  sdk' = [sdk EXCEPT ![YoctoSdkDir(s)] = now]
           /\ \E step \in {"exit", "installing"} : DownloadTo(s, step)
  <1>1. sdk[YoctoSdkDir(s)] \in {None, Torn, Bare} \cup Commits
    BY SdkDirIsLocation, Zenon DEF TypeOK
  <1>2. CASE InstallBegins(s)
    <2>1. CASE installer = None
      <3>1. sdk' = [sdk EXCEPT ![YoctoSdkDir(s)] = sdk[YoctoSdkDir(s)]]
        BY <1>2, <2>1, SdkDirIsLocation, Zenon DEF InstallBegins, TypeOK
      <3> QED
        BY <1>1, <1>2, <2>1, <3>1, Zenon DEF InstallBegins
    <2>2. CASE installer # None
      BY <1>2, <2>2, Zenon DEF InstallBegins
    <2> QED
      BY <2>1, <2>2, Zenon
  <1>3. CASE InstallEnds(s)
    <2>1. PICK ok \in BOOLEAN :
             /\ \E now \in IF ~ok THEN {sdk[YoctoSdkDir(s)]}
                           ELSE IF shared THEN {Torn} \cup published ELSE {installer} :
                    sdk' = [sdk EXCEPT ![YoctoSdkDir(s)] = now]
             /\ DownloadTo(s, AfterCommand(ok, "exit"))
      BY <1>3, Zenon DEF InstallEnds
    <2>2. AfterCommand(ok, "exit") = "exit"
      BY Zenon DEF AfterCommand
    <2>3. (IF ~ok THEN {sdk[YoctoSdkDir(s)]}
           ELSE IF shared THEN {Torn} \cup published ELSE {installer})
              \subseteq {None, Torn, Bare} \cup Commits
      BY <1>1, Zenon DEF TypeOK
    <2> QED
      BY <1>3, <2>1, <2>2, <2>3, Zenon DEF InstallEnds
  <1> QED
    BY <1>2, <1>3, Zenon

LEMMA InstallKeeps ==
    ASSUME IInv, NEW s \in Shells, InstallBegins(s) \/ InstallEnds(s),
           UNCHANGED <<job, tree, source, rootVars>>
    PROVE  IInv'
  <1> USE DEF IInv
  <1>1. PICK step \in {"exit", "installing"} : DownloadTo(s, step)
    BY InstallSteps, Zenon
  <1>2. /\ pc[s] \in {"install", "installing"} /\ pc[s] \in Downloads
        /\ UNCHANGED <<release, published, installer, asset>>
    BY InstallSteps, Zenon DEF Downloads
  <1>3. /\ pc' \in [Shells -> Steps] /\ pc'[s] = step
        /\ \A t \in Shells \ {s} : pc'[t] = pc[t]
        /\ ~shared' => \A t \in Shells \ {s} : pc[t] \notin Downloads
        /\ step # "exit" /\ ~shared' => ~shared
    BY <1>1, <1>2, DownloadToEffect, Zenon
  <1>4. TypeOK'
    BY <1>2, <1>3, InstallSteps, Zenon DEF TypeOK, rootVars
  <1>5. DownloadInv'
    BY <1>2, <1>3, Zenon DEF DownloadInv, Downloads
  <1>6. BuildInv' /\ RootInv'
    BY <1>1, <1>2, DownloadLeavesRest, Zenon DEF DownloadTo, Downloads
  <1> QED
    BY <1>4, <1>5, <1>6, Zenon

-----------------------------------------------------------------------------
(* build.py and the scripts around it *)

\* A step of a script that is not a download leaves the downloads alone.
LEMMA ScriptLeavesDownloads ==
    ASSUME IInv, NEW s \in Shells, pc[s] \notin Downloads,
           NEW step \in Steps \ Downloads, To(s, step), UNCHANGED installVars
    PROVE  DownloadInv'
  BY ToEffect, DownloadFrame, Zenon DEF IInv, installVars

\* The steps as the invariant of builds sees them.
LEMMA ScriptKeepsBuilds ==
    ASSUME IInv, NEW s \in Shells, NEW step \in Steps, To(s, step),
           \A p \in Presets : tree'[p].exe \in {tree[p].exe, 0, source},
           step \in {"root"} \cup Rooting => InRoot(s) \/ tree'[job[s].preset].exe = source,
           source' \in Nat, source' >= source
    PROVE  BuildInv'
  <1>1. job'[s].since <= source'
    BY ToEffect, BuildBounds, SMTT(30) DEF IInv, BuildInv, TypeOK, JobRecords, NoJob
  <1>2. InRoot(s)' => /\ job'[s] = job[s]
                      /\ InRoot(s) \/ tree'[job[s].preset].exe = source
    BY ToEffect DEF IInv, InRoot, Rooting
  <1> QED
    BY <1>1, <1>2, ToEffect, BuildFrame, Zenon DEF IInv

\* A step that leaves the root file alone.
LEMMA ScriptLeavesRoot ==
    ASSUME IInv, NEW s \in Shells, NEW step \in Steps, To(s, step),
           pc[s] \notin Copying, UNCHANGED rootVars
    PROVE  RootInv'
  BY ToEffect, RootFrame, Zenon DEF IInv

\* The steps that change neither trees, sources nor the root file.
LEMMA QuietKeeps ==
    ASSUME IInv, NEW s \in Shells, pc[s] \notin Downloads \cup Copying,
           NEW step \in Steps \ Downloads, To(s, step),
           step \in {"root"} \cup Rooting => InRoot(s),
           UNCHANGED <<installVars, tree, source, rootVars>>
    PROVE  IInv'
  <1> USE DEF IInv
  <1>1. TypeOK'
    BY ToEffect, Zenon DEF TypeOK, rootVars, installVars
  <1>2. source \in Nat /\ source >= source
    BY BuildBounds DEF TypeOK
  <1>3. BuildInv'
    BY <1>2, ScriptKeepsBuilds, Zenon
  <1> QED
    BY <1>1, <1>3, ScriptLeavesDownloads, ScriptLeavesRoot, Zenon

\* Loading the environment, looking for an executable, and running it.
LEMMA OtherStepsKeep ==
    ASSUME IInv, NEW s \in Shells,
           LoadYoctoEnv(s) \/ FindExecutable(s) \/ Check(s) \/ CoverageTarget(s)
    PROVE  IInv'
  <1> DEFINE Next4 == {"exit", "configure", "make", "target", "check"}
  <1>1. \E step \in Next4 : To(s, step)
    <2>1. AfterEnv(s) \in Next4
      BY Zenon DEF AfterEnv, BuildAfterEnv, CoverageAfterEnv, FormatAfterEnv, TestAfterEnv,
             ValgrindAfterEnv
    <2>2. CASE LoadYoctoEnv(s)
      BY <2>1, <2>2, Zenon DEF LoadYoctoEnv
    <2>3. CASE FindExecutable(s) \/ Check(s)
      BY <2>3, Zenon DEF FindExecutable, Check
    <2>4. CASE CoverageTarget(s)
      BY <2>4, Zenon DEF CoverageTarget, Target, AfterCommand
    <2> QED
      BY <2>2, <2>3, <2>4, Zenon
  <1>2. pc[s] \notin Downloads \cup Copying
    BY Zenon
       DEF LoadYoctoEnv, FindExecutable, Check, CoverageTarget, Target, Downloads, Copying
  <1>3. UNCHANGED <<installVars, tree, source, rootVars>>
    BY Zenon DEF LoadYoctoEnv, FindExecutable, Check, CoverageTarget, Target
  <1>4. Next4 \subseteq Steps \ Downloads /\ Next4 \cap ({"root"} \cup Rooting) = {}
    BY Zenon DEF Steps, Downloads, Rooting
  <1> QED
    BY <1>1, <1>2, <1>3, <1>4, QuietKeeps, Zenon

\* A configuration leaves the executables alone.
LEMMA ConfigureKeeps ==
    ASSUME IInv, NEW s \in Shells, Configure(s)
    PROVE  IInv'
  <1> USE DEF IInv
  <1>1. PICK ok \in BOOLEAN :
           /\ tree' = [tree EXCEPT ![job[s].preset] = Configured(@, ok, UsedDir(s))]
           /\ To(s, AfterCommand(ok, IF job[s].script = "format" THEN "target" ELSE "make"))
    BY Zenon DEF Configure
  <1>2. PICK step \in {"exit", "target", "make"} : To(s, step)
    BY <1>1, Zenon DEF AfterCommand
  <1>3. /\ pc[s] \notin Downloads \cup Copying /\ step \in Steps \ Downloads
        /\ step \notin {"root"} \cup Rooting
        /\ UNCHANGED <<installVars, source, rootVars>>
    BY Zenon DEF Configure, Downloads, Steps, Rooting, Copying
  <1>4. UsedDir(s) \in Locations
    BY SdkDirIsLocation, Zenon DEF UsedDir, Locations
  <1>5. tree' \in [Presets -> Trees] /\ \A p \in Presets : tree'[p].exe = tree[p].exe
    <2> DEFINE old == tree[job[s].preset]
               new == Configured(old, ok, UsedDir(s))
    <2>1. old \in Trees
      BY Zenon DEF TypeOK, JobRecords
    <2>2. new \in Trees /\ new.exe = old.exe
      BY <1>4, <2>1, Zenon DEF Trees, Configured
    <2>3. tree' = [tree EXCEPT ![job[s].preset] = new]
      BY <1>1, Zenon
    <2> HIDE DEF new
    <2> QED
      BY <2>2, <2>3, Zenon DEF TypeOK
  <1>6. TypeOK'
    BY <1>2, <1>3, <1>5, ToEffect, Zenon DEF TypeOK, rootVars, installVars
  <1>7. source \in Nat /\ source >= source
    BY BuildBounds DEF TypeOK
  <1>8. BuildInv'
    BY <1>2, <1>3, <1>5, <1>7, ScriptKeepsBuilds, Zenon
  <1> QED
    BY <1>2, <1>3, <1>6, <1>8, ScriptLeavesDownloads, ScriptLeavesRoot, Zenon

\* cmake --build: what build.py goes on with was linked from the present sources.
LEMMA MakeKeeps ==
    ASSUME IInv, NEW s \in Shells, Make(s)
    PROVE  IInv'
  <1> USE DEF IInv
  <1>1. PICK ok \in BOOLEAN, linked \in BOOLEAN :
           /\ ok => linked
           /\ tree' = IF linked THEN [tree EXCEPT ![job[s].preset].exe = source] ELSE tree
           /\ To(s, AfterCommand(ok, IF job[s].script = "build" THEN "root" ELSE "target"))
    BY Zenon DEF Make
  <1>2. PICK step \in {"exit", "root", "target"} : To(s, step) /\ (step = "root" => linked)
    BY <1>1, Zenon DEF AfterCommand
  <1>3. /\ pc[s] \notin Downloads \cup Copying
        /\ step \in Steps \ Downloads /\ step \notin Rooting
        /\ UNCHANGED <<installVars, source, rootVars>>
    BY Zenon DEF Make, Downloads, Steps, Rooting, Copying
  <1>4. job[s].preset \in Presets /\ source \in Nat /\ source \in 0 .. MaxSource
    BY BuildBounds DEF TypeOK, JobRecords
  <1>5. /\ tree' \in [Presets -> Trees]
        /\ \A p \in Presets : tree'[p].exe \in {tree[p].exe, source}
        /\ step = "root" => tree'[job[s].preset].exe = source
    BY <1>1, <1>2, <1>4, SMTT(60) DEF TypeOK, Trees
  <1>6. TypeOK'
    BY <1>2, <1>3, <1>5, ToEffect, Zenon DEF TypeOK, rootVars, installVars
  <1>7. BuildInv'
    BY <1>2, <1>3, <1>4, <1>5, ScriptKeepsBuilds
  <1> QED
    BY <1>2, <1>3, <1>6, <1>7, ScriptLeavesDownloads, ScriptLeavesRoot, Zenon

\* The format target may rewrite sources.
LEMMA FormatKeeps ==
    ASSUME IInv, NEW s \in Shells, FormatTarget(s)
    PROVE  IInv'
  <1> USE DEF IInv
  <1>1. To(s, "exit")
    BY Zenon DEF FormatTarget, Target, AfterCommand
  <1>2. /\ pc[s] \notin Downloads \cup Copying /\ "exit" \in Steps \ Downloads
        /\ "exit" \notin {"root"} \cup Rooting
        /\ UNCHANGED <<installVars, tree, rootVars>>
    BY Zenon DEF FormatTarget, Target, Downloads, Steps, Rooting, Copying
  <1>3. source' \in 1 .. MaxSource /\ source' \in Nat /\ source' >= source
    BY BuildBounds DEF FormatTarget, TypeOK
  <1>4. TypeOK'
    BY <1>1, <1>2, <1>3, ToEffect, Zenon DEF TypeOK, rootVars, installVars
  <1>5. BuildInv'
    BY <1>1, <1>2, <1>3, ScriptKeepsBuilds, Zenon
  <1> QED
    BY <1>1, <1>2, <1>4, <1>5, ScriptLeavesDownloads, ScriptLeavesRoot, Zenon

\* clean.py, and an rmtree that is cut short.
LEMMA CleanKeeps ==
    ASSUME IInv, NEW s \in Shells, Clean(s)
    PROVE  IInv'
  <1> USE DEF IInv
  <1>1. /\ To(s, "exit") /\ pc[s] \notin Downloads \cup Copying
        /\ "exit" \in Steps \ Downloads /\ "exit" \notin {"root"} \cup Rooting
        /\ UNCHANGED <<installVars, source, rootVars>>
    BY Zenon DEF Clean, Downloads, Steps, Rooting, Copying
  <1>2. NoTree \in Trees /\ NoTree.exe = 0
    BY BuildBounds DEF NoTree, Trees
  <1>3. \A t \in Trees : \A u \in Remains(t) : u \in Trees /\ u.exe \in {t.exe, 0}
    <2> SUFFICES ASSUME NEW t \in Trees, NEW u \in Remains(t)
                 PROVE  u \in Trees /\ u.exe \in {t.exe, 0}
      BY Zenon
    <2>1. u \in {t, NoTree} \/ u = [t EXCEPT !.conf = "none"]
             \/ u = [t EXCEPT !.conf = "none", !.exe = 0]
      BY Zenon DEF Remains
    <2> QED
      BY <1>2, <2>1, BuildBounds, ZenonT(20) DEF Trees
  <1>4. /\ tree' \in [Presets -> Trees]
        /\ \A p \in Presets : tree'[p].exe \in {tree[p].exe, 0}
    <2>1. CASE tree' = [p \in Presets |-> NoTree]
      BY <1>2, <2>1, Zenon
    <2>2. CASE \E t \in [Presets -> UNION {Remains(tree[p]) : p \in Presets}] :
                  /\ \A p \in Presets : t[p] \in Remains(tree[p])
                  /\ tree' = t
      <3>1. PICK t \in [Presets -> UNION {Remains(tree[p]) : p \in Presets}] :
                  /\ \A p \in Presets : t[p] \in Remains(tree[p])
                  /\ tree' = t
        BY <2>2, Zenon
      <3>2. \A p \in Presets : t[p] \in Trees /\ t[p].exe \in {tree[p].exe, 0}
        BY <1>3, <3>1, Zenon DEF TypeOK
      <3>3. t \in [Presets -> Trees]
        BY <3>2, Zenon
      <3> QED
        BY <3>1, <3>2, <3>3, Zenon
    <2> QED
      BY <2>1, <2>2, Zenon DEF Clean
  <1>5. TypeOK'
    BY <1>1, <1>4, ToEffect, Zenon DEF TypeOK, rootVars, installVars
  <1>6. source \in Nat /\ source >= source
    BY BuildBounds DEF TypeOK
  <1>7. BuildInv'
    BY <1>1, <1>4, <1>6, ScriptKeepsBuilds, Zenon
  <1> QED
    BY <1>1, <1>5, <1>7, ScriptLeavesDownloads, ScriptLeavesRoot, Zenon

\* The steps that replace the root file leave downloads and trees alone.
LEMMA RootStep ==
    ASSUME IInv, NEW s \in Shells, InRoot(s), NEW step \in Rooting \cup {"exit"}, To(s, step),
           UNCHANGED <<installVars, tree, source>>,
           root' \in Files, writers' \subseteq Shells, openers' \subseteq Presets,
           cut' \in BOOLEAN, RootInv'
    PROVE  IInv'
  <1> USE DEF IInv
  <1>1. pc[s] \notin Downloads /\ step \in Steps \ Downloads
    BY Zenon DEF InRoot, Downloads, Steps, Rooting
  <1>2. source \in Nat /\ source >= source
    BY BuildBounds DEF TypeOK
  <1>3. TypeOK'
    BY <1>1, ToEffect, Zenon DEF TypeOK, installVars
  <1> QED
    BY <1>1, <1>2, <1>3, ScriptLeavesDownloads, ScriptKeepsBuilds, Zenon

\* How a step of the root file moves on: nobody else's build.py does anything.
LEMMA RootTo ==
    ASSUME IInv, NEW s \in Shells, NEW step \in Rooting \cup {"exit"}, To(s, step)
    PROVE  /\ pc'[s] = step /\ (step # "exit" => job'[s] = job[s])
           /\ \A t \in Shells \ {s} : pc'[t] = pc[t] /\ job'[t] = job[t]
           /\ writers \subseteq Shells /\ job[s].preset \in Presets
  <1>1. step \in Steps
    BY Zenon DEF Steps, Rooting
  <1> QED
    BY <1>1, ToEffect, Zenon DEF IInv, TypeOK, JobRecords

\* build.py looks for the files.
LEMMA RootKeeps ==
    ASSUME IInv, NEW s \in Shells, Root(s)
    PROVE  IInv'
  <1>1. PICK step \in Rooting \cup {"exit"} : To(s, step)
    BY Zenon DEF Root, AfterRoot, Rooting
  <1>2. InRoot(s) /\ pc[s] \notin Copying /\ step \in Steps
    BY Zenon DEF Root, InRoot, Copying, Rooting, Steps
  <1>3. RootInv'
    BY <1>1, <1>2, ScriptLeavesRoot, Zenon DEF Root
  <1>4. UNCHANGED <<installVars, tree, source, root, writers, openers, cut>>
    BY Zenon DEF Root, rootVars
  <1> QED
    BY <1>1, <1>2, <1>3, <1>4, RootStep, Zenon DEF IInv, TypeOK

\* The old file is unlinked: those who have it open write in vain.
LEMMA UnlinkKeeps ==
    ASSUME IInv, NEW s \in Shells, Unlink(s)
    PROVE  IInv'
  <1>1. PICK step \in Rooting \cup {"exit"} : To(s, step)
    BY Zenon DEF Unlink, Rooting
  <1>2. InRoot(s) /\ UNCHANGED <<installVars, tree, source>>
    BY Zenon DEF Unlink, InRoot
  <1>3. /\ root' \in Files /\ writers' \subseteq Shells
        /\ openers' \subseteq Presets /\ cut' \in BOOLEAN
    BY Zenon DEF Unlink, NoFile, Files, Parts
  <1>4. RootInv'
    BY DEF Unlink, RootInv, NoFile
  <1> QED
    BY <1>1, <1>2, <1>3, <1>4, RootStep, Zenon

\* The file is opened: all of it is yet to be written by the one that opens it.
LEMMA CopyBeginsKeeps ==
    ASSUME IInv, NEW s \in Shells, CopyBegins(s)
    PROVE  IInv'
  <1>1. pc[s] = "copy" /\ InRoot(s) /\ UNCHANGED <<installVars, tree, source>>
    BY Zenon DEF CopyBegins, InRoot
  <1>2. CASE To(s, "exit") /\ UNCHANGED rootVars
    <2>1. pc[s] \notin Copying /\ "exit" \in Steps
      BY <1>1, Zenon DEF Copying, Steps
    <2>2. RootInv'
      BY <1>2, <2>1, ScriptLeavesRoot, Zenon
    <2>3. UNCHANGED <<root, writers, openers, cut>>
      BY <1>2, Zenon DEF rootVars
    <2> QED
      BY <1>1, <1>2, <2>2, <2>3, RootStep, Zenon DEF IInv, TypeOK
  <1>3. CASE /\ To(s, "copying")
             /\ root' = Truncated
             /\ writers' = writers \cup {s}
             /\ openers' = {job[t].preset : t \in writers'}
             /\ cut' = FALSE
    <2>1. "copying" \in Rooting
      BY Zenon DEF Rooting
    <2>2. /\ pc'[s] = "copying" /\ job'[s] = job[s]
          /\ \A t \in Shells \ {s} : pc'[t] = pc[t] /\ job'[t] = job[t]
          /\ writers \subseteq Shells
      BY <1>3, <2>1, RootTo, Zenon
    <2>3. \A t \in Shells : job[t].preset \in Presets
      BY Zenon DEF IInv, TypeOK, JobRecords
    <2>4. /\ root' \in Files /\ writers' \subseteq Shells
          /\ openers' \subseteq Presets /\ cut' \in BOOLEAN
      BY <1>3, <2>2, <2>3, Zenon DEF Truncated, Files, Parts
    <2>5. \A t \in writers' : pc'[t] \in Copying /\ job'[t].preset \in openers'
      BY <1>3, <2>2, Zenon DEF IInv, RootInv, Copying
    <2>6. root'.front = "missing" /\ root'.back = "missing" /\ s \in writers'
      BY <1>3, Zenon DEF Truncated
    <2>7. RootInv'
      BY <2>2, <2>5, <2>6, Zenon DEF RootInv
    <2> QED
      BY <1>1, <1>3, <2>1, <2>4, <2>7, RootStep, Zenon
  <1> QED
    BY <1>2, <1>3, Zenon DEF CopyBegins

\* A part is written: to the root file, or to one that is no longer there.
LEMMA CopyPartKeeps ==
    ASSUME IInv, NEW s \in Shells, CopyPart(s)
    PROVE  IInv'
  <1>1. /\ pc[s] = "copying" /\ InRoot(s) /\ To(s, "finishing")
        /\ UNCHANGED <<installVars, tree, source, writers, openers, cut>>
    BY Zenon DEF CopyPart, InRoot
  <1>2. "finishing" \in Rooting
    BY Zenon DEF Rooting
  <1>3. /\ pc'[s] = "finishing" /\ job'[s] = job[s]
        /\ \A t \in Shells \ {s} : pc'[t] = pc[t] /\ job'[t] = job[t]
        /\ writers \subseteq Shells /\ job[s].preset \in Presets /\ job[s].preset # "missing"
    BY <1>1, <1>2, RootTo, BuildBounds, Zenon
  <1>4. root \in Files
    BY Zenon DEF IInv, TypeOK
  <1>5. \A t \in writers : pc'[t] \in Copying /\ job'[t].preset \in openers
    BY <1>3, Zenon DEF IInv, RootInv, Copying
  <1>6. /\ root' \in Files /\ root'.there = root.there /\ root'.back = root.back
        /\ root'.front = IF s \in writers THEN job[s].preset ELSE root.front
    BY <1>3, <1>4, Zenon DEF CopyPart, CompileCmds, Files, Parts
  <1>7. root'.front \in openers \cup {"missing"}
    BY <1>6, Zenon DEF IInv, RootInv
  <1>8. root.there /\ ~cut /\ root'.front = "missing" => \E t \in writers : pc'[t] = "copying"
    BY <1>3, <1>6, Zenon DEF IInv, RootInv
  <1>9. RootInv'
    BY <1>1, <1>5, <1>6, <1>7, <1>8, Zenon DEF IInv, RootInv
  <1> QED
    BY <1>1, <1>2, <1>6, <1>9, RootStep, Zenon DEF IInv, TypeOK

LEMMA CopyEndsKeeps ==
    ASSUME IInv, NEW s \in Shells, CopyEnds(s)
    PROVE  IInv'
  <1>1. /\ pc[s] = "finishing" /\ InRoot(s) /\ To(s, "exit") /\ writers' = writers \ {s}
        /\ UNCHANGED <<installVars, tree, source, openers, cut>>
    BY Zenon DEF CopyEnds, InRoot
  <1>2. /\ \A t \in Shells \ {s} : pc'[t] = pc[t] /\ job'[t] = job[t]
        /\ writers \subseteq Shells /\ job[s].preset \in Presets /\ job[s].preset # "missing"
    BY <1>1, RootTo, BuildBounds, Zenon
  <1>3. root \in Files
    BY Zenon DEF IInv, TypeOK
  <1>4. \A t \in writers' : pc'[t] \in Copying /\ job'[t].preset \in openers
    BY <1>1, <1>2, Zenon DEF IInv, RootInv
  <1>5. /\ root' \in Files /\ root'.there = root.there /\ root'.front = root.front
        /\ root'.back = IF s \in writers THEN job[s].preset ELSE root.back
    BY <1>2, <1>3, Zenon DEF CopyEnds, CompileCmds, Files, Parts
  <1>6. root'.back \in openers \cup {"missing"}
    BY <1>5, Zenon DEF IInv, RootInv
  <1>7. root.there /\ ~cut /\ root.front = "missing" => \E t \in writers' : pc'[t] = "copying"
    <2>1. \A t \in writers : pc[t] = "copying" => t \in writers' /\ pc'[t] = pc[t]
      BY <1>1, <1>2
    <2> QED
      BY <2>1, Zenon DEF IInv, RootInv
  <1>8. root.there /\ ~cut /\ root'.back = "missing" => writers' # {}
    BY <1>1, <1>2, <1>5, Zenon DEF IInv, RootInv
  <1>9. RootInv'
    BY <1>1, <1>4, <1>5, <1>6, <1>7, <1>8, Zenon DEF IInv, RootInv
  <1> QED
    BY <1>1, <1>2, <1>5, <1>9, RootStep, Zenon DEF IInv, TypeOK

\* A kill leaves what was written, and is remembered when the file was open.
LEMMA KillKeeps ==
    ASSUME IInv, NEW s \in Shells, Kill(s)
    PROVE  IInv'
  <1>1. /\ InRoot(s) /\ To(s, "exit")
        /\ writers' = writers \ {s} /\ cut' = (cut \/ s \in writers)
        /\ UNCHANGED <<installVars, tree, source, root, openers>>
    BY Zenon DEF Kill
  <1>2. /\ \A t \in Shells \ {s} : pc'[t] = pc[t] /\ job'[t] = job[t]
        /\ writers \subseteq Shells
    BY <1>1, RootTo, Zenon
  <1>3. \A t \in writers' : pc'[t] = pc[t] /\ job'[t] = job[t] /\ t \in writers
    BY <1>1, <1>2, Zenon
  <1>4. ~cut' => ~cut /\ writers' = writers
    BY <1>1, Zenon
  <1>5. RootInv'
    BY <1>1, <1>3, <1>4, Zenon DEF IInv, RootInv
  <1>6. cut' \in BOOLEAN
    BY <1>1, Zenon
  <1> QED
    BY <1>1, <1>2, <1>5, <1>6, RootStep, Zenon DEF IInv, TypeOK

\* A script starts on the present sources.
LEMMA StartKeeps ==
    ASSUME IInv, NEW s \in Shells, NEW j \in Jobs, Start(s, j)
    PROVE  IInv'
  <1> USE DEF IInv
  <1>1. PICK step \in {"clean", "find", "env"} : GoTo(s, step)
    BY Zenon DEF Start
  <1>2. /\ pc[s] = "exit" /\ pc[s] \notin Downloads
        /\ step \in Steps \ Downloads /\ step \notin {"root"} \cup Rooting
        /\ pc[s] \notin Copying
        /\ UNCHANGED <<installVars, tree, source, rootVars>>
    BY Zenon DEF Start, Downloads, Steps, Rooting, Copying
  <1>3. [j EXCEPT !.since = source] \in JobRecords /\ [j EXCEPT !.since = source].since = source
    BY BuildBounds DEF Jobs, JobRecords, TypeOK
  <1>4. /\ pc' \in [Shells -> Steps] /\ pc'[s] = step
        /\ \A t \in Shells \ {s} : pc'[t] = pc[t]
    BY <1>1, <1>2, GoToEffect, Zenon
  <1>5. /\ job' \in [Shells -> JobRecords] /\ job'[s].since = source
        /\ \A t \in Shells \ {s} : job'[t] = job[t]
    BY <1>3, Zenon DEF Start, TypeOK
  <1>6. TypeOK'
    BY <1>2, <1>4, <1>5, Zenon DEF TypeOK, rootVars, installVars
  <1>7. DownloadInv'
    BY <1>2, <1>4, DownloadFrame, Zenon DEF installVars
  <1>8. BuildInv'
    <2>1. source' = source /\ source \in Nat /\ ~InRoot(s)'
      BY <1>2, <1>4, BuildBounds DEF TypeOK, InRoot, Rooting
    <2> QED
      BY <1>2, <1>4, <1>5, <2>1, BuildFrame
  <1>9. RootInv'
    BY <1>2, <1>4, <1>5, RootFrame, Zenon
  <1> QED
    BY <1>6, <1>7, <1>8, <1>9, Zenon

\* The developer's edits and the releases of others.
LEMMA OutsideKeeps ==
    ASSUME IInv, Edit \/ (ReleaseChanges /\ UNCHANGED buildVars)
    PROVE  IInv'
  <1> USE DEF IInv
  <1>1. UNCHANGED <<pc, job, tree, rootVars, installer, asset, sdk, shared>>
    BY Zenon DEF Edit, ReleaseChanges, buildVars, installVars
  <1>2. source' \in 1 .. MaxSource /\ source' >= source /\ source \in Nat
    BY BuildBounds DEF Edit, ReleaseChanges, buildVars, TypeOK
  <1>3. release' \in {None} \cup Commits /\ published' \subseteq Commits
    <2>1. CASE Edit
      BY <2>1, Zenon DEF Edit, installVars, TypeOK
    <2>2. CASE ReleaseChanges
      <3>1. release' \in {None} \cup Commits
        BY <2>2, Zenon DEF ReleaseChanges, Channel!Next, Channel!Withdraw, Channel!Publish,
                    Channel!NoRelease, None
      <3> QED
        BY <2>2, <3>1, Zenon DEF ReleaseChanges, TypeOK
    <2> QED
      BY <2>1, <2>2, Zenon
  <1>4. TypeOK'
    BY <1>1, <1>2, <1>3, Zenon DEF TypeOK, rootVars
  <1>5. DownloadInv' /\ RootInv'
    BY <1>1, Zenon DEF DownloadInv, RootInv, rootVars
  <1>6. BuildInv'
    <2>1. \A s \in Shells : job[s].since \in Nat
      BY BuildBounds DEF TypeOK, JobRecords
    <2> QED
      BY <1>1, <1>2, <2>1 DEF BuildInv, BuiltIsCurrent, InRoot, MyTree
  <1> QED
    BY <1>4, <1>5, <1>6, Zenon

\* Every step keeps the invariant.
LEMMA NextIInv == IInv /\ [Next]_vars => IInv'
  <1> SUFFICES ASSUME IInv, [Next]_vars PROVE IInv'
    BY Zenon
  <1>1. CASE Edit \/ (ReleaseChanges /\ UNCHANGED buildVars)
    BY <1>1, OutsideKeeps, Zenon
  <1>2. CASE RetryDownload
    BY <1>2, BuildBounds, StartDownloadKeeps, Zenon DEF RetryDownload, buildVars
  <1>3. CASE RetryBuild
    <2>1. ForcedBuild \in Jobs
      BY BuildBounds, Zenon DEF ForcedBuild, Jobs, Scripts
    <2> QED
      BY <1>3, <2>1, BuildBounds, StartKeeps, Zenon DEF RetryBuild
  <1>4. ASSUME NEW s \in Shells, Run(s) PROVE IInv'
    BY <1>4, StartKeeps, StartDownloadKeeps, Zenon DEF Run
  <1>5. ASSUME NEW s \in Shells, DownloadStep(s), UNCHANGED buildVars PROVE IInv'
    BY <1>5, FetchBeginsKeeps, FetchEndsKeeps, InstallKeeps, Zenon DEF DownloadStep, buildVars
  <1>6. ASSUME NEW s \in Shells, Step(s) \/ Kill(s) PROVE IInv'
    BY <1>5, <1>6, OtherStepsKeep, ConfigureKeeps, MakeKeeps, FormatKeeps, CleanKeeps, RootKeeps,
       UnlinkKeeps, CopyBeginsKeeps, CopyPartKeeps, CopyEndsKeeps, KillKeeps, Zenon
       DEF Step
  <1>7. CASE UNCHANGED vars
    BY <1>7, Zenon
       DEF vars, installVars, buildVars, IInv, TypeOK, DownloadInv, BuildInv, BuiltIsCurrent,
                InRoot, MyTree, RootInv, rootVars
  <1> QED
    BY <1>1, <1>2, <1>3, <1>4, <1>6, <1>7, Zenon DEF Next

\* The invariant holds in every reachable state.
LEMMA Invariance == Spec => []IInv
  BY InitIInv, NextIInv, PTL DEF Spec

\* Scripts, installers, SDKs and build trees keep their types, whatever the
\* shells run at the same time.
THEOREM TypeCorrect == Spec => []TypeOK
  <1>1. IInv => TypeOK
    BY Zenon DEF IInv
  <1> QED
    BY <1>1, Invariance, PTL

\* download_sdk.py runs an installer that is not whole only when two downloads
\* overlap, however downloads are cut short while releases come and go.
THEOREM WholeInstallers == Spec => []OnlyWholeInstallersRun
  <1>1. IInv => OnlyWholeInstallersRun
    BY Zenon DEF IInv, DownloadInv, OnlyWholeInstallersRun
  <1> QED
    BY <1>1, Invariance, PTL

\* When build.py reports success, its executables are no older than its start,
\* or have been removed again.
THEOREM BuildsAreCurrent == Spec => []BuiltIsCurrent
  <1>1. IInv => BuiltIsCurrent
    BY Zenon DEF IInv, BuildInv
  <1> QED
    BY <1>1, Invariance, PTL

\* In whatever order builds find, unlink, truncate and write the root
\* compile_commands.json, no part of it is missing once none of them has it open,
\* and every part is from a build that had it open last, unless one was killed
\* while it wrote (build.py).
THEOREM RootFileIsWhole == Spec => []RootIsWhole
  <1>1. IInv => RootIsWhole
    BY DEF IInv, RootInv, RootIsWhole
  <1> QED
    BY <1>1, Invariance, PTL
=============================================================================
