----------------------------- MODULE SdkInstall -----------------------------
(***************************************************************************)
(* scripts/download_sdk.py and the environment handling of                 *)
(* scripts/utils.py: how a developer's machine, or a CI runner, gets the   *)
(* SDK that is published under sdk-latest, and finds it again.             *)
(*                                                                         *)
(* Shells are the terminals (or CI steps) that run scripts in one          *)
(* checkout.  An SDK lies in a location: the default one beside the        *)
(* checkout, or one that YOCTO_SDK_DIR names, exported by the shell or     *)
(* written in .env.  Nothing locks the download directory, which all       *)
(* shells share: downloads may overlap.                                    *)
(***************************************************************************)
EXTENDS Integers, RunCommand

CONSTANTS
    Shells,
    Exported,      \* [Shells -> Locations or "unset"]: YOCTO_SDK_DIR in the shell
    DotEnv,        \* the same in .env
    MaxCommit,     \* bound: SDKs that are published, each once
    MaxFaults      \* bound: commands that fail or are killed

VARIABLES
    release,       \* the SDK under sdk-latest, 0 when there is none
    published,     \* the SDKs that were under it
    pc,            \* per shell: the step its script is about to do
    installer,     \* the file in the download directory
    asset,         \* per shell: the SDK that gh is downloading
    sdk,           \* per location: what is installed there
    shared,        \* two downloads under way have been in the directory together
    faults

installVars == <<release, published, installer, asset, sdk, shared>>

Locations == {"default", "other"}
Commits == 1 .. MaxCommit
None == 0
Torn == -1         \* cut short: a file, or an SDK with its environment-setup script
Bare == -2         \* an SDK cut short before that script was there

ASSUME InstallBounds ==
    /\ MaxCommit \in Nat \ {0} /\ MaxFaults \in Nat
    /\ Exported \in [Shells -> Locations \cup {"unset"}]
    /\ DotEnv \in Locations \cup {"unset"}

InstallInit ==
    /\ release = None
    /\ published = {}
    /\ installer = None
    /\ asset = [s \in Shells |-> None]
    /\ sdk = [d \in Locations |-> None]
    /\ shared = FALSE

Fault == faults < MaxFaults /\ faults' = faults + 1

GoTo(s, step) == pc' = [pc EXCEPT ![s] = step]

-----------------------------------------------------------------------------
Channel == INSTANCE SdkChannel

\* The publishing side, as far as this machine can tell.
ReleaseChanges ==
    /\ Channel!Next
    /\ release' \notin published
    /\ published' = published \cup ({release'} \ {None})
    /\ UNCHANGED <<pc, installer, asset, sdk, shared, faults>>

\* YOCTO_SDK_DIR after load_dotenv, which sets only variables the shell does
\* not export; download_sdk.py and load_yocto_env share the default.
YoctoSdkDir(s) ==
    IF Exported[s] # "unset" THEN Exported[s]
    ELSE IF DotEnv # "unset" THEN DotEnv ELSE "default"

HasSetup(d) == sdk[d] \notin {None, Bare}

-----------------------------------------------------------------------------
(* download_sdk.py *)

Downloading(s) == pc[s] \in {"fetch", "fetching", "install", "installing"}

\* Mutant: an installer that is already there is not downloaded again.
FirstFetch_Cached == IF installer = None THEN "fetch" ELSE "install"

FirstFetch == "fetch"

\* The old installers are removed, also one that another shell is writing or
\* running.
StartDownload(s) ==
    /\ pc[s] = "exit"
    /\ shared' = \E t \in Shells : Downloading(t)
    /\ GoTo(s, FirstFetch)
    /\ installer' = IF FirstFetch = "fetch" THEN None ELSE installer
    /\ UNCHANGED <<release, published, asset, sdk, faults>>

\* The download of s goes on, or is over: the last one to end leaves the
\* directory to itself.
DownloadTo(s, step) ==
    /\ GoTo(s, step)
    /\ shared' = (shared /\ (step # "exit" \/ \E t \in Shells \ {s} : Downloading(t)))

\* gh release download finds the asset of the release, or fails.
FetchBegins(s) ==
    /\ pc[s] = "fetch"
    /\ IF release = None
       THEN DownloadTo(s, AfterCommand(FALSE, "install")) /\ UNCHANGED <<installer, asset>>
       ELSE /\ DownloadTo(s, "fetching")
            /\ installer' = Torn
            /\ asset' = [asset EXCEPT ![s] = release]
    /\ UNCHANGED <<release, published, sdk, faults>>

\* The file is whole at the end, unless another download removed it or wrote to
\* it; a failure leaves what was written, and may come from the release being
\* withdrawn meanwhile.
FetchEnds(s) ==
    /\ pc[s] = "fetching"
    /\ \E ok \in BOOLEAN :
         /\ IF ~ok /\ release = asset[s] THEN Fault ELSE UNCHANGED faults
         /\ installer' \in IF ~ok THEN {installer}
                           ELSE IF shared THEN {installer, Torn, asset[s]} ELSE {asset[s]}
         /\ DownloadTo(s, AfterCommand(ok, "install"))
    /\ asset' = [asset EXCEPT ![s] = None]
    /\ UNCHANGED <<release, published, sdk>>

\* The newest installer, if there is one, starts to unpack over what the
\* location holds.
InstallBegins(s) ==
    /\ pc[s] = "install"
    /\ LET d == YoctoSdkDir(s) IN
       IF installer = None
       THEN DownloadTo(s, "exit") /\ UNCHANGED sdk
       ELSE /\ DownloadTo(s, "installing")
            /\ \E now \in IF HasSetup(d) THEN {Torn} ELSE {Torn, Bare} :
                   sdk' = [sdk EXCEPT ![d] = now]
    /\ UNCHANGED <<release, published, installer, asset, faults>>

\* A torn installer fails.  One that another download replaces while it runs may
\* do anything.
InstallEnds(s) ==
    /\ pc[s] = "installing"
    /\ \E ok \in BOOLEAN :
         /\ ok => shared \/ installer # Torn
         /\ IF ~ok /\ ~shared /\ installer # Torn THEN Fault ELSE UNCHANGED faults
         /\ \E now \in IF ~ok THEN {sdk[YoctoSdkDir(s)]}
                      ELSE IF shared THEN {Torn} \cup published ELSE {installer} :
                sdk' = [sdk EXCEPT ![YoctoSdkDir(s)] = now]
         /\ DownloadTo(s, AfterCommand(ok, "exit"))
    /\ UNCHANGED <<release, published, installer, asset>>

DownloadStep(s) ==
    FetchBegins(s) \/ FetchEnds(s) \/ InstallBegins(s) \/ InstallEnds(s)

-----------------------------------------------------------------------------
\* However downloads are cut short and repeated while releases come and go,
\* download_sdk.py runs an installer that is not whole only when two downloads
\* overlap; once they have ended, the next one starts afresh.
OnlyWholeInstallersRun ==
    \A s \in Shells : pc[s] = "installing" /\ ~shared => installer \in Commits

=============================================================================
