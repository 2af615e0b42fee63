----------------------------- MODULE SdkChannel -----------------------------
(***************************************************************************)
(* What the tag sdk-latest promises to those who download from it: at any  *)
(* time it names no release, or the whole SDK of one commit, and one       *)
(* release is withdrawn before the next is published.  SdkPublish          *)
(* implements this; SdkInstall takes it as its environment.                *)
(***************************************************************************)
CONSTANT Commits
VARIABLE release

NoRelease == 0

Init == release = NoRelease

Publish(c) == release = NoRelease /\ release' = c

Withdraw == release # NoRelease /\ release' = NoRelease

Next == Withdraw \/ \E c \in Commits : Publish(c)

Spec == Init /\ [][Next]_release

=============================================================================
