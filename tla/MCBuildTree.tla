----------------------------- MODULE MCBuildTree -----------------------------
(* Two shells, one of which exports its own SDK location and has sourced      *)
(* bc-env.sh, two presets, two SDKs released, and one run beside the retries. *)
EXTENDS BuildTree

MCShells == {"dev", "second"}
MCExported == [s \in MCShells |-> IF s = "dev" THEN "unset" ELSE "other"]
MCSourced == {"second"}
MCPresets == {Debug, Coverage}

=============================================================================
