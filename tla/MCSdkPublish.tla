---------------------------- MODULE MCSdkPublish ----------------------------
(* Two workspaces, two commits, and two commands that fail. *)
EXTENDS SdkPublish

MCWorkspaces == {"runner", "maintainer"}
MCPrepared == {"maintainer"}

=============================================================================
