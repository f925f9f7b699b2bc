------------------------- MODULE MCWorkspaceSwitch -------------------------
(* Workspace switches on one output with a few workspaces and windows. *)
EXTENDS WorkspaceSwitch

CONSTANTS w1, w2, w3, a, b, f

\* Window a lives on the first workspace, every other one on the second.
MCHomeOf == [x \in Windows |-> IF x = a THEN w1 ELSE w2]
=============================================================================
