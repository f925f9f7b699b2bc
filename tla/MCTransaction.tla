--------------------------- MODULE MCTransaction ---------------------------
(* The transaction engine on small sets of views, containers and geometries. *)
EXTENDS Transaction

CONSTANTS small, large, moved

\* Geometries small and large differ in size, small and moved in position only.
MCSizeOf == [b \in States |-> CASE b = Unset -> 0
                                [] b = large -> 2
                                [] OTHER -> 1]
=============================================================================
