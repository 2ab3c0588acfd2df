------------------------------ MODULE MCPatchVirt ------------------------------
(***************************************************************************)
(* The version that the harness is for, and ones in which one of the       *)
(* anchors has changed.                                                    *)
(***************************************************************************)
EXTENDS PatchVirt

MCUpstreams == {Pieces} \cup {Pieces \ {p} : p \in Pieces \ {"config"}}
=============================================================================
