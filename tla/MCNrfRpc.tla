------------------------------ MODULE MCNrfRpc ------------------------------
(* Two peers: who has application threads, and how large the pools are. *)
EXTENDS NrfRpc, TLC

CONSTANTS A, B, appA, appA2, appB, poolA, poolB, poolB2

MCPeers   == {A, B}
BothCall  == (A :> {appA}) @@ (B :> {appB})
OnlyACalls == (A :> {appA}) @@ (B :> {})
TwoOfACall == (A :> {appA, appA2}) @@ (B :> {appB})
OnePool   == (A :> {poolA}) @@ (B :> {poolB})
TwoPoolB  == (A :> {poolA}) @@ (B :> {poolB, poolB2})
=============================================================================
