------------------------------ MODULE MCPurchase ------------------------------
(* ShakedexPurchase on a node with both indexes, and on one with none.     *)
EXTENDS ShakedexPurchase

FullNode == {{"tx", "address"}}

MCNodes == FullNode \cup {{}}
=============================================================================
