---------------------------- MODULE MCGraphStore ----------------------------
(* Small instances of GraphStore.                                          *)
EXTENDS GraphStore, TLC

CONSTANTS a, b, c \* names

Nothing == <<>>
OneNode == <<a>>
TwoNodes == <<a, b>>
ThreeNodes == <<a, b, c>>

(* Names are only compared: those of the nodes still to be added may be    *)
(* exchanged.                                                              *)
NameSymmetry == Permutations({n \in Names : \A i \in DOMAIN Loaded : Loaded[i] # n})
=============================================================================
