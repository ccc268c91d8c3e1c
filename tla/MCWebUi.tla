------------------------------ MODULE MCWebUi ------------------------------
(***************************************************************************)
(* Instances of WebUi for TLC: the rows of the longest window come to      *)
(* exceed the row limit; those of the middle one just reach it.            *)
(***************************************************************************)
EXTENDS WebUi

SlotsPerWindow == [h \in Windows |-> CASE h = 1 -> 1 [] h = 24 -> 2 [] h = 72 -> 3]
=============================================================================
