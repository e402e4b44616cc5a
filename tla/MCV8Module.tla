------------------------------ MODULE MCV8Module ------------------------------
(***************************************************************************)
(* Scripts for the small instances of V8Module: one that sets onmessage,    *)
(* one that does not, and one that throws.                                 *)
(***************************************************************************)
EXTENDS V8Module, TLC

MCScripts == {"bot", "deaf", "throws"}

MCCompleting == {"bot", "deaf"}

MCListening == {"bot", "throws"}

ActorSymmetry == Permutations(Threads) \cup Permutations(Requests)
=============================================================================
