------------------------- MODULE MCMesiboJsProcessor -------------------------
(***************************************************************************)
(* The scripts of the small instances of MesiboJsProcessor: the empty file, *)
(* two scripts with different listeners, and one that sets a listener and   *)
(* then throws.                                                            *)
(***************************************************************************)
EXTENDS MesiboJsProcessor, TLC

MCScripts == {"empty", "old", "new", "throws"}

MCCompleting == {"empty", "old", "new"}

MCDefines ==
    [s \in MCScripts |->
        CASE s = "empty"  -> {}
          [] s = "old"    -> {"onmessage", "onmessagestatus"}
          [] s = "new"    -> {"onmessage", "onlogin"}
          [] s = "throws" -> {"onmessagestatus"}]

ThreadSymmetry == Permutations(Threads)
=============================================================================
