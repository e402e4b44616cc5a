--------------------------- MODULE MCScriptVersions ---------------------------
(***************************************************************************)
(* The scripts of MCMesiboJsProcessor for the instances with a history.    *)
(***************************************************************************)
EXTENDS MCMesiboJsProcessor, ScriptVersions

\* Bound: a file whose changes share a time may change without end
MaxVersions == 3
FewVersions == Len(saved) <= MaxVersions
=============================================================================
