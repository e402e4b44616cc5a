--------------------------- MODULE MCMesiboJsSocket ---------------------------
(***************************************************************************)
(* A small instance of MesiboJsSocket: two objects, two contexts, and the  *)
(* numbers around zero.                                                    *)
(***************************************************************************)
EXTENDS MesiboJsSocket

MCInt32 == -1 .. 1
=============================================================================
