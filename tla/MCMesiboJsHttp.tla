---------------------------- MODULE MCMesiboJsHttp ----------------------------
(***************************************************************************)
(* Texts for the small instance of MesiboJsHttp.  The byte "c3" begins a    *)
(* character of two bytes; nothing here ends one.                          *)
(***************************************************************************)
EXTENDS MesiboJsHttp

\* One type is shorter than the field, one fills it, and one is longer
MCContentTypes == {<<"a">>, <<"a", "a">>, <<"c3", "c3", "a">>}

MCParts == {<<"c3">>, <<"0", "a">>}

\* V8 replaces what is no UTF-8 by the character U+FFFD
MCNewFromUtf8(s) == [i \in DOMAIN s |-> IF s[i] = "c3" THEN "U+FFFD" ELSE s[i]]

MCStrings == UNION {[1 .. n -> {"0", "a", "U+FFFD"}] : n \in 0 .. MemoryLen}
=============================================================================
