-------------------------- MODULE MCMesiboJsMessage --------------------------
(***************************************************************************)
(* The numbers of the small instances of MesiboJsMessage: bits 0, 1, 3 and *)
(* 31 of 32, and bit 32; an event that has them in several places, and one *)
(* whose id is a multiple of 2^32.                                         *)
(***************************************************************************)
EXTENDS MesiboJsMessage

MCLowBits == {0, 1, 3, 31}
MCBits    == MCLowBits \cup {32}

MCEventNumbers ==
    {[k \in NumberKeys |->
        CASE k = "aid" -> {0} [] k = "id" -> {1, 32} [] k = "flags" -> {31}
          [] k = "to_online" -> {} [] OTHER -> {3, 32}],
     [k \in NumberKeys |-> IF k = "aid" THEN {0} ELSE {32}]}

MCOne      == {0}
MCDelivery == {0}
MCRead     == {1}
MCPresence == {3}

MCEventNames == {[k \in NameKeys |-> IF k = "to" THEN "bot" ELSE "user"]}

MCScriptNumbers ==
    [k \in NumberKeys |->
        CASE k = "aid" -> {{1}} [] k = "id" -> {NotUint32} [] k = "refid" -> {NotUint32, {1}}
          [] k = "flags" -> {NotUint32, {1}} [] OTHER -> {}]
=============================================================================
