----------------------------- MODULE MesiboJsUtil -----------------------------
(***************************************************************************)
(* The conversions of numbers between C and JavaScript.  A number is the   *)
(* set of its one bits: narrowing is an intersection, `|` is a union, and  *)
(* the -1 that stands for an error has all bits.                           *)
(***************************************************************************)
CONSTANTS
    Bits,         \* the bits of a mesibo_uint_t
    LowBits,      \* the bits of a uint32_t
    SignBit,      \* the bit that a number above INT_MAX has
    Null,         \* v8::Null, v8::Undefined and the NULL of C
    NotUint32     \* any other value that is no unsigned 32-bit number

ASSUME NumberAssumption ==
    /\ LowBits \subseteq Bits
    /\ SignBit \in LowBits
    /\ \A n \in SUBSET Bits : n # Null /\ n # NotUint32
    /\ Null # NotUint32

CNumbers  == SUBSET Bits
JSNumbers == SUBSET LowBits
JSValues  == {Null, NotUint32} \cup JSNumbers

\* JtoC_Uint returns -1 for a value that is no Uint32
JtoC_Uint(v) == IF v = NotUint32 THEN Bits ELSE v

\* Mutant: IsInt32 instead of IsUint32
JtoC_ParamUintMutant(v) ==
    IF v = Null THEN {}
    ELSE IF v = NotUint32 \/ SignBit \in v THEN Bits ELSE v

\* Mutant: null and undefined are not told from other values
JtoC_ParamUintNull(v) == IF v \in {Null, NotUint32} THEN Bits ELSE v

\* A property that is missing or null counts as 0
JtoC_ParamUint(v) == IF v = Null THEN {} ELSE JtoC_Uint(v)

\* Mutant: the number is not cast to uint32_t
CtoJ_UintMutant(n) == n

\* NewFromUnsigned of the low 32 bits
CtoJ_Uint(n) == n \cap LowBits
=============================================================================
