------------------------------- MODULE Varint -------------------------------
(***************************************************************************)
(* The variable-length integers that prefix every MCS message              *)
(* (UtilFunction.h).  The number of values one varint digit takes is a     *)
(* parameter: the code's digits are 7 bits (Base = 128), and a small Base  *)
(* gives short streams every varint length.                                *)
(***************************************************************************)
EXTENDS Integers, Sequences

CONSTANTS Base,       (* 0x80: a byte of at least this value continues     *)
          SizeModulus (* 2^32: the decoded value is a uint32_t             *)

ASSUME VarintAssumption == /\ Base \in Nat \ {0, 1}
                           /\ SizeModulus \in Nat \ {0, 1}

(* byte & 0x80, and byte & 0x7F.                                           *)
Continues(byte) == byte >= Base
Digit(byte)     == byte % Base

(* The values of a uint32_t.                                               *)
Uint32 == 0 .. SizeModulus - 1

(* 2^31: an int of the same width holds what is smaller.                   *)
IntLimit == SizeModulus \div 2

(* The digits of value, least significant first, all but the last marked. *)
EncodeVarint32[value \in Uint32] ==
  IF value >= Base THEN <<(value % Base) + Base>> \o EncodeVarint32[value \div Base]
                   ELSE <<value>>

(***************************************************************************)
(* Decoding the bytes at positions from+1 .. to.  It fails when no byte    *)
(* among them ends the varint; otherwise it stops at the first that does.  *)
(***************************************************************************)
VarintComplete(bytes, from, to) == \E e \in from+1 .. to : ~Continues(bytes[e])

VarintEnd(bytes, from, to) ==
  CHOOSE e \in from+1 .. to : /\ ~Continues(bytes[e])
                              /\ \A i \in from+1 .. e-1 : Continues(bytes[i])

(* Each digit is shifted into a uint32_t, which drops what does not fit.   *)
VarintValue(bytes, from, end) ==
  LET shifted[i \in from .. end] ==
        IF i = end THEN 0 ELSE Digit(bytes[i+1]) + Base * shifted[i+1]
  IN  shifted[from] % SizeModulus
=============================================================================
