---------------------------- MODULE AddressSpace ----------------------------
(***************************************************************************)
(* Addresses are unsigned words of Width bits; Width is 32 in the code.    *)
(***************************************************************************)
EXTENDS Naturals

CONSTANT Width   \* bits of an address

ASSUME WidthAssumption == Width \in Nat

Words == 2^Width   \* where a word wraps to 0
Address == 0 .. Words - 1
=============================================================================
