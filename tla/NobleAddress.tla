------------------------------ MODULE NobleAddress ----------------------------
(***************************************************************************)
(* Noble addresses as CCTP carries them (src/utils/address.ts): the bytes  *)
(* of the address at the end of a wider word.  The text of an address      *)
(* (bech32) and of a word (hexadecimal) stands for its bytes.              *)
(***************************************************************************)
EXTENDS Integers

CONSTANTS Byte,
          Size, \* bytes of a Noble address: 20
          Width \* bytes of a mintRecipient: 32

ASSUME NobleAddressAssumption ==
    /\ 0 \in Byte
    /\ Size \in Nat
    /\ Width \in Nat
    /\ Size <= Width

Addresses == [1..Size -> Byte]
Encoded   == [1..Width -> Byte]

\* encode.
Encode(address) ==
    [i \in 1..Width |-> IF i <= Width - Size THEN 0 ELSE address[i - (Width - Size)]]

\* decodeToNoble: whatever comes before the last bytes is ignored.
DecodeToNoble(encoded) == [i \in 1..Size |-> encoded[i + (Width - Size)]]

=============================================================================
