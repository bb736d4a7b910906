----------------------------- MODULE MCSessions -----------------------------
(***************************************************************************)
(* Instances of Sessions for TLC: all tokens and codes are drawn for one   *)
(* user, but a guest's token if there is one.                              *)
(***************************************************************************)
EXTENDS Sessions, TLC

CONSTANTS someone, somebody, guest

MCAddresses == {someone} \cup IF guest \in Tokens THEN {somebody} ELSE {}
MCTokenOwner == [t \in Tokens |-> IF t = guest THEN somebody ELSE someone]
MCCodeOwner == [c \in Codes |-> someone]

\* Only for instances without a guest.
Symmetry == Permutations(Workers) \cup Permutations(Tokens) \cup Permutations(Codes)
=============================================================================
