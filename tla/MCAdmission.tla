---------------------------- MODULE MCAdmission ----------------------------
(* Instances of Admission for TLC. *)
EXTENDS Admission, TLC

CONSTANTS api, web, OURS, THEIRS

Signers == {OURS, THEIRS}
MCPins == {[signer |-> o, repo |-> o] : o \in Signers}
MCPayloads == [signer : Signers, repo : Signers]

MCSymmetry == Permutations(Names) \cup Permutations(Signers)
====
