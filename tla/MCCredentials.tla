---------------------------- MODULE MCCredentials ----------------------------
(* The instance of Credentials that TLC checks. *)
EXTENDS Credentials, TLC

(* Agents and sets of authorities are told apart by equality only. *)
Symmetry == Permutations(Agents) \cup Permutations(Sets)
=============================================================================
