----------------------------- MODULE MCRegistry ------------------------------
(* Instance of RegistryClient for TLC: two uploads compete for one version. *)
EXTENDS RegistryClient, TLC

CONSTANTS v1

MCVerOf == [p \in Publisher |-> v1]
Perms == Permutations(Publisher) \union Permutations(Client)
==============================================================================
