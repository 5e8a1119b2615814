-------------------------- MODULE MCNamedSessions --------------------------
(* Instances of NamedSessions for TLC. *)
EXTENDS NamedSessions, TLC

\* Clients are interchangeable.
Sym == Permutations(Client)
=============================================================================
