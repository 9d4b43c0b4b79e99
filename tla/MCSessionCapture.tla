-------------------------- MODULE MCSessionCapture --------------------------
(* Small instances of SessionCapture for TLC. *)
EXTENDS SessionCapture, TLC

\* Terminals, sessions and servers are interchangeable.
Symmetry == Permutations(Cli) \cup Permutations(Session) \cup Permutations(Server)
=============================================================================
