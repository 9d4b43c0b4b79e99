--------------------------- MODULE MCMailDelivery ---------------------------
(* Small instances of MailDelivery for TLC. *)
EXTENDS MailDelivery, TLC

\* Conversations are interchangeable: no action tells one from another.
Symmetry == Permutations(Thread)
=============================================================================
