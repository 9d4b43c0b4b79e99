----------------------------- MODULE MCMailScan -----------------------------
(* Small instances of MailScan for TLC. *)
EXTENDS MailScan
=============================================================================
