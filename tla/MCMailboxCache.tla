-------------------------- MODULE MCMailboxCache --------------------------
(* Finite values for the constants of MailboxCache. *)
EXTENDS MailboxCache
=============================================================================
