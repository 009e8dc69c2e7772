------------------------ MODULE MCMailboxDefaults ------------------------
(***************************************************************************)
(* Small instances of MailboxDefaults for TLC: two requests at once on up  *)
(* to three mailboxes.                                                     *)
(***************************************************************************)
EXTENDS MailboxDefaults, TLC

CONSTANTS h1, h2

HandlerSymmetry == Permutations(Handlers)
============================================================================
