--------------------------- MODULE MCInvitationMail ---------------------------
(* Small instances of invitations and their mails: nobody logs in.          *)
EXTENDS InvitationMail, TLC

\* Nobody logs in while the mails are looked at.
NoIdentity == {}
=============================================================================
