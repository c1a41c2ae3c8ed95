---------------------------- MODULE InvitationMail ----------------------------
(***************************************************************************)
(* Invitations and their mails: Accounts composed with EmailQueue.         *)
(* InvitationService.create commits the invitation, puts its mail on the   *)
(* queue and saves notificationSent; the workers of SmtpEmailHandler take  *)
(* the mail from there whatever the request does next.                     *)
(***************************************************************************)
EXTENDS Accounts

CONSTANTS Mailers, SendEnabled, MaxStalls

ASSUME MailAssumption ==
    /\ None \notin Invitations \cup Mailers
    /\ SendEnabled \in BOOLEAN /\ MaxStalls \in Nat

VARIABLES mailJob, holder, stalls, rows, dated, delivered, mpc, mmail

mailVars == <<mailJob, holder, stalls, rows, dated, delivered, mpc, mmail>>

Mail == INSTANCE EmailQueue WITH Mails <- Invitations

MailedInit == Init /\ Mail!MailInit

\* A step of a request or of an owner; the one that fills `queued` adds a job.
AccountStep ==
    /\ Next
    /\ \/ queued' = queued /\ UNCHANGED mailVars
       \/ \E i \in queued' \ queued : Mail!SendMail(i)

MailedNext == AccountStep \/ (Mail!MailNext /\ UNCHANGED vars)

\* BullMQ hands waiting mails to idle workers, and a worker that is in process()
\* gets through an await in the end, or fails, or loses the job.
MailFairness ==
    /\ WF_<<vars, mailVars>>(UNCHANGED vars
          /\ \E w \in Mailers, m \in Invitations : Mail!StartMail(w, m))
    /\ \A w \in Mailers :
          WF_<<vars, mailVars>>(UNCHANGED vars /\ Mail!MailerStep(w))

MailedSpec ==
    MailedInit /\ [][MailedNext]_<<vars, mailVars>> /\ MailFairness

-----------------------------------------------------------------------------
MailedTypeOK == TypeOK /\ Mail!MailTypeOK

\* A mail goes out a second time only if its job's lock was lost, and a row
\* with a sentDate stands for a mail that went out (SmtpEmailHandler.process).
MailedOnce == Mail!MailedOnce

\* Where sending is enabled, an invitation whose create succeeded is mailed in
\* the end, or its mail is given up: no request that dies and no worker that
\* stalls loses it silently.  Where it is not, notificationSent is saved all the
\* same and no mail goes out (SmtpEmailHandler.process).
NotifiedIsMailed ==
    \A i \in Invitations :
        i \in notified /\ SendEnabled ~> Mail!Sent(i) \/ Mail!GivenUp(i)
=============================================================================
