------------------------------ MODULE EmailQueue ------------------------------
(***************************************************************************)
(* The outgoing mail of src/src/smtp-email-client: SmtpEmailClient puts a  *)
(* mail on the BullMQ queue "smtp-emails" and SmtpEmailHandler saves it as *)
(* a row, sends it and writes its sentDate.                                *)
(*                                                                         *)
(* A job has one attempt: one that throws has failed.  A job whose worker  *)
(* dies or loses its lock is run again from the start (MaxStalls).  Its    *)
(* data carries no id, so every run inserts a row of its own.              *)
(***************************************************************************)
EXTENDS Naturals

CONSTANTS
    Mails,        \* mails that may be queued
    Mailers,      \* workers of the queue
    None,         \* no mail
    SendEnabled,  \* isEmailSyncSendEnabled
    MaxStalls     \* BullMQ's maxStalledCount, 1 by default

VARIABLES
    mailJob,    \* state of each mail's job
    holder,     \* the worker whose lock the job is under
    stalls,     \* how often that lock was lost
    rows,       \* Email rows inserted for it
    dated,      \* and how many of them have a sentDate
    delivered,  \* times the mail server accepted it
    mpc,        \* where each worker is in process()
    mmail       \* the mail it handles

queue == <<mailJob, holder, stalls>>
table == <<rows, dated>>
crew  == <<mpc, mmail>>
mailVars == <<queue, table, delivered, crew>>

MailStatus == {"absent", "waiting", "active", "completed", "failed"}
MailerPc   == {"idle", "save", "send", "date"}

MailTypeOK ==
    /\ mailJob \in [Mails -> MailStatus]
    /\ holder \in [Mails -> Mailers \cup {None}]
    /\ stalls \in [Mails -> 0..MaxStalls]
    /\ rows \in [Mails -> 0..(MaxStalls + 1)]
    /\ dated \in [Mails -> 0..(MaxStalls + 1)]
    /\ delivered \in [Mails -> 0..(MaxStalls + 1)]
    /\ mpc \in [Mailers -> MailerPc]
    /\ mmail \in [Mailers -> Mails \cup {None}]
    /\ \A w \in Mailers : mpc[w] # "idle" <=> mmail[w] # None

MailInit ==
    /\ mailJob = [m \in Mails |-> "absent"]
    /\ holder = [m \in Mails |-> None]
    /\ stalls = [m \in Mails |-> 0]
    /\ rows = [m \in Mails |-> 0]
    /\ dated = [m \in Mails |-> 0]
    /\ delivered = [m \in Mails |-> 0]
    /\ mpc = [w \in Mailers |-> "idle"]
    /\ mmail = [w \in Mailers |-> None]

\* sendMail: the mail is put on the queue, and saved by nobody before that.
SendMail(m) ==
    /\ mailJob[m] = "absent"
    /\ mailJob' = [mailJob EXCEPT ![m] = "waiting"]
    /\ UNCHANGED <<holder, stalls, table, delivered, crew>>

\* BullMQ hands a mail to a worker.
StartMail(w, m) ==
    /\ mpc[w] = "idle"
    /\ mailJob[m] = "waiting"
    /\ mailJob' = [mailJob EXCEPT ![m] = "active"]
    /\ holder' = [holder EXCEPT ![m] = w]
    /\ mpc' = [mpc EXCEPT ![w] = "save"]
    /\ mmail' = [mmail EXCEPT ![w] = m]
    /\ UNCHANGED <<stalls, table, delivered>>

\* Mutant: the worker keeps the mail it has left.
LeaveHolding(w) ==
    /\ mpc' = [mpc EXCEPT ![w] = "idle"]
    /\ UNCHANGED mmail

Leave(w) ==
    /\ mpc' = [mpc EXCEPT ![w] = "idle"]
    /\ mmail' = [mmail EXCEPT ![w] = None]

\* The worker leaves process(); BullMQ finishes the job if it is still his.
Finish(w, status) ==
    LET m == mmail[w] IN
    /\ IF holder[m] = w
       THEN /\ mailJob' = [mailJob EXCEPT ![m] = status]
            /\ holder' = [holder EXCEPT ![m] = None]
       ELSE UNCHANGED <<mailJob, holder>>
    /\ Leave(w)

\* Mutant: a mail that is saved is done with.
SaveMailOnly(w) ==
    /\ mpc[w] = "save"
    /\ rows' = [rows EXCEPT ![mmail[w]] = @ + 1]
    /\ Finish(w, "completed")
    /\ UNCHANGED <<stalls, dated, delivered>>

\* The row is inserted; where sending is disabled that is all.
SaveMail(w) ==
    /\ mpc[w] = "save"
    /\ rows' = [rows EXCEPT ![mmail[w]] = @ + 1]
    /\ IF SendEnabled
       THEN /\ mpc' = [mpc EXCEPT ![w] = "send"]
            /\ UNCHANGED <<mailJob, holder, mmail>>
       ELSE Finish(w, "completed")
    /\ UNCHANGED <<stalls, dated, delivered>>

\* Mutant: the row is dated before the mail is handed over.
TransmitDated(w) ==
    /\ mpc[w] = "send"
    /\ dated' = [dated EXCEPT ![mmail[w]] = @ + 1]
    /\ mpc' = [mpc EXCEPT ![w] = "date"]
    /\ UNCHANGED <<queue, rows, delivered, mmail>>

\* The mail server accepts the mail.
Transmit(w) ==
    /\ mpc[w] = "send"
    /\ delivered' = [delivered EXCEPT ![mmail[w]] = @ + 1]
    /\ mpc' = [mpc EXCEPT ![w] = "date"]
    /\ UNCHANGED <<queue, table, mmail>>

\* The row of this run, whose id the first save has filled in, is dated.
DateMail(w) ==
    /\ mpc[w] = "date"
    /\ dated' = [dated EXCEPT ![mmail[w]] = @ + 1]
    /\ Finish(w, "completed")
    /\ UNCHANGED <<stalls, rows, delivered>>

\* The database or the mail server fails: the only attempt is spent.
MailFails(w) ==
    /\ mpc[w] # "idle"
    /\ Finish(w, "failed")
    /\ UNCHANGED <<stalls, table, delivered>>

\* The lock of a job has expired, its worker dead or only slow: BullMQ puts the
\* job back, or gives it up.
StallMail(w) ==
    LET m == mmail[w] IN
    /\ mpc[w] # "idle"
    /\ holder[m] = w
    /\ holder' = [holder EXCEPT ![m] = None]
    /\ mailJob' = [mailJob EXCEPT ![m] =
                      IF stalls[m] < MaxStalls THEN "waiting" ELSE "failed"]
    /\ stalls' = [stalls EXCEPT ![m] = IF @ < MaxStalls THEN @ + 1 ELSE @]
    /\ Leave(w) \/ UNCHANGED crew
    /\ UNCHANGED <<table, delivered>>

\* The awaits of process().
MailerStep(w) == SaveMail(w) \/ Transmit(w) \/ DateMail(w) \/ MailFails(w)

MailNext ==
    \/ \E w \in Mailers, m \in Mails : StartMail(w, m)
    \/ \E w \in Mailers : MailerStep(w) \/ StallMail(w)

-----------------------------------------------------------------------------
Sent(m)    == mailJob[m] = "completed" /\ delivered[m] > 0
GivenUp(m) == mailJob[m] = "failed"

\* A mail goes out a second time only if its job's lock was lost, and a row
\* that bears a sentDate stands for a mail that went out (process).
MailedOnce ==
    \A m \in Mails :
        /\ delivered[m] <= 1 + stalls[m]
        /\ dated[m] <= delivered[m]
=============================================================================
