------------------------------- MODULE Accounts -------------------------------
(***************************************************************************)
(* Who an authenticated request is: login, provisioning and invitations.   *)
(* BetterAuthUserValidationService and UserValidationService (Auth0) turn  *)
(* an identity into an application user - the user it is linked to, the    *)
(* user with its verified e-mail, the user of an invitation, or a new user *)
(* with an organisation of its own - and InvitationService creates the     *)
(* users, memberships and invitations that wait for them.                  *)
(*                                                                         *)
(* A request is a process: each await of the services is a step, and       *)
(* between the read and the save of one request others run.  TypeORM is    *)
(* external: the save of an entity that has an id reads its rows again,    *)
(* outside the transaction, and then writes what differed from them; a     *)
(* unique index, or a membership that row has and the entity does not,     *)
(* makes it fail; columns read as undefined are left alone.                *)
(* InvitationMail adds what becomes of the mails.                          *)
(***************************************************************************)
EXTENDS Naturals, Sequences, FiniteSets

CONSTANTS
    Requests,         \* HTTP requests in progress at once
    Identities,       \* accounts at the identity provider
    Emails,           \* e-mail addresses as they are written
    Spellings,        \* sets of those that are equal but for their case
    None,             \* no identity, no e-mail
    MaxInvitations,   \* bound: invitations created
    MaxRequests       \* bound: requests made

ASSUME AccountBounds ==
    /\ None \notin Identities \cup Emails
    /\ Spellings \subseteq SUBSET Emails
    /\ \A s, t \in Spellings : s = t \/ s \cap t = {}
    /\ MaxInvitations \in Nat /\ MaxRequests \in Nat

\* An invitation is known by its number, in the order of creation.
Invitations == 1..MaxInvitations

VARIABLES
    nulls,        \* what TypeORM reads a NULL column as
    provider,     \* the strategy the application is built with
    profile,      \* e-mail of each identity, and whether it is verified
    users,        \* rows: e-mail and identity; 1 is the owner who invites
    memberships,  \* rows: user, role, of its own organisation or the inviter's;
                  \*   history: how many there were when the save that inserted it
                  \*   read again, and whether it was removed and brought back
    invitations,  \* rows: membership, accepted, open (not expired, not removed)
    queued,       \* invitations put on the e-mail queue
    notified,     \* invitations with notificationSent
    req,          \* where each request is and what it has read
    made          \* requests made so far

fixed  == <<nulls, provider, profile>>
tables == <<users, memberships, invitations, notified>>
vars   == <<fixed, tables, queued, req, made>>

UserIds       == 1..Len(users)
MembershipIds == 1..Len(memberships)
InvitationIds == 1..Len(invitations)
Roles         == {"owner", "member", "invited"}

Nobody == [email |-> None, identity |-> None]

\* A request: its step, identity or e-mail, and what it has read: a user and
\* his row, memberships with their roles as they are to be, an invitation, and
\* how many rows there were.  Once its save has read the rows again (`loaded`):
\* the columns, the roles and the removed memberships that it will write.
Idle == [pc |-> "idle", who |-> None, email |-> None, user |-> 0, read |-> Nobody,
         known |-> {}, inv |-> 0, seen |-> 0, loaded |-> FALSE, columns |-> {},
         changes |-> {}, back |-> {}]

RequestPc == {"idle", "find", "match", "link", "provision", "invited", "accept",
              "insert", "mail", "notify"}

TypeOK ==
    /\ nulls \in {"null", "undefined"}
    /\ provider \in {"auth0", "betterAuth"}
    /\ profile \in [Identities -> [email : Emails, verified : BOOLEAN]]
    /\ \A u \in UserIds : users[u] \in
          [email : Emails \cup {None}, identity : Identities \cup {None}]
    /\ \A m \in MembershipIds : memberships[m] \in
          [user : UserIds, role : Roles, own : BOOLEAN, live : BOOLEAN,
           seen : Nat, back : BOOLEAN]
    /\ \A i \in InvitationIds : invitations[i] \in
          [membership : MembershipIds, email : Emails, accepted : BOOLEAN,
           open : BOOLEAN, seen : 0..MaxInvitations]
    /\ Len(invitations) <= MaxInvitations
    /\ queued \subseteq InvitationIds /\ notified \subseteq InvitationIds
    /\ \A r \in Requests : req[r] \in
          [pc : RequestPc, who : Identities \cup {None},
           email : Emails \cup {None}, user : 0..Len(users),
           read : [email : Emails \cup {None}, identity : Identities \cup {None}],
           known : SUBSET (MembershipIds \X Roles), inv : 0..Len(invitations),
           seen : Nat, loaded : BOOLEAN, columns : SUBSET {"email", "identity"},
           changes : SUBSET (MembershipIds \X Roles), back : SUBSET MembershipIds]
    /\ made \in 0..MaxRequests
    \* The unique index on the identity column.
    /\ \A u, v \in UserIds :
          users[u].identity = users[v].identity /\ users[u].identity # None
             => u = v

Row(u, role, own, seen) ==
    [user |-> u, role |-> role, own |-> own, live |-> TRUE, seen |-> seen, back |-> FALSE]

Init ==
    \* InvitationService expects undefined; TypeORM 0.3 reads null.
    /\ nulls \in {"null", "undefined"}
    /\ provider \in {"auth0", "betterAuth"}
    /\ profile \in [Identities -> [email : Emails, verified : BOOLEAN]]
    \* UserValidationService does not look at emailVerified.
    /\ provider = "auth0" => \A p \in Identities : profile[p].verified
    /\ users = <<Nobody>>
    /\ memberships = <<Row(1, "owner", FALSE, 0)>>
    /\ invitations = <<>>
    /\ queued = {} /\ notified = {}
    /\ req = [r \in Requests |-> Idle]
    /\ made = 0

-----------------------------------------------------------------------------
(* The tables and their transactions.                                      *)

\* Memberships that are not soft-deleted, with their roles.
MembershipsOf(u) ==
    {m \in MembershipIds : memberships[m].user = u /\ memberships[m].live}
WithRoles(ms) == {<<m, memberships[m].role>> : m \in ms}

\* ILIKE: without case.  Addresses that LIKE would read as a pattern are left out.
Same(e, f)       == e = f \/ \E s \in Spellings : {e, f} \subseteq s
UsersWith(email) == {u \in UserIds : Same(users[u].email, email)}
LinkedTo(p)      == {u \in UserIds : users[u].identity = p}
UserOf(i)        == memberships[invitations[i].membership].user

\* Mutant: the identity column has no unique index.
IdentityUnchecked(p, u) == TRUE

\* The unique index lets user u have identity p.
IdentityFree(p, u) == LinkedTo(p) \subseteq {u}

\* A user is saved with the memberships it was read with: TypeORM would clear
\* the user of one it does not know, and the NOT NULL column refuses that.
\* Without an array of memberships it does not look.
KnowsAll(r, u) ==
    req[r].pc # "accept" => MembershipsOf(u) \subseteq {k[1] : k \in req[r].known}

\* mapProfileToEntity
Mapped(p) == [email |-> profile[p].email, identity |-> p]

\* What handleNewIndependentUser gives a user: a membership that owns a new
\* organisation.
NewOwner(u, seen) == Row(u, "owner", TRUE, seen)

\* What TypeORM will write: columns of the user, roles, and a deletedDate that
\* was read as null and is not any more.
Load(r) ==
    LET u == req[r].user  p == req[r].who IN
    /\ req[r].pc \in {"link", "provision", "accept"} /\ u # 0
    /\ ~req[r].loaded
    /\ KnowsAll(r, u)
    /\ req' = [req EXCEPT
          ![r].loaded  = TRUE,
          ![r].seen    = IF req[r].pc = "provision" THEN Len(memberships) ELSE 0,
          ![r].columns = {c \in {"email", "identity"} : users[u][c] # Mapped(p)[c]},
          ![r].changes = {k \in req[r].known : memberships[k[1]].role # k[2]},
          ![r].back    = {k[1] : k \in {l \in req[r].known :
                             nulls = "null" /\ ~memberships[l[1]].live}}]
    /\ UNCHANGED <<fixed, tables, made, queued>>

\* What it has read again is written; a new user has nothing to read.
SavedUsers(r) ==
    LET u == req[r].user  p == req[r].who IN
    IF u = 0 THEN Append(users, Mapped(p))
    ELSE [users EXCEPT
             ![u].email    = IF "email" \in req[r].columns THEN profile[p].email ELSE @,
             ![u].identity = IF "identity" \in req[r].columns THEN p ELSE @]

SavedMemberships(r) ==
    [m \in MembershipIds |->
        [memberships[m] EXCEPT
            !.role = IF \E k \in req[r].changes : k[1] = m
                     THEN CHOOSE role \in Roles : <<m, role>> \in req[r].changes ELSE @,
            !.live = @ \/ m \in req[r].back,
            !.back = @ \/ m \in req[r].back]]

\* The transaction begins with the user; the index may refuse his identity.
Saves(r) ==
    /\ req[r].loaded \/ req[r].user = 0
    /\ "identity" \in req[r].columns \/ req[r].user = 0
          => IdentityFree(req[r].who, req[r].user)
    /\ users' = SavedUsers(r)

Go(r, pc) == req' = [req EXCEPT ![r].pc = pc]
Done(r)   == req' = [req EXCEPT ![r] = Idle]

Begin(r) ==
    /\ req[r].pc = "idle"
    /\ made < MaxRequests
    /\ made' = made + 1

-----------------------------------------------------------------------------
(* validateUser without an invitation.                                     *)

Login(r, p) ==
    /\ Begin(r)
    /\ req' = [req EXCEPT ![r].pc = "find", ![r].who = p]
    /\ UNCHANGED <<fixed, tables, queued>>

\* Mutant: the e-mail is matched whether it is verified or not.
FindUserAnyEmail(r) ==
    LET p == req[r].who  found == LinkedTo(p) IN
    /\ req[r].pc = "find"
    /\ CASE found = {} /\ provider = "betterAuth" -> Go(r, "match")
         [] found = {} /\ provider = "auth0"      -> Go(r, "provision")
         [] OTHER -> Done(r)
    /\ UNCHANGED <<fixed, tables, made, queued>>

\* findUserByAuthProviderId: the user of the identity, if it has memberships.
FindUser(r) ==
    LET p == req[r].who  found == LinkedTo(p) IN
    /\ req[r].pc = "find"
    /\ IF found = {}
       THEN Go(r, IF provider = "betterAuth" /\ profile[p].verified
                  THEN "match" ELSE "provision")
       ELSE \E u \in found :
               IF MembershipsOf(u) # {}
               THEN Done(r)
               ELSE req' = [req EXCEPT ![r].pc = "provision", ![r].user = u,
                                       ![r].read = users[u]]
    /\ UNCHANGED <<fixed, tables, made, queued>>

\* findAndLinkExistingUser: the one user with this e-mail, if there is one.
Match(r) ==
    LET matches == UsersWith(profile[req[r].who].email) IN
    /\ req[r].pc = "match"
    /\ CASE matches = {}             -> Go(r, "provision")
         [] Cardinality(matches) > 1 -> Done(r)
         [] OTHER -> \E u \in matches :
               req' = [req EXCEPT ![r].pc = "link", ![r].user = u,
                                  ![r].read = users[u],
                                  ![r].known = WithRoles(MembershipsOf(u))]
    /\ UNCHANGED <<fixed, tables, made, queued>>

\* Mutant: a user who was linked is provisioned whatever memberships he has.
LinkAndProvision(r) ==
    /\ req[r].pc = "link"
    /\ Saves(r)
    /\ memberships' = SavedMemberships(r)
    /\ req' = [req EXCEPT ![r].pc = "provision", ![r].loaded = FALSE]
    /\ UNCHANGED <<fixed, invitations, notified, made, queued>>

\* The user is saved under the identity, and with it its memberships and their
\* roles as they were read.
Link(r) ==
    /\ req[r].pc = "link"
    /\ Saves(r)
    /\ memberships' = SavedMemberships(r)
    /\ IF req[r].known = {}
       THEN req' = [req EXCEPT ![r].pc = "provision", ![r].loaded = FALSE]
       ELSE Done(r)
    /\ UNCHANGED <<fixed, invitations, notified, made, queued>>

\* handleNewIndependentUser: the user found, or a new one, is saved with his new
\* membership and nothing else.
Provision(r) ==
    LET new == req[r].user = 0
        u   == IF new THEN Len(users) + 1 ELSE req[r].user
    IN
    /\ req[r].pc = "provision"
    /\ Saves(r)
    /\ memberships' = Append(SavedMemberships(r),
                             NewOwner(u, IF new THEN Len(memberships) ELSE req[r].seen))
    /\ Done(r)
    /\ UNCHANGED <<fixed, invitations, notified, made, queued>>

-----------------------------------------------------------------------------
(* validateUser with an invitation: handleInvitedUser.                     *)

LoginInvited(r, p, i) ==
    /\ Begin(r)
    /\ req' = [req EXCEPT ![r].pc = "invited", ![r].who = p, ![r].inv = i]
    /\ UNCHANGED <<fixed, tables, queued>>

\* The invitation, if it is open and not accepted, its membership still there
\* and in the role of an invited.
FindInvitation(r) ==
    LET i == req[r].inv  m == memberships[invitations[i].membership] IN
    /\ req[r].pc = "invited"
    /\ IF /\ invitations[i].open /\ ~invitations[i].accepted
          /\ m.live /\ m.role = "invited"
       THEN req' = [req EXCEPT ![r].pc = "accept", ![r].user = m.user,
                               ![r].read = users[m.user],
                               ![r].known = {<<invitations[i].membership, "member">>}]
       ELSE Done(r)
    /\ UNCHANGED <<fixed, tables, made, queued>>

\* Invitation, role and user are saved together; for Auth0 the profile has been
\* fetched in between.  Nobody asks whose e-mail the invitation was sent to.
Accept(r) ==
    /\ req[r].pc = "accept"
    /\ Saves(r)
    /\ invitations' = [invitations EXCEPT ![req[r].inv].accepted = TRUE]
    /\ memberships' = SavedMemberships(r)
    /\ Done(r)
    /\ UNCHANGED <<fixed, notified, made, queued>>

-----------------------------------------------------------------------------
(* InvitationService.                                                      *)

\* The memberships of the organisation whose user has exactly this e-mail.
Existing(email) ==
    {m \in MembershipIds : /\ memberships[m].live /\ ~memberships[m].own
                           /\ users[memberships[m].user].email = email}

\* Mutant: only members are looked for, not invitations that are open.
FreeOfMembers(email) ==
    \A m \in Existing(email) : memberships[m].role = "invited"

\* Nobody with this e-mail is a member, and no invitation of it is open.
Invitable(email) ==
    \A m \in Existing(email) :
        /\ memberships[m].role = "invited"
        /\ nulls = "undefined" =>
              \A i \in InvitationIds : invitations[i].membership = m
                 => invitations[i].accepted \/ ~invitations[i].open

\* The owner who invites is one still.
InviterOwns == \E m \in MembershipsOf(1) : memberships[m].role = "owner"

\* canManageInvitationsForThisOrg: a super user may, and an owner.
CanManage(claims) == "modify:all" \in claims \/ InviterOwns

\* create, as far as its checks.
CreateInvitation(r, email, claims) ==
    /\ CanManage(claims)
    /\ Begin(r)
    /\ Len(invitations) < MaxInvitations
    /\ IF Invitable(email)
       THEN req' = [req EXCEPT ![r].pc = "insert", ![r].email = email,
                               ![r].seen = Len(invitations)]
       ELSE UNCHANGED req
    /\ UNCHANGED <<fixed, tables, queued>>

\* The transaction: a new user, its membership and the invitation, unless the
\* invitation just saved is not recognised as open.
InsertInvitation(r) ==
    /\ req[r].pc = "insert"
    /\ Len(invitations) < MaxInvitations
    /\ nulls = "undefined"
    /\ users' = Append(users, [email |-> req[r].email, identity |-> None])
    /\ memberships' = Append(memberships, Row(Len(users) + 1, "invited", FALSE, 0))
    /\ invitations' = Append(invitations,
          [membership |-> Len(memberships) + 1, email |-> req[r].email,
           accepted |-> FALSE, open |-> TRUE, seen |-> req[r].seen])
    /\ req' = [req EXCEPT ![r].pc = "mail", ![r].inv = Len(invitations) + 1]
    /\ UNCHANGED <<fixed, notified, made, queued>>

\* The invitation is put on the e-mail queue.
MailInvitation(r) ==
    /\ req[r].pc = "mail"
    /\ queued' = queued \cup {req[r].inv}
    /\ Go(r, "notify")
    /\ UNCHANGED <<fixed, tables, made>>

\* Mutant: the whole row is written as it was when it was created.
SaveNotifiedWhole(r) ==
    /\ req[r].pc = "notify"
    /\ notified' = notified \cup {req[r].inv}
    /\ invitations' = [invitations EXCEPT ![req[r].inv].accepted = FALSE]
    /\ Done(r)
    /\ UNCHANGED <<fixed, users, memberships, made, queued>>

\* notificationSent is saved.
SaveNotified(r) ==
    /\ req[r].pc = "notify"
    /\ notified' = notified \cup {req[r].inv}
    /\ Done(r)
    /\ UNCHANGED <<fixed, users, memberships, invitations, made, queued>>

\* Nobody can accept the invitation any more; its user and membership stay.
Close(i) ==
    /\ invitations[i].open
    /\ invitations' = [invitations EXCEPT ![i].open = FALSE]
    /\ UNCHANGED <<fixed, users, memberships, notified, queued, req, made>>

\* remove soft-deletes the invitation.
RemoveInvitation(i, claims) == CanManage(claims) /\ Close(i)

\* Its day is over (expiresOn).
ExpireInvitation(i) == Close(i)

\* An owner removes a member, himself, or an invited one with his invitation.
RemoveMember(m) ==
    /\ memberships[m].own \/ InviterOwns
    /\ memberships[m].live
    /\ memberships' = [memberships EXCEPT ![m].live = FALSE]
    /\ invitations' = [i \in InvitationIds |->
          IF invitations[i].membership = m
          THEN [invitations[i] EXCEPT !.open = FALSE] ELSE invitations[i]]
    /\ UNCHANGED <<fixed, users, notified, queued, req, made>>

\* A read or a save fails or is refused, or the process dies: the transaction
\* it is in, if any, is rolled back.  Where NULL is read as null every create
\* ends here: the invitation it has just saved is not recognised.
RequestFails(r) ==
    /\ req[r].pc # "idle"
    /\ Done(r)
    /\ UNCHANGED <<fixed, tables, made, queued>>

\* What InvitationController serves, to an owner or a super user.
InvitationRequest(r) ==
    \E claims \in SUBSET {"modify:all"} :
        \/ \E email \in Emails : CreateInvitation(r, email, claims)
        \/ \E i \in InvitationIds : RemoveInvitation(i, claims)

\* The steps of a request: of a login, of one with an invitation, of create.
LoginStep(r) == FindUser(r) \/ Match(r) \/ Load(r) \/ Link(r) \/ Provision(r)
InvitedStep(r) == FindInvitation(r) \/ Accept(r)
CreateStep(r) == InsertInvitation(r) \/ MailInvitation(r) \/ SaveNotified(r)

Next ==
    \/ \E r \in Requests :
          \/ \E p \in Identities : Login(r, p)
          \/ \E p \in Identities, i \in InvitationIds : LoginInvited(r, p, i)
          \/ InvitationRequest(r)
          \/ LoginStep(r) \/ InvitedStep(r) \/ CreateStep(r) \/ RequestFails(r)
    \/ \E i \in InvitationIds : ExpireInvitation(i)
    \/ \E m \in MembershipIds : RemoveMember(m)

Spec == Init /\ [][Next]_vars

-----------------------------------------------------------------------------
\* However many requests of a new user arrive at once, on either provider, he is
\* provisioned with one organisation.  Only one who was there without memberships
\* gets a second, from two saves of which neither had read the other's - or has
\* one again that was removed and brought back (handleNewIndependentUser, 213).
OneOrganisation ==
    \A m, n \in MembershipIds :
        (/\ m < n /\ memberships[m].user = memberships[n].user
         /\ \A k \in {m, n} : memberships[k].live /\ memberships[k].own)
        => memberships[n].seen < m \/ memberships[m].back

\* Nobody is a member of the inviting organisation whose invitation does not
\* say so: no late save reopens an invitation that was accepted (create, 230).
MembersAccepted ==
    \A i \in InvitationIds :
        memberships[invitations[i].membership].role = "member"
            => invitations[i].accepted

\* Somebody logs in with this e-mail, verified, in another spelling.
Respelt(email) ==
    \E p \in Identities :
        /\ profile[p].verified
        /\ Same(profile[p].email, email) /\ profile[p].email # email

\* Two open invitations of one e-mail are the work of two requests of which
\* neither could see the other's, or the first one's user has been linked since
\* to an identity that spells the e-mail otherwise: the check compares exactly
\* what the login compares without case and overwrites (create, 78-119).
OneOpenInvitation ==
    \A i, j \in InvitationIds :
        (/\ i < j
         /\ \A k \in {i, j} : invitations[k].open /\ ~invitations[k].accepted
         /\ invitations[i].email = invitations[j].email)
        => \/ invitations[j].seen < i
           \/ users[UserOf(i)].identity # None /\ Respelt(invitations[i].email)

\* The user of one identity becomes another's only if that one is verified and
\* has the user's e-mail, or had read the user before his row was as it is, or
\* accepts the invitation the user was created for (findAndLinkExistingUser).
\* Whoever accepts need not have the invited e-mail, nor a verified one.
AccountKept ==
    [][\A u \in UserIds :
          LET p == users[u].identity  q == users'[u].identity IN
          p \notin {None, q} =>
             \E r \in Requests :
                /\ req[r].user = u /\ req[r].who = q
                /\ \/ req[r].read # users[u]
                   \/ profile[q].verified /\ Same(profile[q].email, users[u].email)
                   \/ req[r].inv # 0 /\ u = UserOf(req[r].inv)]_vars
=============================================================================
