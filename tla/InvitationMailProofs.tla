------------------------- MODULE InvitationMailProofs -------------------------
(***************************************************************************)
(* Logins, invitations and their mails: for any number of requests,        *)
(* identities, e-mails, invitations and mail workers, a second membership  *)
(* or invitation is the work of requests that could not see the first, no  *)
(* account changes hands but as the code means it to, and a mail goes out  *)
(* once for each time its job was run.                                     *)
(***************************************************************************)
EXTENDS InvitationMail, SequenceTheorems, FiniteSetTheorems, TLAPS

USE DEF fixed, tables

User       == [email : Emails \cup {None}, identity : Identities \cup {None}]
Membership == [user : Nat, role : Roles, own : BOOLEAN, live : BOOLEAN, seen : Nat,
               back : BOOLEAN]
Invitation == [membership : Nat, email : Emails, accepted : BOOLEAN, open : BOOLEAN,
               seen : 0..MaxInvitations]
Request    == [pc : RequestPc, who : Identities \cup {None}, email : Emails \cup {None},
               user : Nat, read : User, known : SUBSET (Nat \X Roles), inv : Nat,
               seen : Nat, loaded : BOOLEAN, columns : SUBSET {"email", "identity"},
               changes : SUBSET (Nat \X Roles), back : SUBSET Nat]

FixedOK ==
    /\ nulls \in {"null", "undefined"}
    /\ provider \in {"auth0", "betterAuth"}
    /\ profile \in [Identities -> [email : Emails, verified : BOOLEAN]]

(* No two users have one identity.                                            *)
UsersInv ==
    /\ users \in Seq(User)
    /\ \A u, v \in UserIds :
          users[u].identity = users[v].identity /\ users[u].identity # None => u = v

(* Who is given an organisation beside another membership was read again      *)
(* before that one was there, or while it was removed.                        *)
MembersInv ==
    /\ memberships \in Seq(Membership)
    /\ \A m \in MembershipIds : memberships[m].user \in UserIds
    /\ \A m, n \in MembershipIds :
          m < n /\ memberships[n].own /\ memberships[m].user = memberships[n].user
                /\ memberships[m].live
             => memberships[n].seen < m \/ memberships[m].back

Unanswered(i) == invitations[i].open /\ ~invitations[i].accepted

(* An invitation's user has an identity, which spells the e-mail otherwise.   *)
Linked(i) == users[UserOf(i)].identity # None /\ Respelt(invitations[i].email)

(* The user of an invitation is still found under its e-mail, or is linked.   *)
Waits(i) ==
    \/ users[UserOf(i)].email = invitations[i].email
    \/ Linked(i) /\ Same(users[UserOf(i)].email, invitations[i].email)

(* Each invitation has a membership and a user of its own, which wait for it  *)
(* for as long as it is unanswered.                                           *)
InvitationsInv ==
    /\ invitations \in Seq(Invitation) /\ Len(invitations) <= MaxInvitations
    /\ queued \subseteq InvitationIds /\ notified \subseteq InvitationIds
    /\ \A i \in InvitationIds :
          /\ invitations[i].membership \in MembershipIds
          /\ ~memberships[invitations[i].membership].own
          /\ invitations[i].open => memberships[invitations[i].membership].live
          /\ Unanswered(i) => Waits(i)
    /\ \A i, j \in InvitationIds : UserOf(i) = UserOf(j) => i = j

(* What a request has read, and what of it is true still: first what it goes  *)
(* by,                                                                        *)
ReadOf(here) ==
    /\ here.user \in 0..Len(users) /\ here.inv \in 0..Len(invitations)
    /\ here.known \subseteq MembershipIds \X Roles
    /\ here.pc = "idle" => here = Idle
    /\ here.pc \in {"find", "match", "link", "provision", "invited", "accept"}
          => here.who \in Identities
    /\ here.pc \in {"find", "match"} => here.user = 0
    /\ here.pc \in {"find", "match", "provision"} => here.known = {}
    /\ here.pc = "match" => profile[here.who].verified
    /\ here.pc \in {"link", "accept"} => here.user # 0
    /\ here.pc \in {"link", "provision"} /\ here.user # 0 =>
          \/ here.read.identity = here.who
          \/ profile[here.who].verified /\ Same(profile[here.who].email, here.read.email)
    /\ here.pc = "link" =>
          /\ profile[here.who].verified
          /\ \A i \in InvitationIds : Unanswered(i) /\ UserOf(i) = here.user
                => Same(profile[here.who].email, invitations[i].email)
    /\ here.pc \in {"link", "provision"} /\ here.known = {} /\ here.user # 0 =>
          \A i \in InvitationIds : UserOf(i) = here.user => ~invitations[i].open
    /\ \A k \in here.known, i \in InvitationIds :
          k[2] = "member" /\ invitations[i].membership = k[1]
             => invitations[i].accepted \/ (here.pc = "accept" /\ i = here.inv)
    /\ here.pc \in {"invited", "accept", "mail", "notify"} => here.inv # 0
    /\ here.pc = "accept" => here.user = UserOf(here.inv)
    /\ here.pc = "insert" =>
          /\ here.email \in Emails /\ here.seen <= Len(invitations)
          /\ nulls = "undefined" =>
                \A i \in 1..here.seen :
                   Unanswered(i) /\ invitations[i].email = here.email => Linked(i)

(* then what its save has read again, and will write.                         *)
LoadOf(here) ==
    /\ here.loaded => here.pc \in {"link", "provision", "accept"} /\ here.user # 0
    /\ here.loaded /\ "identity" \notin here.columns => users[here.user].identity # None
    /\ here.changes \subseteq MembershipIds \X Roles
    /\ here.back \subseteq MembershipIds
    /\ here.loaded => /\ here.changes \subseteq here.known
                      /\ \A m \in here.back : \E k \in here.known : k[1] = m
    /\ here.pc \in {"find", "match", "provision"} => here.changes = {} /\ here.back = {}
    /\ here.loaded /\ here.pc = "provision" =>
          /\ here.seen <= Len(memberships)
          /\ \A m \in 1..here.seen :
                memberships[m].user = here.user /\ memberships[m].live => memberships[m].back

PathOf(here) == ReadOf(here) /\ LoadOf(here)

RequestsInv ==
    /\ req \in [Requests -> Request] /\ made \in 0..MaxRequests
    /\ \A r \in Requests : PathOf(req[r])

IInv == /\ FixedOK /\ UsersInv /\ MembersInv /\ InvitationsInv /\ RequestsInv
        /\ MembersAccepted /\ OneOpenInvitation

-----------------------------------------------------------------------------
(* What no step takes back.                                                  *)

Kept ==
    /\ UNCHANGED fixed
    /\ Len(users) <= Len(users') /\ Len(memberships) <= Len(memberships')
    /\ Len(invitations) <= Len(invitations')
    /\ Len(users') \in Nat /\ Len(memberships') \in Nat /\ Len(invitations') \in Nat
    /\ \A u \in UserIds : users[u].identity # None => users'[u].identity # None
    /\ \A m \in MembershipIds :
          /\ memberships'[m].user = memberships[m].user
          /\ memberships[m].back => memberships'[m].back
          /\ memberships'[m].live => memberships[m].live \/ memberships'[m].back
    /\ \A i \in InvitationIds :
          /\ invitations'[i].membership = invitations[i].membership
          /\ invitations'[i].email = invitations[i].email
          /\ invitations[i].accepted => invitations'[i].accepted
          /\ invitations'[i].open => invitations[i].open
    /\ \A i \in InvitationIds' \ InvitationIds :
          invitations'[i].membership \notin MembershipIds /\ UserOf(i)' \notin UserIds

(* The sequences' lengths, and the rows in them.                              *)
LEMMA TableFacts ==
    ASSUME IInv
    PROVE  /\ Len(users) \in Nat /\ Len(memberships) \in Nat /\ Len(invitations) \in Nat
           /\ DOMAIN users = UserIds /\ DOMAIN memberships = MembershipIds
           /\ DOMAIN invitations = InvitationIds
           /\ UserIds \subseteq Nat /\ MembershipIds \subseteq Nat /\ InvitationIds \subseteq Nat
           /\ 0 \notin UserIds /\ 0 \notin InvitationIds
           /\ \A u \in UserIds : users[u] \in User
           /\ \A m \in MembershipIds : memberships[m] \in Membership
           /\ \A i \in InvitationIds : invitations[i] \in Invitation
           /\ \A i \in InvitationIds : UserOf(i) \in UserIds
<1>1. users \in Seq(User) /\ memberships \in Seq(Membership) /\ invitations \in Seq(Invitation)
  BY DEF IInv, UsersInv, MembersInv, InvitationsInv
<1>2. QED BY <1>1, LenProperties, ElementOfSeq
          DEF UserIds, MembershipIds, InvitationIds, IInv, MembersInv, InvitationsInv, UserOf

(* Spellings of one e-mail are spellings of each other.                       *)
LEMMA SameClass ==
    /\ \A e, f : Same(e, f) => Same(f, e)
    /\ \A e, f, g : Same(e, f) /\ Same(f, g) => Same(e, g)
BY AccountBounds DEF Same

(* The user and the invitation that a request has read are rows.             *)
LEMMA RequestFacts ==
    ASSUME IInv, NEW here \in Request, PathOf(here)
    PROVE  /\ here.user # 0 => here.user \in UserIds
           /\ here.inv # 0 => here.inv \in InvitationIds
BY TableFacts DEF PathOf, ReadOf, UserIds, InvitationIds

(* An invitation that is unanswered was so before; who was linked still is.   *)
LEMMA StaysAnswered ==
    ASSUME IInv, Kept, NEW i \in InvitationIds
    PROVE  /\ UserOf(i)' = UserOf(i)
           /\ Unanswered(i)' => Unanswered(i)
           /\ Linked(i) => Linked(i)'
           /\ invitations'[i].email = invitations[i].email
<1>1. UserOf(i)' = UserOf(i) /\ UserOf(i) \in UserIds
  BY TableFacts DEF Kept, UserOf, IInv, InvitationsInv
<1>2. Unanswered(i)' => Unanswered(i)
  BY DEF Kept, Unanswered
<1>3. PICK e : e = invitations[i].email
  OBVIOUS
<1>4. invitations'[i].email = e
  BY <1>3 DEF Kept
<1>5. Respelt(e)' <=> Respelt(e)
  BY DEF Kept, Respelt
<1>6. Linked(i) => Linked(i)'
  <2>1. Linked(i) => users'[UserOf(i)].identity # None
    BY <1>1 DEF Linked, Kept
  <2>2. Linked(i)' <=> users'[UserOf(i)'].identity # None /\ Respelt(e)'
    BY <1>4 DEF Linked
  <2>3. QED BY <1>1, <1>3, <1>5, <2>1, <2>2 DEF Linked
<1>7. QED BY <1>1, <1>2, <1>3, <1>4, <1>6

(* What a request goes by stays true of what others leave behind,             *)
LEMMA ReadStays ==
    ASSUME IInv, Kept, NEW here \in Request, PathOf(here)
    PROVE  ReadOf(here)'
<1>1. InvitationIds \subseteq InvitationIds' /\ UserIds \subseteq UserIds'
      /\ MembershipIds \subseteq MembershipIds'
  BY TableFacts DEF Kept, InvitationIds, UserIds, MembershipIds
<1>2. here.user # 0 => here.user \in UserIds
  BY RequestFacts
<1>3. here.inv # 0 => here.inv \in InvitationIds
  BY RequestFacts
<1>4. /\ here.user \in 0..Len(users') /\ here.inv \in 0..Len(invitations')
      /\ here.known \subseteq MembershipIds' \X Roles
  BY <1>1, TableFacts DEF PathOf, ReadOf, Kept
<1>5. \A i \in InvitationIds' : here.user # 0 /\ UserOf(i)' = here.user
         => i \in InvitationIds /\ UserOf(i) = here.user
  BY <1>2, StaysAnswered DEF Kept
<1>6. here.pc = "link" => \A i \in InvitationIds' : Unanswered(i)' /\ UserOf(i)' = here.user
         => Same(profile'[here.who].email, invitations'[i].email)
  BY <1>5, StaysAnswered DEF PathOf, ReadOf, Kept
<1>7. here.pc \in {"link", "provision"} /\ here.known = {} /\ here.user # 0 =>
         \A i \in InvitationIds' : UserOf(i)' = here.user => ~invitations'[i].open
  BY <1>5 DEF PathOf, ReadOf, Kept
<1>8. \A k \in here.known, i \in InvitationIds' :
         k[2] = "member" /\ invitations'[i].membership = k[1]
            => invitations'[i].accepted \/ (here.pc = "accept" /\ i = here.inv)
  BY <1>1 DEF PathOf, ReadOf, Kept
<1>9. here.pc = "insert" =>
          /\ here.seen <= Len(invitations')
          /\ nulls' = "undefined" =>
                \A i \in 1..here.seen :
                   Unanswered(i)' /\ invitations'[i].email = here.email => Linked(i)'
  <2>1. here.pc = "insert" => 1..here.seen \subseteq InvitationIds
    BY TableFacts DEF PathOf, ReadOf, InvitationIds, Request
  <2>2. here.seen \in Nat
    BY DEF Request
  <2>3. here.pc = "insert" => here.seen <= Len(invitations')
    BY <2>2, TableFacts DEF PathOf, ReadOf, Kept
  <2>4. QED BY <2>1, <2>3, StaysAnswered DEF PathOf, ReadOf, Kept
<1>10. here.pc = "accept" => here.user = UserOf(here.inv)'
  BY <1>3, StaysAnswered DEF PathOf, ReadOf
<1>11. QED BY <1>4, <1>6, <1>7, <1>8, <1>9, <1>10 DEF PathOf, ReadOf, Kept, Same

(* and so does what it is about to write.                                     *)
LEMMA LoadStays ==
    ASSUME IInv, Kept, NEW here \in Request, PathOf(here)
    PROVE  LoadOf(here)'
<1>1. MembershipIds \subseteq MembershipIds'
  BY TableFacts DEF Kept, MembershipIds
<1>2. here.loaded => here.user \in UserIds
  BY RequestFacts DEF PathOf, LoadOf
<1>3. here.loaded /\ here.pc = "provision" =>
         /\ here.seen <= Len(memberships')
         /\ \A m \in 1..here.seen :
               memberships'[m].user = here.user /\ memberships'[m].live
                  => memberships'[m].back
  <2>1. here.loaded /\ here.pc = "provision" => 1..here.seen \subseteq MembershipIds
    BY TableFacts DEF PathOf, LoadOf, MembershipIds, Request
  <2>2. here.seen \in Nat
    BY DEF Request
  <2>3. here.loaded /\ here.pc = "provision" => here.seen <= Len(memberships')
    BY <2>2, TableFacts DEF PathOf, LoadOf, Kept
  <2>4. QED BY <2>1, <2>3 DEF PathOf, LoadOf, Kept
<1>4. QED BY <1>1, <1>2, <1>3 DEF PathOf, LoadOf, Kept

(* Both together.                                                             *)
LEMMA Stays ==
    ASSUME IInv, Kept, NEW here \in Request, PathOf(here)
    PROVE  PathOf(here)'
BY ReadStays, LoadStays DEF PathOf

-----------------------------------------------------------------------------
(* Requests.                                                                 *)

(* One request moves, and all that it has read is true.                       *)
Moves(r) ==
    /\ req' = [req EXCEPT ![r] = req'[r]] /\ req'[r] \in Request /\ PathOf(req[r])'

Quiet == UNCHANGED <<fixed, users, memberships, invitations>>

(* A request at rest has read nothing.                                        *)
LEMMA Idles ==
    /\ Idle \in Request /\ Idle.pc = "idle"
    /\ IInv /\ Kept => PathOf(Idle)'
<1>1. Nobody \in User
  BY DEF Nobody, User
<1>2. Idle \in Request /\ Idle.pc = "idle"
  BY <1>1, AccountBounds DEF Idle, Request, RequestPc
<1>3. ASSUME IInv, Kept PROVE PathOf(Idle)'
  BY <1>3 DEF Kept, PathOf, ReadOf, LoadOf, Idle
<1>4. QED BY <1>2, <1>3

(* A step that leaves the tables alone takes nothing back.                   *)
LEMMA QuietKeeps ==
    ASSUME IInv, Quiet
    PROVE  Kept
BY TableFacts DEF Quiet, Kept, UserIds, MembershipIds, InvitationIds

(* A request that ends is at rest.                                            *)
LEMMA Ends ==
    ASSUME IInv, Kept, NEW r \in Requests, Done(r)
    PROVE  Moves(r)
<1>1. req' = [req EXCEPT ![r] = Idle] /\ req'[r] = Idle
  BY DEF Done, IInv, RequestsInv
<1>2. QED BY <1>1, Idles DEF Moves

(* Or goes on with what is true before the step, and so after it.             *)
LEMMA Goes ==
    ASSUME IInv, Kept, NEW r \in Requests, NEW next \in Request, PathOf(next),
           req' = [req EXCEPT ![r] = next]
    PROVE  Moves(r)
<1>1. PathOf(next)'
  BY Stays
<1>2. req'[r] = next
  BY DEF IInv, RequestsInv
<1>3. QED BY <1>1, <1>2 DEF Moves

(* Requests that begin: a login, with or without an invitation, and create.   *)
LEMMA Begins ==
    ASSUME IInv, NEW r \in Requests,
           \/ \E p \in Identities : Login(r, p)
           \/ \E p \in Identities, i \in InvitationIds : LoginInvited(r, p, i)
           \/ \E email \in Emails, claims \in SUBSET {"modify:all"} :
                 CreateInvitation(r, email, claims)
    PROVE  /\ Quiet /\ UNCHANGED <<queued, notified>> /\ made' \in 0..MaxRequests
           /\ Moves(r) \/ req' = req
<1>1. /\ req[r] = Idle /\ made' \in 0..MaxRequests /\ Quiet /\ UNCHANGED <<queued, notified>>
  <2>1. Begin(r) /\ Quiet /\ UNCHANGED <<queued, notified>>
    BY DEF Login, LoginInvited, CreateInvitation, Quiet
  <2>2. QED BY <2>1, AccountBounds DEF Begin, IInv, RequestsInv, PathOf, ReadOf
<1>2. PICK here : here = req[r]
  OBVIOUS
<1>3. here \in Request /\ PathOf(here)
  BY <1>2 DEF IInv, RequestsInv
<1>4. /\ here.user = 0 /\ here.known = {} /\ here.inv = 0 /\ here.who = None
      /\ ~here.loaded /\ here.changes = {} /\ here.back = {}
  BY <1>1, <1>2 DEF Idle
<1>5. ASSUME NEW p \in Identities, Login(r, p)
      PROVE  Moves(r)
  <2>1. PICK next : next = [here EXCEPT !.pc = "find", !.who = p]
    OBVIOUS
  <2>2. next \in Request
    BY <1>3, <2>1 DEF Request, RequestPc
  <2>3. /\ next.pc = "find" /\ next.who = p /\ next.user = 0 /\ next.known = {}
        /\ next.inv = 0 /\ ~next.loaded /\ next.changes = {} /\ next.back = {}
    BY <1>3, <1>4, <2>1 DEF Request
  <2>4. PathOf(next)
    BY <2>3, TableFacts DEF PathOf, ReadOf, LoadOf
  <2>5. req' = [req EXCEPT ![r] = next]
    BY <1>2, <1>5, <2>1 DEF Login
  <2>6. QED BY <1>1, <2>2, <2>4, <2>5, QuietKeeps, Goes
<1>6. ASSUME NEW p \in Identities, NEW i \in InvitationIds, LoginInvited(r, p, i)
      PROVE  Moves(r)
  <2>1. PICK next : next = [here EXCEPT !.pc = "invited", !.who = p, !.inv = i]
    OBVIOUS
  <2>2. next \in Request
    BY <1>3, <2>1, TableFacts DEF Request, RequestPc
  <2>3. /\ next.pc = "invited" /\ next.who = p /\ next.user = 0 /\ next.known = {}
        /\ next.inv = i /\ ~next.loaded /\ next.changes = {} /\ next.back = {}
    BY <1>3, <1>4, <2>1 DEF Request
  <2>4. PathOf(next)
    BY <2>3, TableFacts DEF PathOf, ReadOf, LoadOf, InvitationIds
  <2>5. req' = [req EXCEPT ![r] = next]
    BY <1>2, <1>6, <2>1 DEF LoginInvited
  <2>6. QED BY <1>1, <2>2, <2>4, <2>5, QuietKeeps, Goes
<1>7. ASSUME NEW email \in Emails, NEW claims \in SUBSET {"modify:all"},
             CreateInvitation(r, email, claims), req' # req
      PROVE  Moves(r)
  <2>1. PICK next : next = [here EXCEPT !.pc = "insert", !.email = email,
                                        !.seen = Len(invitations)]
    OBVIOUS
  <2>2. next \in Request
    BY <1>3, <2>1, TableFacts DEF Request, RequestPc
  <2>3. /\ next.pc = "insert" /\ next.email = email /\ next.user = 0 /\ next.known = {}
        /\ next.inv = 0 /\ next.seen = Len(invitations)
        /\ ~next.loaded /\ next.changes = {} /\ next.back = {}
    BY <1>3, <1>4, <2>1 DEF Request
  <2>4. Invitable(email) /\ req' = [req EXCEPT ![r] = next]
    BY <1>2, <1>7, <2>1 DEF CreateInvitation
  <2>5. ASSUME NEW i \in InvitationIds, Unanswered(i), nulls = "undefined",
               invitations[i].email = email
        PROVE  Linked(i)
    <3>1. CASE users[UserOf(i)].email = email
      <4>1. invitations[i].membership \in Existing(email)
        BY <2>5, <3>1 DEF Existing, IInv, InvitationsInv, Unanswered, UserOf
      <4>2. QED BY <2>4, <2>5, <4>1 DEF Invitable, Unanswered
    <3>2. CASE users[UserOf(i)].email # email
      BY <2>5, <3>2 DEF Waits, IInv, InvitationsInv
    <3>3. QED BY <3>1, <3>2
  <2>6. PathOf(next)
    BY <2>3, <2>5, TableFacts DEF PathOf, ReadOf, LoadOf, InvitationIds
  <2>7. QED BY <1>1, <2>2, <2>4, <2>6, QuietKeeps, Goes
<1>8. QED BY <1>1, <1>5, <1>6, <1>7

(* The user who has an identity, and no membership, is provisioned.           *)
LEMMA Finds ==
    ASSUME IInv, NEW r \in Requests, FindUser(r)
    PROVE  Quiet /\ UNCHANGED <<queued, notified, made>> /\ Moves(r)
<1>1. Quiet /\ UNCHANGED <<queued, notified, made>>
  BY DEF FindUser, Quiet
<1>2. PICK here : here = req[r]
  OBVIOUS
<1>3. /\ here \in Request /\ PathOf(here) /\ here.pc = "find" /\ here.who \in Identities
      /\ here.user = 0 /\ here.known = {} /\ here.changes = {} /\ here.back = {}
      /\ ~here.loaded
  BY <1>2 DEF IInv, RequestsInv, PathOf, ReadOf, LoadOf, FindUser
<1>4. CASE Done(r)
  BY <1>1, <1>4, QuietKeeps, Ends
<1>5. ASSUME NEW pc \in {"match", "provision"}, Go(r, pc),
             pc = "match" => profile[here.who].verified
      PROVE  Moves(r)
  <2>1. PICK next : next = [here EXCEPT !.pc = pc]
    OBVIOUS
  <2>2. next \in Request
    BY <1>3, <2>1 DEF Request, RequestPc
  <2>3. /\ next.pc = pc /\ next.who = here.who /\ next.user = 0 /\ next.known = {}
        /\ next.inv = here.inv /\ ~next.loaded /\ next.changes = {} /\ next.back = {}
    BY <1>3, <2>1 DEF Request
  <2>4. PathOf(next)
    BY <1>3, <1>5, <2>3, TableFacts DEF PathOf, ReadOf, LoadOf
  <2>5. req' = [req EXCEPT ![r] = next]
    BY <1>2, <1>5, <2>1 DEF Go
  <2>6. QED BY <1>1, <2>2, <2>4, <2>5, QuietKeeps, Goes
<1>6. ASSUME NEW u \in LinkedTo(here.who), MembershipsOf(u) = {},
             req' = [req EXCEPT ![r].pc = "provision", ![r].user = u, ![r].read = users[u]]
      PROVE  Moves(r)
  <2>1. u \in UserIds /\ users[u].identity = here.who /\ users[u] \in User
    BY TableFacts DEF LinkedTo
  <2>2. PICK read \in User : read = users[u]
    BY <2>1
  <2>3. PICK next : next = [here EXCEPT !.pc = "provision", !.user = u, !.read = read]
    OBVIOUS
  <2>4. next \in Request
    BY <1>3, <2>1, <2>3, TableFacts DEF Request, RequestPc
  <2>5. /\ next.pc = "provision" /\ next.who = here.who /\ next.user = u
        /\ next.known = {} /\ next.inv = here.inv /\ next.read = read
        /\ ~next.loaded /\ next.changes = {} /\ next.back = {}
    BY <1>3, <2>3 DEF Request
  <2>6. \A i \in InvitationIds : UserOf(i) = u => ~invitations[i].open
    BY <1>6 DEF MembershipsOf, UserOf, IInv, InvitationsInv
  <2>7. PathOf(next)
    BY <1>3, <2>1, <2>2, <2>5, <2>6, TableFacts DEF PathOf, ReadOf, LoadOf, UserIds
  <2>8. req' = [req EXCEPT ![r] = next]
    BY <1>2, <1>6, <2>2, <2>3
  <2>9. QED BY <1>1, <2>4, <2>7, <2>8, QuietKeeps, Goes
<1>7. CASE LinkedTo(here.who) = {}
  <2>1. PICK pc \in {"match", "provision"} :
           Go(r, pc) /\ (pc = "match" => profile[here.who].verified)
    BY <1>2, <1>7 DEF FindUser
  <2>2. QED BY <1>1, <1>5, <2>1
<1>8. CASE LinkedTo(here.who) # {}
  BY <1>1, <1>2, <1>4, <1>6, <1>8 DEF FindUser
<1>9. QED BY <1>7, <1>8

(* The user with the verified e-mail is linked, with his memberships as they  *)
(* are.                                                                       *)
LEMMA Matches ==
    ASSUME IInv, NEW r \in Requests, Match(r)
    PROVE  Quiet /\ UNCHANGED <<queued, notified, made>> /\ Moves(r)
<1>1. Quiet /\ UNCHANGED <<queued, notified, made>>
  BY DEF Match, Quiet
<1>2. PICK here : here = req[r]
  OBVIOUS
<1>3. /\ here \in Request /\ PathOf(here) /\ here.pc = "match" /\ here.who \in Identities
      /\ here.user = 0 /\ here.known = {} /\ here.changes = {} /\ here.back = {}
      /\ ~here.loaded /\ profile[here.who].verified
  BY <1>2 DEF IInv, RequestsInv, PathOf, ReadOf, LoadOf, Match
<1>4. CASE Done(r)
  BY <1>1, <1>4, QuietKeeps, Ends
<1>5. CASE Go(r, "provision")
  <2>1. PICK next : next = [here EXCEPT !.pc = "provision"]
    OBVIOUS
  <2>2. next \in Request
    BY <1>3, <2>1 DEF Request, RequestPc
  <2>3. /\ next.pc = "provision" /\ next.who = here.who /\ next.user = 0
        /\ next.known = {} /\ next.inv = here.inv
        /\ ~next.loaded /\ next.changes = {} /\ next.back = {}
    BY <1>3, <2>1 DEF Request
  <2>4. PathOf(next)
    BY <1>3, <2>3, TableFacts DEF PathOf, ReadOf, LoadOf
  <2>5. req' = [req EXCEPT ![r] = next]
    BY <1>2, <1>5, <2>1 DEF Go
  <2>6. QED BY <1>1, <2>2, <2>4, <2>5, QuietKeeps, Goes
<1>6. ASSUME NEW u \in UsersWith(profile[here.who].email),
             req' = [req EXCEPT ![r].pc = "link", ![r].user = u, ![r].read = users[u],
                                ![r].known = WithRoles(MembershipsOf(u))]
      PROVE  Moves(r)
  <2>1. u \in UserIds /\ Same(users[u].email, profile[here.who].email) /\ users[u] \in User
    BY TableFacts DEF UsersWith
  <2>2. PICK read \in User : read = users[u]
    BY <2>1
  <2>3. PICK known : known = WithRoles(MembershipsOf(u))
    OBVIOUS
  <2>4. /\ known \subseteq MembershipIds \X Roles
        /\ \A k \in known : k[1] \in MembershipIds /\ memberships[k[1]].role = k[2]
        /\ known = {} => MembershipsOf(u) = {}
    <3>1. \A m \in MembershipsOf(u) : m \in MembershipIds /\ memberships[m].role \in Roles
      BY TableFacts DEF MembershipsOf, Membership
    <3>2. known = {<<m, memberships[m].role>> : m \in MembershipsOf(u)}
      BY <2>3 DEF WithRoles
    <3>3. \A k \in known : \E m \in MembershipsOf(u) : k = <<m, memberships[m].role>>
      BY <3>2
    <3>4. \A m \in MembershipsOf(u) : <<m, memberships[m].role>> \in known
      BY <3>2
    <3>5. ASSUME NEW k \in known
          PROVE  k \in MembershipIds \X Roles /\ memberships[k[1]].role = k[2]
      <4>1. PICK m \in MembershipsOf(u) : k = <<m, memberships[m].role>>
        BY <3>3
      <4>2. QED BY <3>1, <4>1
    <3>6. known = {} => MembershipsOf(u) = {}
      BY <3>4
    <3>7. QED BY <3>5, <3>6
  <2>5. PICK next : next = [here EXCEPT !.pc = "link", !.user = u, !.read = read,
                                        !.known = known]
    OBVIOUS
  <2>6. next \in Request
    <3>1. known \in SUBSET (Nat \X Roles) /\ u \in Nat
      BY <2>1, <2>4, TableFacts DEF MembershipIds, UserIds
    <3>2. QED BY <1>3, <2>5, <3>1 DEF Request, RequestPc
  <2>7. /\ next.pc = "link" /\ next.who = here.who /\ next.user = u /\ next.known = known
        /\ next.inv = here.inv /\ next.read = read
        /\ ~next.loaded /\ next.changes = {} /\ next.back = {}
    BY <1>3, <2>5 DEF Request
  <2>8. Same(profile[here.who].email, users[u].email)
    BY <2>1, SameClass
  <2>9. ASSUME NEW i \in InvitationIds, Unanswered(i), UserOf(i) = u
        PROVE  Same(profile[here.who].email, invitations[i].email)
    <3>1. Same(users[u].email, invitations[i].email)
      BY <2>9 DEF Waits, Same, IInv, InvitationsInv
    <3>2. QED BY <2>8, <3>1, SameClass
  <2>10. \A k \in known, i \in InvitationIds :
            k[2] = "member" /\ invitations[i].membership = k[1] => invitations[i].accepted
    BY <2>4 DEF IInv, MembersAccepted
  <2>11. known = {} => \A i \in InvitationIds : UserOf(i) = u => ~invitations[i].open
    BY <2>4 DEF MembershipsOf, UserOf, IInv, InvitationsInv
  <2>12. ReadOf(next)
    BY <1>3, <2>1, <2>2, <2>4, <2>7, <2>8, <2>9, <2>10, <2>11, TableFacts
       DEF PathOf, ReadOf, UserIds
  <2>13. LoadOf(next)
    BY <2>7 DEF LoadOf
  <2>14. req' = [req EXCEPT ![r] = next]
    BY <1>2, <1>6, <2>2, <2>3, <2>5
  <2>15. QED BY <1>1, <2>6, <2>12, <2>13, <2>14, QuietKeeps, Goes DEF PathOf
<1>7. QED BY <1>1, <1>2, <1>4, <1>5, <1>6 DEF Match

(* The user of an invitation accepts it, and its membership becomes a         *)
(* member's.                                                                  *)
LEMMA FindsInvitation ==
    ASSUME IInv, NEW r \in Requests, FindInvitation(r)
    PROVE  Quiet /\ UNCHANGED <<queued, notified, made>> /\ Moves(r)
<1>1. Quiet /\ UNCHANGED <<queued, notified, made>>
  BY DEF FindInvitation, Quiet
<1>2. PICK here : here = req[r]
  OBVIOUS
<1>3. /\ here \in Request /\ PathOf(here) /\ here.pc = "invited" /\ here.who \in Identities
      /\ ~here.loaded /\ here.changes \subseteq MembershipIds \X Roles
      /\ here.back \subseteq MembershipIds
  BY <1>2 DEF IInv, RequestsInv, PathOf, ReadOf, LoadOf, FindInvitation
<1>4. PICK i \in InvitationIds : i = here.inv
  BY <1>3, RequestFacts DEF PathOf, ReadOf
<1>5. PICK u \in UserIds : u = UserOf(i)
  BY TableFacts
<1>6. PICK read \in User : read = users[u]
  BY TableFacts
<1>7. PICK m \in MembershipIds : m = invitations[i].membership
  BY DEF IInv, InvitationsInv
<1>8. PICK known : known = {<<m, "member">>}
  OBVIOUS
<1>9. CASE Done(r)
  BY <1>1, <1>9, QuietKeeps, Ends
<1>10. CASE req' = [req EXCEPT ![r].pc = "accept", ![r].user = u, ![r].read = read,
                               ![r].known = known]
  <2>1. PICK next : next = [here EXCEPT !.pc = "accept", !.user = u, !.read = read,
                                        !.known = known]
    OBVIOUS
  <2>2. known \subseteq MembershipIds \X Roles /\ known \in SUBSET (Nat \X Roles) /\ u \in Nat
    BY <1>8, TableFacts DEF Roles
  <2>3. next \in Request
    BY <1>3, <2>1, <2>2 DEF Request, RequestPc
  <2>4. /\ next.pc = "accept" /\ next.who = here.who /\ next.user = u
        /\ next.known = known /\ next.inv = i /\ ~next.loaded
        /\ next.changes = here.changes /\ next.back = here.back
    BY <1>3, <1>4, <2>1 DEF Request
  <2>5. \A j \in InvitationIds : invitations[j].membership = m => j = i
    BY <1>7 DEF IInv, InvitationsInv, UserOf
  <2>6. ReadOf(next)
    BY <1>3, <1>5, <1>8, <2>2, <2>4, <2>5, TableFacts DEF ReadOf, UserIds, InvitationIds
  <2>7. LoadOf(next)
    BY <1>3, <2>4 DEF LoadOf
  <2>8. req' = [req EXCEPT ![r] = next]
    BY <1>2, <1>10, <2>1
  <2>9. QED BY <1>1, <2>3, <2>6, <2>7, <2>8, QuietKeeps, Goes DEF PathOf
<1>11. QED BY <1>1, <1>2, <1>4, <1>5, <1>6, <1>7, <1>8, <1>9, <1>10
           DEF FindInvitation, UserOf

(* What a save reads again: the roles are those it was to write, and a user   *)
(* to be provisioned has no membership.                                       *)
LEMMA Loads ==
    ASSUME IInv, NEW r \in Requests, Load(r)
    PROVE  Quiet /\ UNCHANGED <<queued, notified, made>> /\ Moves(r)
<1>1. Quiet /\ UNCHANGED <<queued, notified, made>>
  BY DEF Load, Quiet
<1>2. PICK here : here = req[r]
  OBVIOUS
<1>3. /\ here \in Request /\ PathOf(here) /\ here.pc \in {"link", "provision", "accept"}
      /\ here.user \in UserIds /\ here.who \in Identities
      /\ here.known \subseteq MembershipIds \X Roles
  <2>1. here \in Request /\ PathOf(here) /\ here.pc \in {"link", "provision", "accept"}
        /\ here.user # 0
    BY <1>2 DEF IInv, RequestsInv, Load
  <2>2. QED BY <2>1, RequestFacts DEF PathOf, ReadOf
<1>4. PICK columns : columns = {c \in {"email", "identity"} :
                                   users[here.user][c] # Mapped(here.who)[c]}
  OBVIOUS
<1>5. PICK changes : changes = {k \in here.known : memberships[k[1]].role # k[2]}
  OBVIOUS
<1>6. PICK back : back = {k[1] : k \in {l \in here.known :
                             nulls = "null" /\ ~memberships[l[1]].live}}
  OBVIOUS
<1>7. PICK seen : seen = IF here.pc = "provision" THEN Len(memberships) ELSE 0
  OBVIOUS
<1>8. PICK next : next = [here EXCEPT !.loaded = TRUE, !.seen = seen, !.columns = columns,
                                      !.changes = changes, !.back = back]
  OBVIOUS
<1>9. /\ seen \in Nat /\ columns \subseteq {"email", "identity"}
      /\ changes \subseteq here.known
      /\ back \subseteq MembershipIds /\ \A m \in back : \E k \in here.known : k[1] = m
  BY <1>3, <1>4, <1>5, <1>6, <1>7, TableFacts
<1>10. next \in Request
  <2>1. changes \in SUBSET (Nat \X Roles) /\ back \in SUBSET Nat
    BY <1>3, <1>9, TableFacts
  <2>2. QED BY <1>3, <1>8, <1>9, <2>1 DEF Request
<1>11. /\ next.pc = here.pc /\ next.who = here.who /\ next.user = here.user
       /\ next.known = here.known /\ next.inv = here.inv /\ next.read = here.read
       /\ next.seen = seen /\ next.loaded /\ next.columns = columns
       /\ next.changes = changes /\ next.back = back
  BY <1>3, <1>8 DEF Request
<1>12. ReadOf(next)
  BY <1>3, <1>11 DEF PathOf, ReadOf, Idle
<1>13. LoadOf(next)
  <2>1. "identity" \notin columns => users[here.user].identity # None
    BY <1>3, <1>4, AccountBounds DEF Mapped
  <2>2. ASSUME here.pc = "provision"
        PROVE  /\ seen <= Len(memberships) /\ changes = {} /\ back = {}
               /\ \A m \in 1..seen : memberships[m].user = here.user => ~memberships[m].live
    <3>1. here.known = {} /\ seen = Len(memberships)
      BY <1>3, <1>7, <2>2 DEF PathOf, ReadOf
    <3>2. changes = {} /\ back = {}
      BY <1>9, <3>1
    <3>3. KnowsAll(r, here.user)
      BY <1>2 DEF Load
    <3>4. MembershipsOf(here.user) = {}
      <4>1. MembershipsOf(here.user) \subseteq {k[1] : k \in here.known}
        BY <1>2, <2>2, <3>3 DEF KnowsAll
      <4>2. {k[1] : k \in here.known} = {}
        BY <3>1
      <4>3. QED BY <4>1, <4>2
    <3>5. \A m \in 1..seen : memberships[m].user = here.user => ~memberships[m].live
      BY <3>1, <3>4 DEF MembershipsOf, MembershipIds
    <3>6. seen <= Len(memberships)
      BY <3>1, TableFacts
    <3>7. QED BY <3>2, <3>5, <3>6
  <2>3. QED BY <1>3, <1>9, <1>11, <2>1, <2>2, TableFacts DEF LoadOf
<1>14. req' = [req EXCEPT ![r] = next]
  BY <1>2, <1>4, <1>5, <1>6, <1>7, <1>8 DEF Load
<1>15. QED BY <1>1, <1>10, <1>12, <1>13, <1>14, QuietKeeps, Goes DEF PathOf

(* An invitation that is mailed, or said to be, is there.                     *)
LEMMA Notifies ==
    ASSUME IInv, NEW r \in Requests, MailInvitation(r) \/ SaveNotified(r) \/ RequestFails(r)
    PROVE  /\ Quiet /\ made' = made /\ Moves(r)
           /\ queued' \subseteq InvitationIds /\ notified' \subseteq InvitationIds
<1>1. Quiet /\ made' = made
  BY DEF MailInvitation, SaveNotified, RequestFails, Quiet
<1>2. PICK here : here = req[r]
  OBVIOUS
<1>3. here \in Request /\ PathOf(here)
  BY <1>2 DEF IInv, RequestsInv
<1>4. here.pc \in {"mail", "notify"} => here.inv \in InvitationIds
  BY <1>3, RequestFacts DEF PathOf, ReadOf
<1>5. queued' \subseteq InvitationIds /\ notified' \subseteq InvitationIds
  <2>1. queued \subseteq InvitationIds /\ notified \subseteq InvitationIds
    BY DEF IInv, InvitationsInv
  <2>2. queued' = queued \/ (here.pc = "mail" /\ queued' = queued \cup {here.inv})
    BY <1>2 DEF MailInvitation, SaveNotified, RequestFails
  <2>3. notified' = notified \/ (here.pc = "notify" /\ notified' = notified \cup {here.inv})
    BY <1>2 DEF MailInvitation, SaveNotified, RequestFails
  <2>4. QED BY <1>4, <2>1, <2>2, <2>3
<1>6. CASE Done(r)
  BY <1>1, <1>5, <1>6, QuietKeeps, Ends
<1>7. CASE MailInvitation(r)
  <2>1. PICK next : next = [here EXCEPT !.pc = "notify"]
    OBVIOUS
  <2>2. next \in Request
    BY <1>3, <2>1 DEF Request, RequestPc
  <2>3. /\ next.pc = "notify" /\ next.user = here.user /\ next.known = here.known
        /\ next.inv = here.inv /\ here.pc = "mail" /\ next.loaded = here.loaded
        /\ next.changes = here.changes /\ next.back = here.back
    BY <1>2, <1>3, <1>7, <2>1 DEF Request, MailInvitation
  <2>4. PathOf(next)
    BY <1>3, <2>3 DEF PathOf, ReadOf, LoadOf
  <2>5. req' = [req EXCEPT ![r] = next]
    BY <1>2, <1>7, <2>1 DEF MailInvitation, Go
  <2>6. QED BY <1>1, <1>5, <2>2, <2>4, <2>5, QuietKeeps, Goes
<1>8. QED BY <1>1, <1>5, <1>6, <1>7 DEF SaveNotified, RequestFails

-----------------------------------------------------------------------------
(* Saves.                                                                    *)

(* A user is added, without an identity or under a free one.                  *)
LEMMA UserAdded ==
    ASSUME IInv, NEW row \in User, users' = Append(users, row),
           row.identity # None => \A v \in UserIds : users[v].identity # row.identity
    PROVE  /\ UsersInv' /\ Len(users') = Len(users) + 1 /\ users'[Len(users) + 1] = row
           /\ \A v \in UserIds : users'[v] = users[v]
<1>1. /\ users' \in Seq(User) /\ Len(users') = Len(users) + 1
      /\ users'[Len(users) + 1] = row /\ \A v \in UserIds : users'[v] = users[v]
  BY AppendProperties, TableFacts DEF IInv, UsersInv, UserIds
<1>2. UserIds' = UserIds \cup {Len(users) + 1}
  BY <1>1, TableFacts DEF UserIds
<1>3. ASSUME NEW v \in UserIds', NEW w \in UserIds',
             users'[v].identity = users'[w].identity, users'[v].identity # None
      PROVE  v = w
  <2>1. CASE v \in UserIds /\ w \in UserIds
    BY ZenonT(60), <1>1, <1>3, <2>1 DEF IInv, UsersInv
  <2>2. CASE v = Len(users) + 1 \/ w = Len(users) + 1
    BY <1>1, <1>2, <1>3, <2>2
  <2>3. QED BY <1>2, <2>1, <2>2
<1>4. QED BY <1>1, <1>3 DEF UsersInv

(* The user of a request is saved: he has an identity then, and it and his    *)
(* e-mail are the request's or as they were.                                  *)
LEMMA UserWritten ==
    ASSUME IInv, NEW r \in Requests, req[r].pc \in {"link", "provision", "accept"}, Saves(r),
           req[r].user # 0
    PROVE  /\ UsersInv' /\ Len(users') = Len(users)
           /\ \A v \in UserIds \ {req[r].user} : users'[v] = users[v]
           /\ users'[req[r].user].identity # None
           /\ users'[req[r].user].identity \in {users[req[r].user].identity, req[r].who}
           /\ users'[req[r].user].email
                 \in {users[req[r].user].email, profile[req[r].who].email}
<1>1. PICK here : here = req[r]
  OBVIOUS
<1>2. here \in Request /\ PathOf(here) /\ here.loaded /\ here.who \in Identities
  BY <1>1 DEF IInv, RequestsInv, Saves, PathOf, ReadOf
<1>3. PICK u \in UserIds : u = here.user
  BY <1>1, <1>2, RequestFacts
<1>4. PICK p \in Identities : p = here.who
  BY <1>2
<1>5. PICK row \in User : row = users[u]
  BY TableFacts
<1>6. PICK email \in Emails \cup {None} :
         /\ email = IF "email" \in here.columns THEN profile[p].email ELSE row.email
         /\ email \in {row.email, profile[p].email}
  BY DEF User, IInv, FixedOK
<1>7. PICK identity \in Identities \cup {None} :
         /\ identity = IF "identity" \in here.columns THEN p ELSE row.identity
         /\ identity \in {row.identity, p}
  BY DEF User
<1>8. identity # None
  BY <1>2, <1>3, <1>5, <1>7, AccountBounds DEF PathOf, LoadOf
<1>9. PICK new : new = [row EXCEPT !.email = email, !.identity = identity]
  OBVIOUS
<1>10. new \in User /\ new.email = email /\ new.identity = identity
  BY <1>9 DEF User
<1>11. users' = [users EXCEPT ![u] = new]
  <2>1. users' = SavedUsers(r)
    BY DEF Saves
  <2>2. SavedUsers(r) = [users EXCEPT ![u].email = email, ![u].identity = identity]
    BY <1>1, <1>3, <1>4, <1>5, <1>6, <1>7, TableFacts DEF SavedUsers, User
  <2>3. QED BY <1>5, <1>9, <2>1, <2>2, TableFacts
<1>12. /\ users' \in Seq(User) /\ Len(users') = Len(users) /\ users'[u] = new
       /\ \A v \in UserIds \ {u} : users'[v] = users[v]
  BY <1>10, <1>11, TableFacts, ExceptSeq DEF IInv, UsersInv
<1>13. \A v \in UserIds \ {u} : users[v].identity # identity
  <2>1. CASE "identity" \in here.columns
    <3>1. IdentityFree(p, u) /\ identity = p
      BY <1>1, <1>3, <1>4, <1>7, <2>1 DEF Saves
    <3>2. QED BY <3>1 DEF IdentityFree, LinkedTo
  <2>2. CASE "identity" \notin here.columns
    BY <1>5, <1>7, <1>8, <2>2 DEF IInv, UsersInv
  <2>3. QED BY <2>1, <2>2
<1>14. \A v, w \in UserIds : users'[v].identity = users'[w].identity
                              /\ users'[v].identity # None => v = w
  BY <1>10, <1>12, <1>13 DEF IInv, UsersInv
<1>15. UserIds' = UserIds
  BY <1>12 DEF UserIds
<1>16. UsersInv'
  BY <1>12, <1>14, <1>15 DEF UsersInv
<1>17. QED BY <1>1, <1>3, <1>4, <1>5, <1>6, <1>7, <1>8, <1>10, <1>12, <1>16

(* A new one has what the request brings.                                     *)
LEMMA UserCreated ==
    ASSUME IInv, NEW r \in Requests, req[r].pc = "provision", Saves(r), req[r].user = 0
    PROVE  /\ UsersInv' /\ Len(users') = Len(users) + 1
           /\ \A v \in UserIds : users'[v] = users[v]
<1>1. PICK p \in Identities : p = req[r].who
  BY DEF IInv, RequestsInv, PathOf, ReadOf
<1>2. PICK row : row = Mapped(p)
  OBVIOUS
<1>3. row \in User /\ row.identity = p
  BY <1>2 DEF Mapped, User, IInv, FixedOK
<1>4. users' = Append(users, row) /\ IdentityFree(p, 0)
  BY <1>1, <1>2 DEF Saves, SavedUsers
<1>5. \A v \in UserIds : users[v].identity # p
  BY <1>4, TableFacts DEF IdentityFree, LinkedTo
<1>6. QED BY <1>3, <1>4, <1>5, UserAdded

(* Memberships are saved in the roles that were read again, and brought back. *)
LEMMA MembersWritten ==
    ASSUME IInv, NEW r \in Requests
    PROVE  /\ SavedMemberships(r) \in Seq(Membership)
           /\ Len(SavedMemberships(r)) = Len(memberships)
           /\ \A m \in MembershipIds :
                 /\ SavedMemberships(r)[m].user = memberships[m].user
                 /\ SavedMemberships(r)[m].own = memberships[m].own
                 /\ SavedMemberships(r)[m].seen = memberships[m].seen
                 /\ memberships[m].live => SavedMemberships(r)[m].live
                 /\ memberships[m].back => SavedMemberships(r)[m].back
                 /\ SavedMemberships(r)[m].live
                       => memberships[m].live \/ SavedMemberships(r)[m].back
                 /\ \/ SavedMemberships(r)[m].role = memberships[m].role
                    \/ <<m, SavedMemberships(r)[m].role>> \in req[r].changes
           /\ req[r].changes = {} /\ req[r].back = {} =>
                 \A m \in MembershipIds : SavedMemberships(r)[m] = memberships[m]
<1>1. PICK saved : saved = SavedMemberships(r)
  OBVIOUS
<1>2. PICK here : here = req[r] /\ here \in Request
  BY DEF IInv, RequestsInv
<1>3. ASSUME NEW m \in MembershipIds
      PROVE  /\ saved[m] \in Membership
             /\ saved[m].user = memberships[m].user /\ saved[m].own = memberships[m].own
             /\ saved[m].seen = memberships[m].seen
             /\ memberships[m].live => saved[m].live
             /\ memberships[m].back => saved[m].back
             /\ saved[m].live => memberships[m].live \/ saved[m].back
             /\ saved[m].role = memberships[m].role \/ <<m, saved[m].role>> \in here.changes
             /\ here.changes = {} /\ here.back = {} => saved[m] = memberships[m]
  <2>1. PICK row \in Membership : row = memberships[m]
    BY TableFacts
  <2>2. PICK role \in Roles :
           /\ role = IF \E k \in here.changes : k[1] = m
                     THEN CHOOSE x \in Roles : <<m, x>> \in here.changes ELSE row.role
           /\ role = row.role \/ <<m, role>> \in here.changes
           /\ here.changes = {} => role = row.role
    <3>1. CASE \E k \in here.changes : k[1] = m
      <4>1. PICK k \in here.changes : k[1] = m
        BY <3>1
      <4>2. k \in Nat \X Roles /\ k = <<m, k[2]>>
        BY <1>2, <4>1 DEF Request
      <4>3. PICK x \in Roles : /\ <<m, x>> \in here.changes
                               /\ x = CHOOSE y \in Roles : <<m, y>> \in here.changes
        BY <4>1, <4>2
      <4>4. QED BY <3>1, <4>3
    <3>2. CASE ~\E k \in here.changes : k[1] = m
      BY <3>2 DEF Membership
    <3>3. QED BY <3>1, <3>2
  <2>3. PICK live \in BOOLEAN : live = (row.live \/ m \in here.back)
    OBVIOUS
  <2>4. PICK back \in BOOLEAN : back = (row.back \/ m \in here.back)
    OBVIOUS
  <2>5. saved[m] = [row EXCEPT !.role = role, !.live = live, !.back = back]
    BY <1>1, <1>2, <2>1, <2>2, <2>3, <2>4 DEF SavedMemberships, Membership
  <2>6. /\ saved[m] \in Membership /\ saved[m].user = row.user /\ saved[m].own = row.own
        /\ saved[m].seen = row.seen /\ saved[m].role = role /\ saved[m].live = live
        /\ saved[m].back = back
    BY <2>5 DEF Membership
  <2>7. here.changes = {} /\ here.back = {} => saved[m] = row
    <3>1. SUFFICES ASSUME here.changes = {}, here.back = {} PROVE saved[m] = row
      OBVIOUS
    <3>2. role = row.role /\ live = row.live /\ back = row.back
      BY <2>2, <2>3, <2>4, <3>1 DEF Membership
    <3>3. QED BY <2>6, <3>2 DEF Membership
  <2>8. QED BY <2>1, <2>2, <2>3, <2>4, <2>6, <2>7
<1>4. saved \in Seq(Membership) /\ Len(saved) = Len(memberships)
  <2>1. saved \in [1..Len(memberships) -> Membership]
    BY <1>1, <1>3 DEF SavedMemberships, MembershipIds
  <2>2. saved \in Seq(Membership)
    BY <2>1, TableFacts, SeqDef
  <2>3. QED BY <2>1, <2>2, TableFacts, LenProperties
<1>5. QED BY <1>1, <1>2, <1>3, <1>4

(* Memberships change in their role, or in that they are live.                *)
LEMMA MembersSaved ==
    ASSUME IInv, memberships' \in Seq(Membership), Len(memberships') = Len(memberships),
           Len(users') \in Nat, Len(users) <= Len(users'),
           \A m \in MembershipIds :
              /\ memberships'[m].user = memberships[m].user
              /\ memberships'[m].own = memberships[m].own
              /\ memberships'[m].seen = memberships[m].seen
              /\ memberships[m].back => memberships'[m].back
              /\ memberships'[m].live => memberships[m].live \/ memberships'[m].back
    PROVE  MembersInv'
<1>1. MembershipIds' = MembershipIds /\ UserIds \subseteq UserIds'
  BY TableFacts DEF MembershipIds, UserIds
<1>2. QED BY <1>1 DEF IInv, MembersInv

(* Or one is added, which owns nothing or saw that its user had none.         *)
LEMMA MemberAdded ==
    ASSUME IInv, NEW row \in Membership, NEW saved \in Seq(Membership),
           memberships' = Append(saved, row), Len(saved) = Len(memberships),
           \A m \in MembershipIds : saved[m] = memberships[m],
           Len(users') \in Nat, Len(users) <= Len(users'), row.user \in UserIds',
           row.own => \A m \in MembershipIds :
                         memberships[m].user = row.user /\ memberships[m].live
                            => row.seen < m \/ memberships[m].back
    PROVE  /\ MembersInv' /\ Len(memberships') = Len(memberships) + 1
           /\ memberships'[Len(memberships) + 1] = row
           /\ \A m \in MembershipIds : memberships'[m] = memberships[m]
<1>1. /\ memberships' \in Seq(Membership) /\ Len(memberships') = Len(memberships) + 1
      /\ memberships'[Len(memberships) + 1] = row
      /\ \A m \in MembershipIds : memberships'[m] = saved[m]
  BY AppendProperties, TableFacts DEF MembershipIds
<1>2. \A m \in MembershipIds : memberships'[m] = memberships[m]
  BY <1>1
<1>3. MembershipIds' = MembershipIds \cup {Len(memberships) + 1}
  BY <1>1, TableFacts DEF MembershipIds
<1>4. UserIds \subseteq UserIds'
  BY TableFacts DEF UserIds
<1>5. \A m \in MembershipIds' : memberships'[m].user \in UserIds'
  BY <1>1, <1>2, <1>3, <1>4 DEF IInv, MembersInv
<1>6. ASSUME NEW m \in MembershipIds', NEW n \in MembershipIds',
             m < n, memberships'[n].own, memberships'[m].user = memberships'[n].user,
             memberships'[m].live
      PROVE  memberships'[n].seen < m \/ memberships'[m].back
  <2>1. m \in MembershipIds
    BY <1>3, <1>6, TableFacts DEF MembershipIds
  <2>2. CASE n \in MembershipIds
    BY <1>2, <1>6, <2>1, <2>2 DEF IInv, MembersInv
  <2>3. CASE n = Len(memberships) + 1
    BY <1>1, <1>2, <1>6, <2>1, <2>3
  <2>4. QED BY <1>3, <2>2, <2>3
<1>7. QED BY <1>1, <1>2, <1>5, <1>6 DEF MembersInv

(* Invitations are answered or closed, and their memberships and users saved. *)
LEMMA InvitationsSaved ==
    ASSUME IInv, UNCHANGED <<fixed, queued, notified>>,
           invitations' \in Seq(Invitation), Len(invitations') = Len(invitations),
           Len(users') \in Nat, Len(users) <= Len(users'),
           \A u \in UserIds : users[u].identity # None => users'[u].identity # None,
           Len(memberships') \in Nat, Len(memberships) <= Len(memberships'),
           \A m \in MembershipIds :
              /\ memberships'[m].user = memberships[m].user
              /\ memberships'[m].own = memberships[m].own
              /\ memberships[m].back => memberships'[m].back
              /\ memberships'[m].live => memberships[m].live \/ memberships'[m].back,
           \A i \in InvitationIds :
              /\ invitations'[i].membership = invitations[i].membership
              /\ invitations'[i].email = invitations[i].email
              /\ invitations'[i].seen = invitations[i].seen
              /\ invitations[i].accepted => invitations'[i].accepted
              /\ invitations'[i].open => /\ invitations[i].open
                                         /\ memberships'[invitations[i].membership].live
              /\ Unanswered(i)' /\ Unanswered(i) =>
                    \/ users'[UserOf(i)].email \in
                          {users[UserOf(i)].email, invitations[i].email}
                    \/ /\ users'[UserOf(i)].identity # None
                       /\ Respelt(invitations[i].email)
                       /\ Same(users'[UserOf(i)].email, invitations[i].email)
              /\ memberships'[invitations[i].membership].role = "member"
                    => invitations'[i].accepted
    PROVE  Kept /\ InvitationsInv' /\ MembersAccepted' /\ OneOpenInvitation'
<1>1. InvitationIds' = InvitationIds /\ MembershipIds \subseteq MembershipIds'
  BY TableFacts DEF InvitationIds, MembershipIds
<1>2. Kept
  BY <1>1, TableFacts DEF Kept
<1>3. ASSUME NEW i \in InvitationIds, Unanswered(i)'
      PROVE  Waits(i)'
  <2>1. /\ UserOf(i)' = UserOf(i) /\ Unanswered(i)
        /\ Linked(i) => Linked(i)'
        /\ invitations'[i].email = invitations[i].email
    BY <1>2, <1>3, StaysAnswered
  <2>2. Waits(i)
    BY <2>1 DEF IInv, InvitationsInv
  <2>3. PICK e : e = invitations[i].email
    OBVIOUS
  <2>4. PICK u : u = UserOf(i)
    OBVIOUS
  <2>5. Waits(i)' <=> \/ users'[u].email = e
                      \/ Linked(i)' /\ Same(users'[u].email, e)
    BY <2>1, <2>3, <2>4 DEF Waits, Same
  <2>6. Linked(i)' <=> users'[u].identity # None /\ Respelt(e)
    BY <2>1, <2>3, <2>4 DEF Linked, Respelt
  <2>7. CASE users'[u].email = e
    BY <2>5, <2>7
  <2>8. CASE users'[u].email = users[u].email
    BY <2>1, <2>2, <2>3, <2>4, <2>5, <2>8 DEF Waits
  <2>9. CASE users'[u].identity # None /\ Respelt(e) /\ Same(users'[u].email, e)
    BY <2>5, <2>6, <2>9
  <2>10. QED BY <1>3, <2>1, <2>3, <2>4, <2>7, <2>8, <2>9
<1>4. InvitationsInv'
  <2>1. \A i \in InvitationIds : UserOf(i)' = UserOf(i)
    BY <1>2, StaysAnswered
  <2>2. QED BY SMTT(30), <1>1, <1>3, <2>1 DEF IInv, InvitationsInv
<1>5. MembersAccepted'
  BY <1>1 DEF MembersAccepted
<1>6. OneOpenInvitation'
  <2>1. SUFFICES ASSUME NEW i \in InvitationIds, NEW j \in InvitationIds, i < j,
                        Unanswered(i)', Unanswered(j)',
                        invitations'[i].email = invitations'[j].email
                 PROVE  invitations'[j].seen < i \/ Linked(i)'
    BY <1>1 DEF OneOpenInvitation, Unanswered, Linked
  <2>2. Unanswered(i) /\ Unanswered(j) /\ invitations[i].email = invitations[j].email
    BY <1>2, <2>1, StaysAnswered
  <2>3. invitations[j].seen < i \/ Linked(i)
    BY <2>1, <2>2 DEF IInv, OneOpenInvitation, Unanswered, Linked
  <2>4. QED BY <1>2, <2>3, StaysAnswered
<1>7. QED BY <1>2, <1>4, <1>5, <1>6

(* What a save leaves behind.                                                 *)
Saved ==
    /\ Kept /\ UsersInv' /\ MembersInv' /\ InvitationsInv'
    /\ MembersAccepted' /\ OneOpenInvitation' /\ made' = made

(* An invitation of the user who is linked is his under another spelling, if  *)
(* not under the same.  One that was accepted since had the role of a member  *)
(* when it was read.                                                          *)
LEMMA Links ==
    ASSUME IInv, NEW r \in Requests, Link(r)
    PROVE  Saved /\ Moves(r)
<1>1. PICK here : here = req[r]
  OBVIOUS
<1>2. /\ here \in Request /\ PathOf(here) /\ here.pc = "link" /\ here.loaded
      /\ here.user \in UserIds /\ here.user # 0 /\ here.who \in Identities
  <2>1. here \in Request /\ PathOf(here) /\ here.pc = "link"
    BY <1>1 DEF IInv, RequestsInv, Link
  <2>2. here.user # 0
    BY <2>1 DEF PathOf, ReadOf
  <2>3. QED BY <1>1, <2>1, <2>2, RequestFacts DEF PathOf, ReadOf, Link, Saves
<1>3. PICK u \in UserIds : u = here.user
  BY <1>2
<1>4. /\ UsersInv' /\ Len(users') = Len(users)
      /\ \A v \in UserIds \ {u} : users'[v] = users[v]
      /\ users'[u].identity # None
      /\ users'[u].email \in {users[u].email, profile[here.who].email}
  BY <1>1, <1>2, <1>3, UserWritten DEF Link
<1>5. UNCHANGED <<fixed, invitations, notified, made, queued>>
      /\ memberships' = SavedMemberships(r)
  BY DEF Link
<1>6. /\ memberships' \in Seq(Membership) /\ Len(memberships') = Len(memberships)
      /\ \A m \in MembershipIds :
            /\ memberships'[m].user = memberships[m].user
            /\ memberships'[m].own = memberships[m].own
            /\ memberships'[m].seen = memberships[m].seen
            /\ memberships[m].live => memberships'[m].live
            /\ memberships[m].back => memberships'[m].back
            /\ memberships'[m].live => memberships[m].live \/ memberships'[m].back
            /\ \/ memberships'[m].role = memberships[m].role
               \/ <<m, memberships'[m].role>> \in here.known
  <2>1. here.changes \subseteq here.known
    BY <1>2 DEF PathOf, LoadOf
  <2>2. PICK saved : saved = SavedMemberships(r)
    OBVIOUS
  <2>3. memberships' = saved
    BY <1>5, <2>2
  <2>4. /\ saved \in Seq(Membership) /\ Len(saved) = Len(memberships)
        /\ \A m \in MembershipIds :
              /\ saved[m].user = memberships[m].user
              /\ saved[m].own = memberships[m].own
              /\ saved[m].seen = memberships[m].seen
              /\ memberships[m].live => saved[m].live
              /\ memberships[m].back => saved[m].back
              /\ saved[m].live => memberships[m].live \/ saved[m].back
              /\ \/ saved[m].role = memberships[m].role
                 \/ <<m, saved[m].role>> \in here.changes
    BY <1>1, <2>2, MembersWritten
  <2>5. QED BY <2>1, <2>3, <2>4
<1>7. /\ Len(users') \in Nat /\ Len(users) <= Len(users')
      /\ Len(memberships') \in Nat /\ Len(memberships) <= Len(memberships')
  BY <1>4, <1>6, TableFacts
<1>8. MembersInv'
  BY <1>6, <1>7, MembersSaved
<1>9. ASSUME NEW i \in InvitationIds
      PROVE  /\ invitations'[i] = invitations[i]
             /\ invitations[i].open => memberships'[invitations[i].membership].live
             /\ Unanswered(i)' /\ Unanswered(i) =>
                   \/ users'[UserOf(i)].email \in
                         {users[UserOf(i)].email, invitations[i].email}
                   \/ /\ users'[UserOf(i)].identity # None
                      /\ Respelt(invitations[i].email)
                      /\ Same(users'[UserOf(i)].email, invitations[i].email)
             /\ memberships'[invitations[i].membership].role = "member"
                   => invitations[i].accepted
  <2>1. PICK m \in MembershipIds : m = invitations[i].membership
    BY DEF IInv, InvitationsInv
  <2>2. Unanswered(i) /\ UserOf(i) = u =>
           \/ users'[u].email \in {users[u].email, invitations[i].email}
           \/ /\ users'[u].identity # None /\ Respelt(invitations[i].email)
              /\ Same(users'[u].email, invitations[i].email)
    <3>1. SUFFICES ASSUME Unanswered(i), UserOf(i) = u,
                          users'[u].email = profile[here.who].email,
                          users'[u].email # invitations[i].email
                   PROVE  Respelt(invitations[i].email)
                          /\ Same(users'[u].email, invitations[i].email)
      BY <1>4
    <3>2. /\ profile[here.who].verified
          /\ Same(profile[here.who].email, invitations[i].email)
      BY <1>2, <1>3, <3>1 DEF PathOf, ReadOf
    <3>3. QED BY <1>2, <3>1, <3>2 DEF Respelt
  <2>3. Unanswered(i) /\ UserOf(i) # u => users'[UserOf(i)].email = users[UserOf(i)].email
    BY <1>4, TableFacts
  <2>4. memberships'[m].role = "member" => invitations[i].accepted
    <3>1. <<m, "member">> \in here.known => invitations[i].accepted
      BY <1>2, <2>1 DEF PathOf, ReadOf
    <3>2. QED BY <1>6, <2>1, <3>1 DEF IInv, MembersAccepted
  <2>5. QED BY <1>5, <1>6, <2>1, <2>2, <2>3, <2>4 DEF IInv, InvitationsInv
<1>10. Kept /\ InvitationsInv' /\ MembersAccepted' /\ OneOpenInvitation'
  <2>1. invitations \in Seq(Invitation)
    BY DEF IInv, InvitationsInv
  <2>2. \A v \in UserIds : users[v].identity # None => users'[v].identity # None
    BY <1>4
  <2>3. /\ invitations' \in Seq(Invitation) /\ Len(invitations') = Len(invitations)
        /\ UNCHANGED <<fixed, queued, notified>>
    BY <1>5, <2>1
  <2>4. \A m \in MembershipIds :
           /\ memberships'[m].user = memberships[m].user
           /\ memberships'[m].own = memberships[m].own
           /\ memberships[m].back => memberships'[m].back
           /\ memberships'[m].live => memberships[m].live \/ memberships'[m].back
    BY <1>6
  <2>5. \A i \in InvitationIds :
           /\ invitations'[i].membership = invitations[i].membership
           /\ invitations'[i].email = invitations[i].email
           /\ invitations'[i].seen = invitations[i].seen
           /\ invitations[i].accepted => invitations'[i].accepted
           /\ invitations'[i].open => /\ invitations[i].open
                                      /\ memberships'[invitations[i].membership].live
           /\ Unanswered(i)' /\ Unanswered(i) =>
                 \/ users'[UserOf(i)].email \in
                       {users[UserOf(i)].email, invitations[i].email}
                 \/ /\ users'[UserOf(i)].identity # None
                    /\ Respelt(invitations[i].email)
                    /\ Same(users'[UserOf(i)].email, invitations[i].email)
           /\ memberships'[invitations[i].membership].role = "member"
                 => invitations'[i].accepted
    BY <1>9
  <2>6. QED BY <1>7, <2>2, <2>3, <2>4, <2>5, InvitationsSaved
<1>11. Moves(r)
  <2>1. CASE Done(r)
    BY <1>10, <2>1, Ends
  <2>2. CASE here.known = {}
             /\ req' = [req EXCEPT ![r].pc = "provision", ![r].loaded = FALSE]
    <3>1. PICK next : next = [here EXCEPT !.pc = "provision", !.loaded = FALSE]
      OBVIOUS
    <3>2. next \in Request
      BY <1>2, <3>1 DEF Request, RequestPc
    <3>3. /\ next.pc = "provision" /\ next.who = here.who /\ next.user = here.user
          /\ next.read = here.read /\ next.known = here.known /\ next.inv = here.inv
          /\ ~next.loaded /\ next.changes = here.changes /\ next.back = here.back
      BY <1>2, <3>1 DEF Request
    <3>4. here.changes = {} /\ here.back = {}
      BY <1>2, <2>2 DEF PathOf, LoadOf
    <3>5. ReadOf(next)
      BY <1>2, <2>2, <3>3 DEF PathOf, ReadOf
    <3>6. LoadOf(next)
      BY <3>3, <3>4 DEF LoadOf
    <3>7. req' = [req EXCEPT ![r] = next]
      BY <1>1, <2>2, <3>1
    <3>8. QED BY <1>10, <3>2, <3>5, <3>6, <3>7, Goes DEF PathOf
  <2>3. QED BY <1>1, <2>1, <2>2 DEF Link
<1>12. QED BY <1>4, <1>5, <1>8, <1>10, <1>11 DEF Saved

(* A user who was there had no membership when he was read again, and one who *)
(* was not has none; no invitation of theirs is open.                         *)
LEMMA Provisions ==
    ASSUME IInv, NEW r \in Requests, Provision(r)
    PROVE  Saved /\ Moves(r)
<1>1. PICK here : here = req[r]
  OBVIOUS
<1>2. /\ here \in Request /\ PathOf(here) /\ here.pc = "provision" /\ here.known = {}
      /\ here.changes = {} /\ here.back = {}
  BY <1>1 DEF IInv, RequestsInv, Provision, PathOf, ReadOf, LoadOf
<1>3. PICK u : u = IF here.user = 0 THEN Len(users) + 1 ELSE here.user
  OBVIOUS
<1>4. /\ u = Len(users) + 1 => u \notin UserIds
      /\ here.user = 0 => u = Len(users) + 1
      /\ here.user # 0 => u = here.user /\ u \in UserIds /\ here.loaded
      /\ u \in Nat
  BY <1>1, <1>2, <1>3, RequestFacts, TableFacts DEF UserIds, Provision, Saves
<1>5. PICK row : row = NewOwner(u, IF here.user = 0 THEN Len(memberships) ELSE here.seen)
  OBVIOUS
<1>6. /\ row \in Membership /\ row.user = u /\ row.live
      /\ row.seen = IF here.user = 0 THEN Len(memberships) ELSE here.seen
  BY <1>2, <1>4, <1>5, TableFacts DEF NewOwner, Row, Membership, Roles, Request
<1>7. /\ UsersInv' /\ Len(users') \in Nat /\ Len(users) <= Len(users') /\ u \in UserIds'
      /\ \A v \in UserIds : v # u => users'[v] = users[v]
      /\ \A v \in UserIds : users[v].identity # None => users'[v].identity # None
  <2>1. CASE here.user # 0
    <3>1. /\ UsersInv' /\ Len(users') = Len(users) /\ users'[u].identity # None
          /\ \A v \in UserIds \ {u} : users'[v] = users[v]
      BY <1>1, <1>2, <1>4, <2>1, UserWritten DEF Provision
    <3>2. QED BY <1>4, <2>1, <3>1, TableFacts DEF UserIds
  <2>2. CASE here.user = 0
    <3>1. /\ UsersInv' /\ Len(users') = Len(users) + 1
          /\ \A v \in UserIds : users'[v] = users[v]
      BY <1>1, <1>2, <2>2, UserCreated DEF Provision
    <3>2. QED BY <1>4, <2>2, <3>1, TableFacts DEF UserIds
  <2>3. QED BY <2>1, <2>2
<1>8. PICK saved \in Seq(Membership) :
         /\ saved = SavedMemberships(r) /\ Len(saved) = Len(memberships)
         /\ \A m \in MembershipIds : saved[m] = memberships[m]
  BY <1>1, <1>2, MembersWritten
<1>9. /\ memberships' = Append(saved, row) /\ Done(r)
      /\ UNCHANGED <<fixed, invitations, notified, made, queued>>
  BY <1>1, <1>3, <1>5, <1>8 DEF Provision
<1>10. \A m \in MembershipIds : memberships[m].user = u /\ memberships[m].live
          => row.seen < m \/ memberships[m].back
  <2>1. SUFFICES ASSUME NEW m \in MembershipIds, memberships[m].user = u, memberships[m].live
                 PROVE  row.seen < m \/ memberships[m].back
    OBVIOUS
  <2>2. u \in UserIds
    BY <2>1 DEF IInv, MembersInv
  <2>3. here.user # 0 /\ here.loaded /\ here.user = u
    BY <1>4, <2>2
  <2>4. m \in Nat /\ m >= 1 /\ here.seen \in Nat /\ row.seen = here.seen
    BY <1>2, <1>6, <2>3, TableFacts DEF MembershipIds, Request
  <2>5. m \in 1..here.seen => memberships[m].back
    BY <1>2, <2>1, <2>3 DEF PathOf, LoadOf
  <2>6. QED BY <2>4, <2>5
<1>11. /\ MembersInv' /\ Len(memberships') = Len(memberships) + 1
       /\ \A m \in MembershipIds : memberships'[m] = memberships[m]
  BY <1>6, <1>7, <1>8, <1>9, <1>10, MemberAdded
<1>12. \A i \in InvitationIds :
          Unanswered(i) => users'[UserOf(i)].email = users[UserOf(i)].email
  <2>1. \A i \in InvitationIds : UserOf(i) = u => ~invitations[i].open
    <3>1. SUFFICES ASSUME NEW i \in InvitationIds, UserOf(i) = u
                   PROVE  ~invitations[i].open
      OBVIOUS
    <3>2. u \in UserIds
      BY <3>1, TableFacts
    <3>3. QED BY <1>2, <1>4, <3>1, <3>2 DEF PathOf, ReadOf
  <2>2. QED BY <1>7, <2>1, TableFacts DEF Unanswered
<1>13. Kept /\ InvitationsInv' /\ MembersAccepted' /\ OneOpenInvitation'
  <2>1. /\ invitations' \in Seq(Invitation) /\ Len(invitations') = Len(invitations)
        /\ UNCHANGED <<fixed, queued, notified>>
    BY <1>9 DEF IInv, InvitationsInv
  <2>2. /\ Len(memberships') \in Nat /\ Len(memberships) <= Len(memberships')
        /\ \A m \in MembershipIds :
              /\ memberships'[m].user = memberships[m].user
              /\ memberships'[m].own = memberships[m].own
              /\ memberships[m].back => memberships'[m].back
              /\ memberships'[m].live => memberships[m].live \/ memberships'[m].back
    BY <1>11, TableFacts
  <2>3. \A i \in InvitationIds :
           /\ invitations'[i].membership = invitations[i].membership
           /\ invitations'[i].email = invitations[i].email
           /\ invitations'[i].seen = invitations[i].seen
           /\ invitations[i].accepted => invitations'[i].accepted
           /\ invitations'[i].open => /\ invitations[i].open
                                      /\ memberships'[invitations[i].membership].live
           /\ Unanswered(i)' /\ Unanswered(i) =>
                 \/ users'[UserOf(i)].email \in
                       {users[UserOf(i)].email, invitations[i].email}
                 \/ /\ users'[UserOf(i)].identity # None
                    /\ Respelt(invitations[i].email)
                    /\ Same(users'[UserOf(i)].email, invitations[i].email)
           /\ memberships'[invitations[i].membership].role = "member"
                 => invitations'[i].accepted
    BY <1>9, <1>11, <1>12 DEF IInv, InvitationsInv, MembersAccepted
  <2>4. QED BY <1>7, <2>1, <2>2, <2>3, InvitationsSaved
<1>14. QED BY <1>7, <1>9, <1>11, <1>13, Ends DEF Saved

(* The user of the invitation and its membership are nobody else's, so what is*)
(* saved with them touches no other invitation.                              *)
LEMMA Accepts ==
    ASSUME IInv, NEW r \in Requests, Accept(r)
    PROVE  Saved /\ Moves(r)
<1>1. PICK here : here = req[r]
  OBVIOUS
<1>2. /\ here \in Request /\ PathOf(here) /\ here.pc = "accept" /\ here.user # 0
      /\ here.loaded
  <2>1. here \in Request /\ PathOf(here) /\ here.pc = "accept"
    BY <1>1 DEF IInv, RequestsInv, Accept
  <2>2. QED BY <1>1, <2>1 DEF PathOf, ReadOf, Accept, Saves
<1>3. PICK i \in InvitationIds : i = here.inv
  BY <1>2, RequestFacts DEF PathOf, ReadOf
<1>4. PICK u \in UserIds : u = UserOf(i) /\ u = here.user
  BY <1>2, <1>3, TableFacts DEF PathOf, ReadOf
<1>5. /\ UsersInv' /\ Len(users') = Len(users) /\ users'[u].identity # None
      /\ \A v \in UserIds \ {u} : users'[v] = users[v]
  BY <1>1, <1>2, <1>4, UserWritten DEF Accept
<1>6. PICK saved \in Seq(Membership) :
         /\ saved = SavedMemberships(r) /\ Len(saved) = Len(memberships)
         /\ \A m \in MembershipIds :
               /\ saved[m].user = memberships[m].user /\ saved[m].own = memberships[m].own
               /\ saved[m].seen = memberships[m].seen
               /\ memberships[m].live => saved[m].live
               /\ memberships[m].back => saved[m].back
               /\ saved[m].live => memberships[m].live \/ saved[m].back
               /\ \/ saved[m].role = memberships[m].role
                  \/ <<m, saved[m].role>> \in here.changes
  BY <1>1, MembersWritten
<1>7. /\ Done(r) /\ memberships' = saved
      /\ invitations' = [invitations EXCEPT ![i].accepted = TRUE]
      /\ UNCHANGED <<fixed, notified, made, queued>>
  BY <1>1, <1>3, <1>6 DEF Accept
<1>8. /\ invitations' \in Seq(Invitation) /\ Len(invitations') = Len(invitations)
      /\ \A k \in InvitationIds \ {i} : invitations'[k] = invitations[k]
      /\ invitations'[i].membership = invitations[i].membership
      /\ invitations'[i].email = invitations[i].email
      /\ invitations'[i].seen = invitations[i].seen
      /\ invitations'[i].open = invitations[i].open /\ invitations'[i].accepted
  <2>1. PICK row \in Invitation : row = invitations[i]
    BY TableFacts
  <2>2. PICK new : new = [row EXCEPT !.accepted = TRUE]
    OBVIOUS
  <2>3. /\ new \in Invitation /\ new.membership = row.membership /\ new.email = row.email
        /\ new.seen = row.seen /\ new.open = row.open /\ new.accepted
    BY <2>2 DEF Invitation
  <2>4. invitations' = [invitations EXCEPT ![i] = new]
    BY <1>7, <2>1, <2>2
  <2>5. QED BY <2>1, <2>3, <2>4, TableFacts, ExceptSeq DEF IInv, InvitationsInv
<1>9. /\ Len(users') \in Nat /\ Len(users) <= Len(users')
      /\ Len(memberships') \in Nat /\ Len(memberships) <= Len(memberships')
      /\ \A v \in UserIds : users[v].identity # None => users'[v].identity # None
  <2>1. /\ Len(users') \in Nat /\ Len(users) <= Len(users')
        /\ Len(memberships') \in Nat /\ Len(memberships) <= Len(memberships')
    BY <1>5, <1>6, <1>7, TableFacts
  <2>2. \A v \in UserIds : users[v].identity # None => users'[v].identity # None
    BY <1>5
  <2>3. QED BY <2>1, <2>2
<1>10. \A m \in MembershipIds :
          /\ memberships'[m].user = memberships[m].user
          /\ memberships'[m].own = memberships[m].own
          /\ memberships'[m].seen = memberships[m].seen
          /\ memberships[m].live => memberships'[m].live
          /\ memberships[m].back => memberships'[m].back
          /\ memberships'[m].live => memberships[m].live \/ memberships'[m].back
  BY <1>6, <1>7
<1>11. MembersInv'
  <2>1. memberships' \in Seq(Membership) /\ Len(memberships') = Len(memberships)
    BY <1>6, <1>7
  <2>2. QED BY <1>9, <1>10, <2>1, MembersSaved
<1>12. ASSUME NEW k \in InvitationIds
       PROVE  /\ invitations'[k].membership = invitations[k].membership
              /\ invitations'[k].email = invitations[k].email
              /\ invitations'[k].seen = invitations[k].seen
              /\ invitations[k].accepted => invitations'[k].accepted
              /\ invitations'[k].open => /\ invitations[k].open
                                         /\ memberships'[invitations[k].membership].live
              /\ Unanswered(k)' /\ Unanswered(k) =>
                    \/ users'[UserOf(k)].email \in
                          {users[UserOf(k)].email, invitations[k].email}
                    \/ /\ users'[UserOf(k)].identity # None
                       /\ Respelt(invitations[k].email)
                       /\ Same(users'[UserOf(k)].email, invitations[k].email)
              /\ memberships'[invitations[k].membership].role = "member"
                    => invitations'[k].accepted
  <2>1. PICK m \in MembershipIds : m = invitations[k].membership
    BY DEF IInv, InvitationsInv
  <2>2. invitations[k].open => memberships'[m].live
    BY <1>10, <2>1 DEF IInv, InvitationsInv
  <2>3. CASE k = i
    BY <1>8, <2>1, <2>2, <2>3 DEF Unanswered
  <2>4. CASE k # i
    <3>1. UserOf(k) # u /\ UserOf(k) \in UserIds
      BY <1>4, <2>4, TableFacts DEF IInv, InvitationsInv
    <3>2. users'[UserOf(k)] = users[UserOf(k)] /\ invitations'[k] = invitations[k]
      BY <1>5, <1>8, <2>4, <3>1
    <3>3. memberships'[m].role = "member" => invitations[k].accepted
      <4>1. <<m, "member">> \in here.changes => invitations[k].accepted
        BY <1>2, <1>3, <2>1, <2>4 DEF PathOf, ReadOf, LoadOf
      <4>2. QED BY <1>6, <1>7, <2>1, <4>1 DEF IInv, MembersAccepted
    <3>4. QED BY <2>1, <2>2, <3>2, <3>3
  <2>5. QED BY <2>3, <2>4
<1>13. Kept /\ InvitationsInv' /\ MembersAccepted' /\ OneOpenInvitation'
  <2>1. UNCHANGED <<fixed, queued, notified>>
    BY <1>7
  <2>2. \A m \in MembershipIds :
           /\ memberships'[m].user = memberships[m].user
           /\ memberships'[m].own = memberships[m].own
           /\ memberships[m].back => memberships'[m].back
           /\ memberships'[m].live => memberships[m].live \/ memberships'[m].back
    BY <1>10
  <2>3. QED BY <1>8, <1>9, <1>12, <2>1, <2>2, InvitationsSaved
<1>14. QED BY <1>5, <1>7, <1>11, <1>13, Ends DEF Saved

(* A closed invitation is answered by nobody.                                 *)
LEMMA Closes ==
    ASSUME IInv, NEW i \in InvitationIds, Close(i)
    PROVE  Saved /\ req' = req
<1>1. UNCHANGED <<fixed, users, memberships, notified, queued, req, made>>
  BY DEF Close
<1>2. UsersInv' /\ MembersInv'
  BY <1>1 DEF UsersInv, UserIds, MembersInv, MembershipIds, IInv
<1>3. /\ invitations' \in Seq(Invitation) /\ Len(invitations') = Len(invitations)
      /\ \A k \in InvitationIds \ {i} : invitations'[k] = invitations[k]
      /\ invitations'[i].membership = invitations[i].membership
      /\ invitations'[i].email = invitations[i].email
      /\ invitations'[i].seen = invitations[i].seen
      /\ invitations'[i].accepted = invitations[i].accepted /\ ~invitations'[i].open
  <2>1. PICK row \in Invitation : row = invitations[i]
    BY TableFacts
  <2>2. PICK new : new = [row EXCEPT !.open = FALSE]
    OBVIOUS
  <2>3. /\ new \in Invitation /\ new.membership = row.membership /\ new.email = row.email
        /\ new.seen = row.seen /\ new.accepted = row.accepted /\ ~new.open
    BY <2>2 DEF Invitation
  <2>4. invitations' = [invitations EXCEPT ![i] = new]
    BY <2>1, <2>2 DEF Close
  <2>5. QED BY <2>1, <2>3, <2>4, TableFacts, ExceptSeq DEF IInv, InvitationsInv
<1>4. ASSUME NEW k \in InvitationIds
      PROVE  /\ invitations'[k].membership = invitations[k].membership
             /\ invitations'[k].email = invitations[k].email
             /\ invitations'[k].seen = invitations[k].seen
             /\ invitations[k].accepted => invitations'[k].accepted
             /\ invitations'[k].open => /\ invitations[k].open
                                        /\ memberships'[invitations[k].membership].live
             /\ Unanswered(k)' /\ Unanswered(k) =>
                   \/ users'[UserOf(k)].email \in
                         {users[UserOf(k)].email, invitations[k].email}
                   \/ /\ users'[UserOf(k)].identity # None
                      /\ Respelt(invitations[k].email)
                      /\ Same(users'[UserOf(k)].email, invitations[k].email)
             /\ memberships'[invitations[k].membership].role = "member"
                   => invitations'[k].accepted
  <2>1. CASE k = i
    BY <1>1, <1>3, <2>1 DEF Unanswered, IInv, MembersAccepted
  <2>2. CASE k # i
    BY <1>1, <1>3, <2>2 DEF Unanswered, IInv, InvitationsInv, MembersAccepted
  <2>3. QED BY <2>1, <2>2
<1>5. Kept /\ InvitationsInv' /\ MembersAccepted' /\ OneOpenInvitation'
  <2>1. /\ Len(users') \in Nat /\ Len(users) <= Len(users')
        /\ Len(memberships') \in Nat /\ Len(memberships) <= Len(memberships')
        /\ \A v \in UserIds : users[v].identity # None => users'[v].identity # None
        /\ \A m \in MembershipIds :
              /\ memberships'[m].user = memberships[m].user
              /\ memberships'[m].own = memberships[m].own
              /\ memberships[m].back => memberships'[m].back
              /\ memberships'[m].live => memberships[m].live \/ memberships'[m].back
        /\ UNCHANGED <<fixed, queued, notified>>
    BY <1>1, TableFacts
  <2>2. QED BY <1>3, <1>4, <2>1, InvitationsSaved
<1>6. QED BY <1>1, <1>2, <1>5 DEF Saved

(* The invitations of a member who is removed are closed with him.            *)
LEMMA Removes ==
    ASSUME IInv, NEW m \in MembershipIds, RemoveMember(m)
    PROVE  Saved /\ req' = req
<1>1. /\ UNCHANGED <<fixed, users, notified, queued, req, made>>
      /\ memberships' = [memberships EXCEPT ![m].live = FALSE]
  BY DEF RemoveMember
<1>2. UsersInv'
  BY <1>1 DEF UsersInv, UserIds, IInv
<1>3. /\ memberships' \in Seq(Membership) /\ Len(memberships') = Len(memberships)
      /\ \A k \in MembershipIds \ {m} : memberships'[k] = memberships[k]
      /\ memberships'[m].user = memberships[m].user
      /\ memberships'[m].own = memberships[m].own
      /\ memberships'[m].role = memberships[m].role
      /\ memberships'[m].seen = memberships[m].seen
      /\ memberships'[m].back = memberships[m].back /\ ~memberships'[m].live
  <2>1. PICK row \in Membership : row = memberships[m]
    BY TableFacts
  <2>2. PICK new : new = [row EXCEPT !.live = FALSE]
    OBVIOUS
  <2>3. new \in Membership /\ new.user = row.user /\ new.own = row.own /\ new.role = row.role
        /\ new.seen = row.seen /\ new.back = row.back /\ ~new.live
    BY <2>2 DEF Membership
  <2>4. memberships' = [memberships EXCEPT ![m] = new]
    BY <1>1, <2>1, <2>2
  <2>5. QED BY <2>1, <2>3, <2>4, TableFacts, ExceptSeq DEF IInv, MembersInv
<1>4. MembersInv'
  <2>1. \A k \in MembershipIds :
           /\ memberships'[k].user = memberships[k].user
           /\ memberships'[k].own = memberships[k].own
           /\ memberships'[k].seen = memberships[k].seen
           /\ memberships[k].back => memberships'[k].back
           /\ memberships'[k].live => memberships[k].live \/ memberships'[k].back
    BY <1>3
  <2>2. Len(users') \in Nat /\ Len(users) <= Len(users')
    BY <1>1, TableFacts
  <2>3. QED BY <1>3, <2>1, <2>2, MembersSaved
<1>5. ASSUME NEW k \in InvitationIds
      PROVE  /\ invitations'[k] \in Invitation
             /\ invitations'[k].membership = invitations[k].membership
             /\ invitations'[k].email = invitations[k].email
             /\ invitations'[k].seen = invitations[k].seen
             /\ invitations'[k].accepted = invitations[k].accepted
             /\ invitations'[k].open => invitations[k].open /\ invitations[k].membership # m
  <2>1. PICK row \in Invitation : row = invitations[k]
    BY TableFacts
  <2>2. CASE invitations[k].membership = m
    <3>1. PICK new : new = [row EXCEPT !.open = FALSE]
      OBVIOUS
    <3>2. /\ new \in Invitation /\ new.membership = row.membership /\ new.email = row.email
          /\ new.seen = row.seen /\ new.accepted = row.accepted /\ ~new.open
      BY <3>1 DEF Invitation
    <3>3. invitations'[k] = new
      BY <2>1, <2>2, <3>1 DEF RemoveMember
    <3>4. QED BY <2>1, <3>2, <3>3
  <2>3. CASE invitations[k].membership # m
    <3>1. invitations'[k] = invitations[k]
      BY <2>3 DEF RemoveMember
    <3>2. QED BY <2>1, <2>3, <3>1
  <2>4. QED BY <2>2, <2>3
<1>6. invitations' \in Seq(Invitation) /\ Len(invitations') = Len(invitations)
  <2>1. invitations' \in [1..Len(invitations) -> Invitation]
    BY <1>5 DEF RemoveMember, InvitationIds
  <2>2. invitations' \in Seq(Invitation)
    BY <2>1, TableFacts, SeqDef
  <2>3. QED BY <2>1, <2>2, TableFacts, LenProperties
<1>7. ASSUME NEW k \in InvitationIds
      PROVE  /\ invitations'[k].membership = invitations[k].membership
             /\ invitations'[k].email = invitations[k].email
             /\ invitations'[k].seen = invitations[k].seen
             /\ invitations[k].accepted => invitations'[k].accepted
             /\ invitations'[k].open => /\ invitations[k].open
                                        /\ memberships'[invitations[k].membership].live
             /\ Unanswered(k)' /\ Unanswered(k) =>
                   \/ users'[UserOf(k)].email \in
                         {users[UserOf(k)].email, invitations[k].email}
                   \/ /\ users'[UserOf(k)].identity # None
                      /\ Respelt(invitations[k].email)
                      /\ Same(users'[UserOf(k)].email, invitations[k].email)
             /\ memberships'[invitations[k].membership].role = "member"
                   => invitations'[k].accepted
  <2>1. PICK j \in MembershipIds : j = invitations[k].membership
    BY DEF IInv, InvitationsInv
  <2>2. invitations'[k].open => invitations[k].open /\ memberships'[j].live
    BY <1>3, <1>5, <2>1 DEF IInv, InvitationsInv
  <2>3. memberships'[j].role = memberships[j].role
    BY <1>3
  <2>4. QED BY <1>1, <1>5, <2>1, <2>2, <2>3 DEF IInv, MembersAccepted
<1>8. Kept /\ InvitationsInv' /\ MembersAccepted' /\ OneOpenInvitation'
  <2>1. \A k \in MembershipIds :
           /\ memberships'[k].user = memberships[k].user
           /\ memberships'[k].own = memberships[k].own
           /\ memberships[k].back => memberships'[k].back
           /\ memberships'[k].live => memberships[k].live \/ memberships'[k].back
    BY <1>3
  <2>2. /\ Len(users') \in Nat /\ Len(users) <= Len(users')
        /\ Len(memberships') \in Nat /\ Len(memberships) <= Len(memberships')
        /\ \A v \in UserIds : users[v].identity # None => users'[v].identity # None
        /\ UNCHANGED <<fixed, queued, notified>>
    BY <1>1, <1>3, TableFacts
  <2>3. QED BY <1>6, <1>7, <2>1, <2>2, InvitationsSaved
<1>9. QED BY <1>1, <1>2, <1>4, <1>8 DEF Saved

(* A new invitation has a user and a membership that nobody has had, and no   *)
(* other of its e-mail was open when its request looked.                      *)
LEMMA Inserts ==
    ASSUME IInv, NEW r \in Requests, InsertInvitation(r)
    PROVE  Saved /\ Moves(r)
<1>1. PICK here : here = req[r]
  OBVIOUS
<1>2. here \in Request /\ PathOf(here) /\ here.pc = "insert" /\ here.email \in Emails
  BY <1>1 DEF IInv, RequestsInv, InsertInvitation, PathOf, ReadOf
<1>3. PICK u \in Nat, m \in Nat, i \in Nat :
         u = Len(users) + 1 /\ m = Len(memberships) + 1 /\ i = Len(invitations) + 1
  BY TableFacts
<1>4. /\ u \notin UserIds /\ m \notin MembershipIds /\ i \notin InvitationIds
      /\ \A k \in InvitationIds : k < i
  BY <1>3, TableFacts DEF UserIds, MembershipIds, InvitationIds
<1>5. PICK user : user = [email |-> here.email, identity |-> None]
  OBVIOUS
<1>6. PICK member : member = [user |-> u, role |-> "invited", own |-> FALSE,
                              live |-> TRUE, seen |-> 0, back |-> FALSE]
  OBVIOUS
<1>7. PICK row : row = [membership |-> m, email |-> here.email, accepted |-> FALSE,
                        open |-> TRUE, seen |-> here.seen]
  OBVIOUS
<1>8. user \in User /\ member \in Membership /\ row \in Invitation
  <2>1. here.seen \in Nat /\ here.seen <= Len(invitations)
    BY <1>2 DEF PathOf, ReadOf, Request
  <2>2. here.seen \in 0..MaxInvitations
    BY <2>1, TableFacts, AccountBounds DEF IInv, InvitationsInv
  <2>3. QED BY <1>2, <1>5, <1>6, <1>7, <2>2 DEF User, Membership, Invitation, Roles
<1>9. /\ users' = Append(users, user) /\ memberships' = Append(memberships, member)
      /\ invitations' = Append(invitations, row) /\ nulls = "undefined"
      /\ Len(invitations) < MaxInvitations
      /\ UNCHANGED <<fixed, notified, made, queued>>
  BY <1>1, <1>3, <1>5, <1>6, <1>7 DEF InsertInvitation, Row
<1>10. UsersInv' /\ Len(users') = u /\ users'[u] = user
       /\ \A v \in UserIds : users'[v] = users[v]
  BY <1>3, <1>5, <1>8, <1>9, UserAdded
<1>11. /\ MembersInv' /\ Len(memberships') = m /\ memberships'[m] = member
       /\ \A k \in MembershipIds : memberships'[k] = memberships[k]
  <2>1. Len(users') \in Nat /\ Len(users) <= Len(users') /\ member.user \in UserIds'
        /\ ~member.own
    BY <1>3, <1>6, <1>10, TableFacts DEF UserIds
  <2>2. memberships \in Seq(Membership)
    BY DEF IInv, MembersInv
  <2>3. QED BY <1>3, <1>8, <1>9, <2>1, <2>2, MemberAdded
<1>12. /\ invitations' \in Seq(Invitation) /\ Len(invitations') = i /\ invitations'[i] = row
       /\ \A k \in InvitationIds : invitations'[k] = invitations[k]
  BY <1>3, <1>8, <1>9, AppendProperties, TableFacts DEF IInv, InvitationsInv, InvitationIds
<1>13. /\ InvitationIds' = InvitationIds \cup {i} /\ i \in InvitationIds'
       /\ MembershipIds' = MembershipIds \cup {m}
  BY <1>3, <1>11, <1>12, TableFacts DEF InvitationIds, MembershipIds
<1>14. /\ UserOf(i)' = u
       /\ \A k \in InvitationIds : /\ UserOf(k)' = UserOf(k) /\ UserOf(k)' \in UserIds
                                   /\ Unanswered(k)' <=> Unanswered(k)
  BY <1>4, <1>6, <1>7, <1>11, <1>12, TableFacts DEF UserOf, Unanswered, IInv, InvitationsInv
<1>15. Kept
  <2>1. \A k \in InvitationIds' \ InvitationIds : k = i
    BY <1>13
  <2>2. row.membership = m
    BY <1>7
  <2>3. QED BY <1>3, <1>4, <1>9, <1>10, <1>11, <1>12, <1>14, <2>1, <2>2, TableFacts DEF Kept
<1>16. InvitationsInv'
  <2>1. Len(invitations') <= MaxInvitations
    BY <1>3, <1>9, <1>12, TableFacts, AccountBounds
  <2>2. queued' \subseteq InvitationIds' /\ notified' \subseteq InvitationIds'
    BY <1>9, <1>13 DEF IInv, InvitationsInv
  <2>3. ASSUME NEW k \in InvitationIds
        PROVE  /\ invitations'[k].membership \in MembershipIds'
               /\ ~memberships'[invitations'[k].membership].own
               /\ invitations'[k].open => memberships'[invitations'[k].membership].live
               /\ Unanswered(k)' => Waits(k)'
    <3>1. Unanswered(k)' => Waits(k)'
      <4>1. PICK e : e = invitations[k].email
        OBVIOUS
      <4>2. PICK v \in UserIds : v = UserOf(k)
        BY TableFacts
      <4>3. invitations'[k].email = e /\ UserOf(k)' = v /\ users'[v] = users[v]
            /\ (Respelt(e)' <=> Respelt(e))
        BY <1>9, <1>10, <1>12, <1>14, <4>1, <4>2 DEF Respelt
      <4>4. Waits(k) => Waits(k)'
        BY <4>1, <4>2, <4>3 DEF Waits, Linked, Same
      <4>5. QED BY <1>14, <4>4 DEF IInv, InvitationsInv
    <3>2. QED BY <1>11, <1>12, <1>13, <3>1 DEF IInv, InvitationsInv
  <2>4. /\ invitations'[i].membership \in MembershipIds'
        /\ ~memberships'[invitations'[i].membership].own
        /\ memberships'[invitations'[i].membership].live
        /\ Waits(i)'
    BY <1>5, <1>6, <1>7, <1>10, <1>11, <1>12, <1>13, <1>14 DEF Waits
  <2>5. \A j, k \in InvitationIds' : UserOf(j)' = UserOf(k)' => j = k
    <3>1. SUFFICES ASSUME NEW j \in InvitationIds', NEW k \in InvitationIds',
                          UserOf(j)' = UserOf(k)'
                   PROVE  j = k
      OBVIOUS
    <3>2. CASE j \in InvitationIds /\ k \in InvitationIds
      <4>1. UserOf(j) = UserOf(k)
        BY <1>14, <3>1, <3>2
      <4>2. QED BY <3>2, <4>1 DEF IInv, InvitationsInv
    <3>3. CASE j = i \/ k = i
      BY <1>4, <1>13, <1>14, <3>1, <3>3
    <3>4. QED BY <1>13, <3>2, <3>3
  <2>6. QED BY <1>12, <1>13, <2>1, <2>2, <2>3, <2>4, <2>5 DEF InvitationsInv
<1>17. MembersAccepted'
  <2>1. memberships'[invitations'[i].membership].role # "member"
    BY <1>6, <1>7, <1>11, <1>12
  <2>2. \A k \in InvitationIds : memberships'[invitations'[k].membership].role = "member"
           => invitations'[k].accepted
    BY <1>11, <1>12 DEF IInv, MembersAccepted, InvitationsInv
  <2>3. QED BY <1>13, <2>1, <2>2 DEF MembersAccepted
<1>18. OneOpenInvitation'
  <2>1. ASSUME NEW k \in InvitationIds, Unanswered(k), invitations[k].email = here.email
        PROVE  here.seen < k \/ Linked(k)
    <3>1. k \in 1..here.seen => Linked(k)
      BY <1>2, <1>9, <2>1 DEF PathOf, ReadOf
    <3>2. k \in Nat /\ k >= 1 /\ here.seen \in Nat
      BY <1>2, TableFacts, AccountBounds DEF InvitationIds, Request
    <3>3. QED BY <3>1, <3>2
  <2>2. SUFFICES ASSUME NEW j \in InvitationIds', NEW k \in InvitationIds', j < k,
                        Unanswered(j)', Unanswered(k)',
                        invitations'[j].email = invitations'[k].email
                 PROVE  invitations'[k].seen < j \/ Linked(j)'
    BY DEF OneOpenInvitation, Unanswered, Linked
  <2>3. CASE k \in InvitationIds
    <3>1. j \in InvitationIds
      BY <1>3, <1>4, <1>13, <2>2, <2>3, TableFacts
    <3>2. Unanswered(j) /\ Unanswered(k) /\ invitations[j].email = invitations[k].email
      BY <1>12, <1>14, <2>2, <2>3, <3>1
    <3>3. invitations[k].seen < j \/ Linked(j)
      BY <2>2, <2>3, <3>1, <3>2 DEF IInv, OneOpenInvitation, Unanswered, Linked
    <3>4. QED BY <1>12, <1>15, <2>3, <3>1, <3>3, StaysAnswered
  <2>4. CASE k = i
    <3>1. j \in InvitationIds
      BY <1>3, <1>13, <2>2, <2>4
    <3>2. Unanswered(j) /\ invitations[j].email = here.email
      BY <1>7, <1>12, <1>14, <2>2, <2>4, <3>1
    <3>3. invitations'[k].seen = here.seen
      BY <1>7, <1>12, <2>4
    <3>4. QED BY <1>15, <2>1, <3>1, <3>2, <3>3, StaysAnswered
  <2>5. QED BY <1>13, <2>3, <2>4
<1>19. Moves(r)
  <2>1. PICK next : next = [here EXCEPT !.pc = "mail", !.inv = i]
    OBVIOUS
  <2>2. next \in Request
    BY <1>2, <2>1 DEF Request, RequestPc
  <2>3. /\ next.pc = "mail" /\ next.user = here.user /\ next.known = here.known
        /\ next.inv = i /\ next.loaded = here.loaded
        /\ next.changes = here.changes /\ next.back = here.back
    BY <1>2, <2>1 DEF Request
  <2>4. PathOf(here)'
    BY <1>2, <1>15, Stays
  <2>5. PathOf(next)'
    BY <1>2, <1>3, <1>12, <2>3, <2>4, TableFacts DEF PathOf, ReadOf, LoadOf
  <2>6. req' = [req EXCEPT ![r] = next] /\ req'[r] = next
    BY <1>1, <1>3, <2>1 DEF InsertInvitation, IInv, RequestsInv
  <2>7. QED BY <2>2, <2>5, <2>6 DEF Moves
<1>20. QED BY <1>9, <1>10, <1>11, <1>15, <1>16, <1>17, <1>18, <1>19 DEF Saved

-----------------------------------------------------------------------------
(* Every step.                                                               *)

(* A request that reads.                                                      *)
ReadStep(r) == FindUser(r) \/ Match(r) \/ FindInvitation(r) \/ Load(r)

(* The steps by what they write: a request's own fields, or tables.          *)
LEMMA StepKinds ==
    ASSUME [Next]_vars
    PROVE  \/ UNCHANGED vars
           \/ \E r \in Requests :
                 \/ \E p \in Identities : Login(r, p)
                 \/ \E p \in Identities, i \in InvitationIds : LoginInvited(r, p, i)
                 \/ \E email \in Emails, claims \in SUBSET {"modify:all"} :
                       CreateInvitation(r, email, claims)
           \/ \E r \in Requests : ReadStep(r)
           \/ \E r \in Requests : MailInvitation(r) \/ SaveNotified(r) \/ RequestFails(r)
           \/ \E r \in Requests : Link(r) \/ Provision(r) \/ Accept(r) \/ InsertInvitation(r)
           \/ \E i \in InvitationIds : Close(i)
           \/ \E m \in MembershipIds : RemoveMember(m)
BY DEF Next, InvitationRequest, LoginStep, InvitedStep, CreateStep, ReadStep,
       RemoveInvitation, ExpireInvitation

(* One request may have moved, and the others' reading is still true.         *)
LEMMA RequestsStep ==
    ASSUME IInv, Kept, made' \in 0..MaxRequests,
           req' = req \/ \E r \in Requests : Moves(r)
    PROVE  RequestsInv'
<1>1. \A r \in Requests : req[r] \in Request /\ PathOf(req[r])
  BY DEF IInv, RequestsInv
<1>2. ASSUME NEW r \in Requests, req'[r] = req[r]
      PROVE  PathOf(req[r])'
  <2>1. PICK here \in Request : here = req[r] /\ PathOf(here)
    BY <1>1
  <2>2. PathOf(here)' /\ req'[r] = here
    BY <1>2, <2>1, Stays
  <2>3. QED BY <2>2
<1>3. CASE req' = req
  BY <1>2, <1>3 DEF RequestsInv, IInv
<1>4. ASSUME NEW r \in Requests, Moves(r)
      PROVE  RequestsInv'
  <2>1. /\ req' \in [Requests -> Request]
        /\ \A v \in Requests \ {r} : req'[v] = req[v]
    BY <1>4 DEF Moves, RequestsInv, IInv
  <2>2. QED BY <1>2, <1>4, <2>1 DEF Moves, RequestsInv
<1>5. QED BY <1>3, <1>4

(* The tables stay as they are.                                               *)
LEMMA QuietStep ==
    ASSUME IInv, Quiet, made' \in 0..MaxRequests,
           queued' \subseteq InvitationIds, notified' \subseteq InvitationIds,
           req' = req \/ \E r \in Requests : Moves(r)
    PROVE  IInv'
<1>1. RequestsInv'
  BY QuietKeeps, RequestsStep
<1>2. FixedOK' /\ UsersInv' /\ MembersInv'
  BY DEF IInv, Quiet, FixedOK, UsersInv, UserIds, MembersInv, MembershipIds
<1>3. InvitationsInv'
  <2>1. \A i \in InvitationIds : UserOf(i)' = UserOf(i) /\ (Unanswered(i)' <=> Unanswered(i))
    BY DEF Quiet, UserOf, Unanswered
  <2>2. ASSUME NEW i \in InvitationIds, Waits(i) PROVE Waits(i)'
    <3>1. UserOf(i)' = UserOf(i) /\ invitations' = invitations /\ users' = users
          /\ profile' = profile
      BY DEF Quiet, UserOf
    <3>2. PICK e, f : e = invitations[i].email /\ f = users[UserOf(i)].email
      OBVIOUS
    <3>3. (Linked(i)' <=> Linked(i)) /\ (Same(f, e)' <=> Same(f, e))
      BY <3>1 DEF Linked, Respelt, Same
    <3>4. QED BY <2>2, <3>1, <3>2, <3>3 DEF Waits, Same
  <2>3. QED BY <2>1, <2>2 DEF IInv, Quiet, InvitationsInv, InvitationIds, MembershipIds
<1>4. MembersAccepted' /\ OneOpenInvitation'
  BY DEF IInv, Quiet, MembersAccepted, OneOpenInvitation, InvitationIds, UserOf, Respelt, Same
<1>5. QED BY <1>1, <1>2, <1>3, <1>4 DEF IInv

(* A step that saves keeps the invariant if what it leaves behind does.      *)
LEMMA SaveStep ==
    ASSUME IInv, Saved, req' = req \/ \E r \in Requests : Moves(r)
    PROVE  IInv'
<1>1. RequestsInv'
  BY RequestsStep DEF Saved, IInv, RequestsInv
<1>2. FixedOK'
  BY DEF Saved, Kept, IInv, FixedOK
<1>3. QED BY <1>1, <1>2 DEF Saved, IInv

(* The invariant holds initially, and every step keeps it.                    *)
LEMMA Inductive ==
    /\ Init => IInv
    /\ IInv /\ [Next]_vars => IInv'
<1>1. ASSUME Init
      PROVE  IInv
  <2>1. /\ FixedOK /\ invitations = <<>> /\ queued = {} /\ notified = {} /\ made = 0
        /\ req = [r \in Requests |-> Idle]
    BY <1>1 DEF Init, FixedOK
  <2>2. PICK user, member : /\ user = [email |-> None, identity |-> None]
                            /\ member = [user |-> 1, role |-> "owner", own |-> FALSE,
                                         live |-> TRUE, seen |-> 0, back |-> FALSE]
    OBVIOUS
  <2>3. users = <<user>> /\ memberships = <<member>>
    BY <1>1, <2>2 DEF Init, Nobody, Row
  <2>4. user \in User /\ member \in Membership /\ user.identity = None /\ member.user = 1
        /\ ~member.own
    BY <2>2 DEF User, Membership, Roles
  <2>5. UserIds = {1} /\ MembershipIds = {1} /\ InvitationIds = {}
    BY <2>1, <2>3 DEF UserIds, MembershipIds, InvitationIds
  <2>6. UsersInv
    BY <2>3, <2>4, <2>5 DEF UsersInv
  <2>7. MembersInv
    BY <2>3, <2>4, <2>5 DEF MembersInv
  <2>8. InvitationsInv /\ MembersAccepted /\ OneOpenInvitation
    <3>1. invitations \in Seq(Invitation) /\ Len(invitations) = 0
      BY <2>1, EmptySeq
    <3>2. QED BY <2>1, <2>5, <3>1, AccountBounds
              DEF InvitationsInv, MembersAccepted, OneOpenInvitation
  <2>9. RequestsInv
    <3>1. Idle \in Request
      BY Idles
    <3>2. Len(users) = 1 /\ Len(invitations) = 0
      BY <2>1, <2>3
    <3>3. PathOf(Idle)
      BY <3>2 DEF PathOf, ReadOf, LoadOf, Idle
    <3>4. QED BY <2>1, <3>1, <3>3, AccountBounds DEF RequestsInv
  <2>10. QED BY <2>1, <2>6, <2>7, <2>8, <2>9 DEF IInv
<1>2. ASSUME IInv, [Next]_vars
      PROVE  IInv'
  <2>0. queued \subseteq InvitationIds /\ notified \subseteq InvitationIds
        /\ made \in 0..MaxRequests
    BY <1>2 DEF IInv, InvitationsInv, RequestsInv
  <2>1. CASE UNCHANGED vars
    BY <1>2, <2>0, <2>1, QuietStep DEF vars, Quiet
  <2>2. ASSUME NEW r \in Requests,
               \/ \E p \in Identities : Login(r, p)
               \/ \E p \in Identities, i \in InvitationIds : LoginInvited(r, p, i)
               \/ \E email \in Emails, claims \in SUBSET {"modify:all"} :
                     CreateInvitation(r, email, claims)
        PROVE  IInv'
    BY <1>2, <2>0, <2>2, Begins, QuietStep
  <2>3. ASSUME NEW r \in Requests, ReadStep(r)
        PROVE  IInv'
    BY <1>2, <2>0, <2>3, Finds, Matches, FindsInvitation, Loads, QuietStep DEF ReadStep
  <2>4. ASSUME NEW r \in Requests, MailInvitation(r) \/ SaveNotified(r) \/ RequestFails(r)
        PROVE  IInv'
    BY <1>2, <2>0, <2>4, Notifies, QuietStep
  <2>5. ASSUME NEW r \in Requests, Link(r) \/ Provision(r) \/ Accept(r) \/ InsertInvitation(r)
        PROVE  IInv'
    BY <1>2, <2>5, Links, Provisions, Accepts, Inserts, SaveStep
  <2>6. CASE (\E i \in InvitationIds : Close(i)) \/ \E m \in MembershipIds : RemoveMember(m)
    BY <1>2, <2>6, Closes, Removes, SaveStep
  <2>7. QED BY <1>2, <2>1, <2>2, <2>3, <2>4, <2>5, <2>6, StepKinds
<1>3. QED BY <1>1, <1>2

-----------------------------------------------------------------------------
(* What the invariant says.                                                  *)

(* The invariant holds at all times.                                         *)
LEMMA Invariance == Spec => []IInv
BY Inductive, PTL DEF Spec

(* Everything that is stored or read is of its type.                          *)
LEMMA TypeFollows == IInv => TypeOK
<1>1. SUFFICES ASSUME IInv PROVE TypeOK
  OBVIOUS
<1>2. \A u \in UserIds : users[u] \in
         [email : Emails \cup {None}, identity : Identities \cup {None}]
  BY <1>1, TableFacts DEF User
<1>3. ASSUME NEW m \in MembershipIds
      PROVE  memberships[m] \in [user : UserIds, role : Roles, own : BOOLEAN, live : BOOLEAN,
                               seen : Nat, back : BOOLEAN]
  <2>1. PICK row \in Membership : row = memberships[m] /\ row.user \in UserIds
    BY <1>1, TableFacts DEF IInv, MembersInv
  <2>2. QED BY <2>1 DEF Membership
<1>4. ASSUME NEW i \in InvitationIds
      PROVE  invitations[i] \in
                [membership : MembershipIds, email : Emails, accepted : BOOLEAN,
                 open : BOOLEAN, seen : 0..MaxInvitations]
  <2>1. PICK row \in Invitation : row = invitations[i] /\ row.membership \in MembershipIds
    BY <1>1, TableFacts DEF IInv, InvitationsInv
  <2>2. QED BY <2>1 DEF Invitation
<1>5. ASSUME NEW r \in Requests
      PROVE  req[r] \in
                [pc : RequestPc, who : Identities \cup {None},
                 email : Emails \cup {None}, user : 0..Len(users),
                 read : [email : Emails \cup {None}, identity : Identities \cup {None}],
                 known : SUBSET (MembershipIds \X Roles), inv : 0..Len(invitations),
                 seen : Nat, loaded : BOOLEAN, columns : SUBSET {"email", "identity"},
                 changes : SUBSET (MembershipIds \X Roles), back : SUBSET MembershipIds]
  <2>1. PICK here \in Request : here = req[r] /\ PathOf(here)
    BY <1>1 DEF IInv, RequestsInv
  <2>2. QED BY <2>1 DEF PathOf, ReadOf, LoadOf, Request, User
<1>6. QED BY <1>1, <1>2, <1>3, <1>4, <1>5
          DEF TypeOK, IInv, FixedOK, UsersInv, InvitationsInv, RequestsInv

(* A membership that owns an organisation, beside another of its user's.      *)
LEMMA OneFollows == IInv => OneOrganisation
BY DEF IInv, MembersInv, OneOrganisation

-----------------------------------------------------------------------------
(* Who may become the user of an account.                                    *)

Owed(u, r) ==
    /\ req[r].user = u /\ req[r].who = users'[u].identity
    /\ \/ req[r].read # users[u]
       \/ /\ profile[users'[u].identity].verified
          /\ Same(profile[users'[u].identity].email, users[u].email)
       \/ req[r].inv # 0 /\ u = UserOf(req[r].inv)

(* Who saves his identity over another's had read it, or a user with his own  *)
(* verified e-mail, or accepts the invitation of the user.                    *)
LEMMA SaveOwed ==
    ASSUME IInv, NEW r \in Requests, Link(r) \/ Provision(r) \/ Accept(r), NEW u \in UserIds,
           users[u].identity \notin {None, users'[u].identity}
    PROVE  Owed(u, r)
<1>1. PICK here : here = req[r]
  OBVIOUS
<1>2. here \in Request /\ PathOf(here) /\ here.pc \in {"link", "provision", "accept"}
      /\ Saves(r)
  BY <1>1 DEF IInv, RequestsInv, Link, Provision, Accept
<1>3. here.user # 0
  <2>1. SUFFICES ASSUME here.user = 0 PROVE FALSE
    OBVIOUS
  <2>2. here.pc = "provision"
    BY <1>2, <2>1 DEF PathOf, ReadOf
  <2>3. users'[u] = users[u]
    BY <1>1, <1>2, <2>1, <2>2, UserCreated
  <2>4. QED BY <2>3
<1>4. PICK v \in UserIds : v = here.user
  BY <1>2, <1>3, RequestFacts
<1>5. /\ \A w \in UserIds \ {v} : users'[w] = users[w]
      /\ users'[v].identity \in {users[v].identity, here.who}
  BY <1>1, <1>2, <1>3, <1>4, UserWritten
<1>6. u = v /\ users'[u].identity = here.who
  BY <1>5
<1>7. CASE here.pc = "accept"
  BY <1>1, <1>2, <1>4, <1>6, <1>7 DEF Owed, PathOf, ReadOf
<1>8. CASE here.pc \in {"link", "provision"}
  <2>1. \/ here.read.identity = here.who
        \/ profile[here.who].verified /\ Same(profile[here.who].email, here.read.email)
    BY <1>2, <1>3, <1>8 DEF PathOf, ReadOf
  <2>2. here.read = users[u] =>
           profile[here.who].verified /\ Same(profile[here.who].email, users[u].email)
    BY <1>6, <2>1
  <2>3. QED BY <1>1, <1>4, <1>6, <2>2 DEF Owed
<1>9. QED BY <1>2, <1>7, <1>8

(* No other step gives an account to anybody.                                 *)
LEMMA OthersKeep ==
    ASSUME IInv, [Next]_vars, NEW u \in UserIds,
           \A r \in Requests : ~(Link(r) \/ Provision(r) \/ Accept(r))
    PROVE  users'[u] = users[u]
<1>1. CASE UNCHANGED vars
  BY <1>1 DEF vars
<1>2. ASSUME NEW r \in Requests,
             \/ \E p \in Identities : Login(r, p)
             \/ \E p \in Identities, i \in InvitationIds : LoginInvited(r, p, i)
             \/ \E email \in Emails, claims \in SUBSET {"modify:all"} :
                   CreateInvitation(r, email, claims)
      PROVE  users' = users
  BY <1>2 DEF Login, LoginInvited, CreateInvitation
<1>3. ASSUME NEW r \in Requests, ReadStep(r)
      PROVE  users' = users
  BY <1>3 DEF ReadStep, FindUser, Match, FindInvitation, Load
<1>4. ASSUME NEW r \in Requests, MailInvitation(r) \/ SaveNotified(r) \/ RequestFails(r)
      PROVE  users' = users
  BY <1>4 DEF MailInvitation, SaveNotified, RequestFails
<1>5. ASSUME NEW r \in Requests, InsertInvitation(r)
      PROVE  users'[u] = users[u]
  <2>1. PICK here \in Request : here = req[r] /\ here.email \in Emails
    BY <1>5 DEF IInv, RequestsInv, PathOf, ReadOf, InsertInvitation
  <2>2. PICK row \in User : row = [email |-> here.email, identity |-> None]
    BY <2>1 DEF User
  <2>3. users' = Append(users, row)
    BY <1>5, <2>1, <2>2 DEF InsertInvitation
  <2>4. QED BY <2>3, AppendProperties, TableFacts DEF IInv, UsersInv, UserIds
<1>6. CASE (\E i \in InvitationIds : Close(i)) \/ \E m \in MembershipIds : RemoveMember(m)
  BY <1>6 DEF Close, RemoveMember
<1>7. QED BY <1>1, <1>2, <1>3, <1>4, <1>5, <1>6, StepKinds

-----------------------------------------------------------------------------
(* Types: every value stored, queued or read is one the services can write.   *)
THEOREM TypeCorrect == Spec => []TypeOK
BY Invariance, TypeFollows, PTL

(* However many requests of a new user arrive at once, he is provisioned with *)
(* one organisation; a second is given to a user who was there without, by a  *)
(* save that had not read the first, or while the first was removed           *)
(* (handleNewIndependentUser).                                                *)
THEOREM OneOrganisationCorrect == Spec => []OneOrganisation
BY Invariance, OneFollows, PTL

(* Who is a member through an invitation has accepted it, whatever is saved   *)
(* late (Accept, Link, SaveNotified).                                         *)
THEOREM AcceptedCorrect == Spec => []MembersAccepted
<1>1. IInv => MembersAccepted
  BY DEF IInv
<1>2. QED BY <1>1, Invariance, PTL

(* Two open invitations of one e-mail are the work of two requests of which   *)
(* neither could see the other's, or their e-mail has been spelt otherwise by *)
(* an identity that was linked in between (InvitationService.create).         *)
THEOREM OneOpenCorrect == Spec => []OneOpenInvitation
<1>1. IInv => OneOpenInvitation
  BY DEF IInv
<1>2. QED BY <1>1, Invariance, PTL

(* An account goes from one identity to another only by its verified e-mail,  *)
(* by its invitation, or to a request that had read it before it was what it  *)
(* is (findAndLinkExistingUser, handleInvitedUser).                           *)
THEOREM KeptCorrect == Spec => AccountKept
<1>1. ASSUME IInv, [Next]_vars
      PROVE  \A u \in UserIds :
                LET p == users[u].identity  q == users'[u].identity IN
                p \notin {None, q} =>
                   \E r \in Requests :
                      /\ req[r].user = u /\ req[r].who = q
                      /\ \/ req[r].read # users[u]
                         \/ profile[q].verified /\ Same(profile[q].email, users[u].email)
                         \/ req[r].inv # 0 /\ u = UserOf(req[r].inv)
  <2>1. ASSUME NEW u \in UserIds, users[u].identity \notin {None, users'[u].identity}
        PROVE  \E r \in Requests : Owed(u, r)
    <3>1. PICK r \in Requests : Link(r) \/ Provision(r) \/ Accept(r)
      BY <1>1, <2>1, OthersKeep
    <3>2. QED BY <1>1, <2>1, <3>1, SaveOwed
  <2>2. QED BY <2>1 DEF Owed
<1>2. IInv /\ [Next]_vars =>
         [\A u \in UserIds :
             LET p == users[u].identity  q == users'[u].identity IN
             p \notin {None, q} =>
                \E r \in Requests :
                   /\ req[r].user = u /\ req[r].who = q
                   /\ \/ req[r].read # users[u]
                      \/ profile[q].verified /\ Same(profile[q].email, users[u].email)
                      \/ req[r].inv # 0 /\ u = UserOf(req[r].inv)]_vars
  BY <1>1
<1>3. QED BY <1>2, Invariance, PTL DEF Spec, AccountKept

-----------------------------------------------------------------------------
(* The mails: how often each job may still be run.                           *)

Running == {"save", "send", "date"}

(* The workers at one of these steps with mail m, and the start it waits for. *)
At(pcs, m) == {w \in Mailers : mpc[w] \in pcs /\ mmail[w] = m}
Count(pcs, m) == Cardinality(At(pcs, m))
Open(m) == IF mailJob[m] \in {"absent", "waiting"} THEN 1 ELSE 0

MailTypes ==
    /\ mailJob \in [Invitations -> Mail!MailStatus]
    /\ holder \in [Invitations -> Mailers \cup {None}]
    /\ stalls \in [Invitations -> 0..MaxStalls]
    /\ rows \in [Invitations -> Nat] /\ dated \in [Invitations -> Nat]
    /\ delivered \in [Invitations -> Nat]
    /\ mpc \in [Mailers -> Mail!MailerPc]
    /\ mmail \in [Mailers -> Invitations \cup {None}]
    /\ \A w \in Mailers : mpc[w] # "idle" <=> mmail[w] # None

(* A mail is started once, and once more for each lock that was lost; each    *)
(* start inserts a row and sends the mail at most once, and each time it was  *)
(* sent is dated at most once.                                                *)
StartsOf(m) ==
    /\ \A pcs \in SUBSET Running : IsFiniteSet(At(pcs, m))
    /\ rows[m] + Count({"save"}, m) + Open(m) <= 1 + stalls[m]
    /\ delivered[m] + Count({"save", "send"}, m) + Open(m) <= 1 + stalls[m]
    /\ dated[m] + Count({"date"}, m) <= delivered[m]

MailInv == MailTypes /\ \A m \in Invitations : StartsOf(m)

(* What is counted of one mail is a number.                                  *)
LEMMA MailFacts ==
    ASSUME MailInv, NEW m \in Invitations
    PROVE  /\ rows[m] \in Nat /\ dated[m] \in Nat /\ delivered[m] \in Nat
           /\ stalls[m] \in Nat /\ stalls[m] <= MaxStalls
           /\ Open(m) \in {0, 1} /\ m # None
           /\ \A pcs \in SUBSET Running : Count(pcs, m) \in Nat
<1>1. rows[m] \in Nat /\ dated[m] \in Nat /\ delivered[m] \in Nat /\ stalls[m] \in 0..MaxStalls
  BY DEF MailInv, MailTypes
<1>2. \A pcs \in SUBSET Running : Count(pcs, m) \in Nat
  BY FS_CardinalityType DEF MailInv, StartsOf, Count
<1>3. QED BY <1>1, <1>2, MailAssumption DEF Open

Turns(w, pc, mail) ==
    mpc' = [mpc EXCEPT ![w] = pc] /\ mmail' = [mmail EXCEPT ![w] = mail]

(* A worker that goes from one step to another leaves the one and joins the   *)
(* other, and the mail he has may be none before or after.                    *)
LEMMA CrewMoves ==
    ASSUME MailInv, NEW w \in Mailers, NEW pc, NEW mail,
           Turns(w, pc, mail),
           NEW m \in Invitations, NEW pcs \in SUBSET Running
    PROVE  /\ IsFiniteSet(At(pcs, m)')
           /\ Count(pcs, m)' =
                 Count(pcs, m) + (IF pc \in pcs /\ mail = m THEN 1 ELSE 0)
                               - (IF mpc[w] \in pcs /\ mmail[w] = m THEN 1 ELSE 0)
<1>1. PICK Before : Before = At(pcs, m)
  OBVIOUS
<1>2. IsFiniteSet(Before) /\ Cardinality(Before) \in Nat
  BY <1>1, FS_CardinalityType DEF MailInv, StartsOf
<1>3. \A v \in Mailers \ {w} : mpc'[v] = mpc[v] /\ mmail'[v] = mmail[v]
  BY DEF Turns, MailInv, MailTypes
<1>4. mpc'[w] = pc /\ mmail'[w] = mail
  BY DEF Turns, MailInv, MailTypes
<1>5. w \in Before <=> mpc[w] \in pcs /\ mmail[w] = m
  BY <1>1 DEF At
<1>6. CASE pc \in pcs /\ mail = m
  <2>1. At(pcs, m)' = Before \cup {w}
    BY <1>1, <1>3, <1>4, <1>6 DEF At
  <2>2. /\ IsFiniteSet(Before \cup {w})
        /\ Cardinality(Before \cup {w}) =
              IF w \in Before THEN Cardinality(Before) ELSE Cardinality(Before) + 1
    BY <1>2, FS_AddElement
  <2>3. QED BY <1>1, <1>2, <1>5, <1>6, <2>1, <2>2 DEF Count
<1>7. CASE ~(pc \in pcs /\ mail = m)
  <2>1. At(pcs, m)' = Before \ {w}
    BY <1>1, <1>3, <1>4, <1>7 DEF At
  <2>2. /\ IsFiniteSet(Before \ {w})
        /\ Cardinality(Before \ {w}) =
              IF w \in Before THEN Cardinality(Before) - 1 ELSE Cardinality(Before)
    BY <1>2, FS_RemoveElement
  <2>3. QED BY <1>1, <1>2, <1>5, <1>7, <2>1, <2>2 DEF Count
<1>8. QED BY <1>6, <1>7

(* The worker of a step and his mail.                                         *)
LEMMA CrewFacts ==
    ASSUME MailInv, NEW w \in Mailers
    PROVE  /\ mpc[w] # "idle" => mmail[w] \in Invitations
           /\ mpc[w] = "idle" => mmail[w] = None
BY DEF MailInv, MailTypes

(* The worker's steps keep the types if they write what they should.          *)
LEMMA CrewTypes ==
    ASSUME MailInv, NEW w \in Mailers, NEW pc \in Mail!MailerPc,
           NEW mail \in Invitations \cup {None}, pc # "idle" <=> mail # None,
           Turns(w, pc, mail),
           mailJob' \in [Invitations -> Mail!MailStatus],
           holder' \in [Invitations -> Mailers \cup {None}],
           stalls' \in [Invitations -> 0..MaxStalls],
           rows' \in [Invitations -> Nat], dated' \in [Invitations -> Nat],
           delivered' \in [Invitations -> Nat]
    PROVE  MailTypes'
BY DEF Turns, MailInv, MailTypes

(* A mail is put on the queue, or nothing happens to any.                     *)
LEMMA QueuesMail ==
    ASSUME MailInv, UNCHANGED mailVars \/ \E i \in Invitations : Mail!SendMail(i)
    PROVE  MailInv'
<1>1. UNCHANGED <<holder, stalls, rows, dated, delivered, mpc, mmail>>
  BY DEF mailVars, Mail!SendMail, Mail!table, Mail!crew
<1>2. MailTypes'
  BY <1>1 DEF MailInv, MailTypes, mailVars, Mail!SendMail, Mail!MailStatus
<1>3. ASSUME NEW m \in Invitations PROVE StartsOf(m)'
  <2>1. Open(m)' = Open(m)
    BY DEF MailInv, MailTypes, mailVars, Mail!SendMail, Open
  <2>2. \A pcs : At(pcs, m)' = At(pcs, m)
    BY <1>1 DEF At
  <2>3. QED BY <1>1, <2>1, <2>2 DEF MailInv, StartsOf, Count
<1>4. QED BY <1>2, <1>3 DEF MailInv

(* A start is no longer open once a worker has the mail.                     *)
LEMMA StartsMail ==
    ASSUME MailInv, NEW w \in Mailers, NEW k \in Invitations, Mail!StartMail(w, k)
    PROVE  MailInv'
<1>1. /\ Turns(w, "save", k)
      /\ mpc[w] = "idle" /\ mmail[w] = None /\ mailJob[k] = "waiting"
      /\ mailJob' = [mailJob EXCEPT ![k] = "active"]
      /\ UNCHANGED <<stalls, rows, dated, delivered>>
  BY CrewFacts DEF Turns, Mail!StartMail, Mail!table
<1>2. MailTypes'
  <2>1. k # None /\ "save" \in Mail!MailerPc /\ "active" \in Mail!MailStatus
    BY MailAssumption DEF Mail!MailerPc, Mail!MailStatus
  <2>2. holder' \in [Invitations -> Mailers \cup {None}]
    BY DEF Mail!StartMail, MailInv, MailTypes
  <2>3. QED BY <1>1, <2>1, <2>2, CrewTypes DEF MailInv, MailTypes
<1>3. ASSUME NEW m \in Invitations PROVE StartsOf(m)'
  <2>1. \A pcs \in SUBSET Running :
           /\ IsFiniteSet(At(pcs, m)')
           /\ Count(pcs, m)' = Count(pcs, m) + (IF "save" \in pcs /\ k = m THEN 1 ELSE 0)
    <3>1. mmail[w] # m
      BY <1>1, MailFacts
    <3>2. SUFFICES ASSUME NEW pcs \in SUBSET Running
                   PROVE  /\ IsFiniteSet(At(pcs, m)')
                          /\ Count(pcs, m)' =
                                Count(pcs, m) + (IF "save" \in pcs /\ k = m THEN 1 ELSE 0)
      OBVIOUS
    <3>3. /\ IsFiniteSet(At(pcs, m)')
          /\ Count(pcs, m)' =
                 Count(pcs, m) + (IF "save" \in pcs /\ k = m THEN 1 ELSE 0)
                               - (IF mpc[w] \in pcs /\ mmail[w] = m THEN 1 ELSE 0)
      BY <1>1, CrewMoves
    <3>4. QED BY <3>1, <3>3, MailFacts
  <2>2. Open(m)' = IF k = m THEN 0 ELSE Open(m)
    BY <1>1 DEF Open, MailInv, MailTypes
  <2>3. k = m => Open(m) = 1
    BY <1>1 DEF Open
  <2>4. {"save"} \in SUBSET Running /\ {"save", "send"} \in SUBSET Running
        /\ {"date"} \in SUBSET Running
    BY DEF Running
  <2>5. /\ Count({"save"}, m)' = Count({"save"}, m) + (IF k = m THEN 1 ELSE 0)
        /\ Count({"save", "send"}, m)' = Count({"save", "send"}, m) + (IF k = m THEN 1 ELSE 0)
        /\ Count({"date"}, m)' = Count({"date"}, m)
    BY <2>1, <2>4, MailFacts
  <2>6. QED BY <1>1, <2>1, <2>2, <2>3, <2>4, <2>5, MailFacts DEF MailInv, StartsOf
<1>4. QED BY <1>2, <1>3 DEF MailInv

(* A worker that has a mail goes on with it or leaves it, and no other        *)
(* mail's workers change.                                                     *)
LEMMA GoesOn ==
    ASSUME MailInv, NEW w \in Mailers, NEW k \in Invitations, mmail[w] = k,
           NEW pc, NEW mail, mail = k \/ pc = "idle", Turns(w, pc, mail),
           NEW m \in Invitations, NEW pcs \in SUBSET Running
    PROVE  /\ IsFiniteSet(At(pcs, m)')
           /\ m # k => Count(pcs, m)' = Count(pcs, m)
           /\ m = k => Count(pcs, m)' = Count(pcs, m) + (IF pc \in pcs THEN 1 ELSE 0)
                                                      - (IF mpc[w] \in pcs THEN 1 ELSE 0)
<1>1. /\ IsFiniteSet(At(pcs, m)')
      /\ Count(pcs, m)' =
             Count(pcs, m) + (IF pc \in pcs /\ mail = m THEN 1 ELSE 0)
                           - (IF mpc[w] \in pcs /\ mmail[w] = m THEN 1 ELSE 0)
  BY CrewMoves
<1>2. Count(pcs, m) \in Nat
  BY MailFacts
<1>3. CASE m # k
  <2>1. ~(pc \in pcs /\ mail = m) /\ mmail[w] # m
    BY <1>3 DEF Running
  <2>2. QED BY <1>1, <1>2, <1>3, <2>1
<1>4. CASE m = k
  <2>1. pc \in pcs /\ mail = m <=> pc \in pcs
    BY <1>4 DEF Running
  <2>2. QED BY <1>1, <1>2, <1>4, <2>1
<1>5. QED BY <1>1, <1>3, <1>4

(* What the three sums of StartsOf count: who is at which step.               *)
LEMMA Steps ==
    /\ {"save"} \in SUBSET Running
    /\ {"save", "send"} \in SUBSET Running
    /\ {"date"} \in SUBSET Running
BY DEF Running

(* The worker leaves process() and the job, if it is his, is over.            *)
LEMMA Finishes ==
    ASSUME MailInv, NEW w \in Mailers, NEW status \in {"completed", "failed"},
           mpc[w] # "idle", Mail!Finish(w, status)
    PROVE  /\ Turns(w, "idle", None)
           /\ mailJob' \in [Invitations -> Mail!MailStatus]
           /\ holder' \in [Invitations -> Mailers \cup {None}]
           /\ \A m \in Invitations : Open(m)' <= Open(m) /\ Open(m)' \in {0, 1}
<1>1. PICK k \in Invitations : k = mmail[w]
  BY CrewFacts
<1>2. Turns(w, "idle", None)
  BY DEF Turns, Mail!Finish, Mail!Leave
<1>3. CASE holder[k] = w
  <2>1. /\ mailJob' = [mailJob EXCEPT ![k] = status]
        /\ holder' = [holder EXCEPT ![k] = None]
    BY <1>1, <1>3 DEF Mail!Finish
  <2>2. status \in Mail!MailStatus
    BY DEF Mail!MailStatus
  <2>3. QED BY <1>2, <2>1, <2>2 DEF Open, MailInv, MailTypes
<1>4. CASE holder[k] # w
  <2>1. mailJob' = mailJob /\ holder' = holder
    BY <1>1, <1>4 DEF Mail!Finish
  <2>2. QED BY <1>2, <2>1 DEF Open, MailInv, MailTypes
<1>5. QED BY <1>3, <1>4

(* A worker is at one of three steps, and its mail has started for it.        *)
LEMMA SavesMail ==
    ASSUME MailInv, NEW w \in Mailers, Mail!SaveMail(w)
    PROVE  MailInv'
<1>1. PICK k \in Invitations : k = mmail[w]
  BY CrewFacts DEF Mail!SaveMail
<1>2. /\ mpc[w] = "save" /\ rows' = [rows EXCEPT ![k] = @ + 1]
      /\ UNCHANGED <<stalls, dated, delivered>>
  BY <1>1 DEF Mail!SaveMail
<1>3. PICK pc \in {"send", "idle"}, mail \in {k, None} :
         /\ Turns(w, pc, mail) /\ (pc # "idle" <=> mail = k)
         /\ mailJob' \in [Invitations -> Mail!MailStatus]
         /\ holder' \in [Invitations -> Mailers \cup {None}]
         /\ \A m \in Invitations : Open(m)' <= Open(m) /\ Open(m)' \in {0, 1}
  <2>1. CASE SendEnabled
    <3>1. Turns(w, "send", k) /\ mailJob' = mailJob /\ holder' = holder
      BY <1>1, <2>1 DEF Mail!SaveMail, Turns, MailInv, MailTypes
    <3>2. QED BY <3>1 DEF Open, MailInv, MailTypes
  <2>2. CASE ~SendEnabled
    <3>1. Mail!Finish(w, "completed") /\ k # None
      BY <2>2, MailFacts DEF Mail!SaveMail
    <3>2. QED BY <1>2, <3>1, Finishes
  <2>3. QED BY <2>1, <2>2
<1>4. MailTypes'
  <2>1. pc \in Mail!MailerPc /\ mail \in Invitations \cup {None} /\ (pc # "idle" <=> mail # None)
    BY <1>3, MailFacts DEF Mail!MailerPc
  <2>2. /\ rows' \in [Invitations -> Nat] /\ stalls' \in [Invitations -> 0..MaxStalls]
        /\ dated' \in [Invitations -> Nat] /\ delivered' \in [Invitations -> Nat]
    BY <1>2 DEF MailInv, MailTypes
  <2>3. QED BY <1>3, <2>1, <2>2, CrewTypes
<1>5. ASSUME NEW m \in Invitations PROVE StartsOf(m)'
  <2>1. ASSUME NEW pcs \in SUBSET Running
        PROVE  /\ IsFiniteSet(At(pcs, m)')
               /\ m # k => Count(pcs, m)' = Count(pcs, m)
               /\ m = k => Count(pcs, m)' = Count(pcs, m) + (IF pc \in pcs THEN 1 ELSE 0)
                                                          - (IF mpc[w] \in pcs THEN 1 ELSE 0)
    BY <1>1, <1>3, GoesOn
  <2>2. /\ m = k => /\ Count({"save"}, m)' = Count({"save"}, m) - 1
                    /\ Count({"save", "send"}, m)' <= Count({"save", "send"}, m)
        /\ m # k => /\ Count({"save"}, m)' = Count({"save"}, m)
                    /\ Count({"save", "send"}, m)' = Count({"save", "send"}, m)
        /\ Count({"date"}, m)' = Count({"date"}, m)
        /\ Count({"save", "send"}, m)' \in Int
    BY <1>2, <1>3, <2>1, Steps, MailFacts
  <2>3. rows'[m] = IF m = k THEN rows[m] + 1 ELSE rows[m]
    BY <1>2 DEF MailInv, MailTypes
  <2>4. Open(m)' <= Open(m) /\ Open(m)' \in {0, 1}
    BY <1>3
  <2>5. QED BY <1>2, <2>1, <2>2, <2>3, <2>4, MailFacts, Steps DEF MailInv, StartsOf
<1>6. QED BY <1>4, <1>5 DEF MailInv

(* The mail server accepts what the worker sends.                             *)
LEMMA TransmitsMail ==
    ASSUME MailInv, NEW w \in Mailers, Mail!Transmit(w)
    PROVE  MailInv'
<1>1. PICK k \in Invitations : k = mmail[w]
  BY CrewFacts DEF Mail!Transmit
<1>2. /\ mpc[w] = "send" /\ delivered' = [delivered EXCEPT ![k] = @ + 1]
      /\ UNCHANGED <<mailJob, holder, stalls, rows, dated>> /\ Turns(w, "date", k)
  BY <1>1 DEF Mail!Transmit, Mail!queue, Mail!table, Turns, MailInv, MailTypes
<1>3. MailTypes'
  <2>1. "date" \in Mail!MailerPc /\ k # None
    BY MailFacts DEF Mail!MailerPc
  <2>2. /\ delivered' \in [Invitations -> Nat]
        /\ mailJob' \in [Invitations -> Mail!MailStatus]
        /\ holder' \in [Invitations -> Mailers \cup {None}]
        /\ stalls' \in [Invitations -> 0..MaxStalls]
        /\ rows' \in [Invitations -> Nat] /\ dated' \in [Invitations -> Nat]
    BY <1>2 DEF MailInv, MailTypes
  <2>3. QED BY <1>2, <2>1, <2>2, CrewTypes
<1>4. ASSUME NEW m \in Invitations PROVE StartsOf(m)'
  <2>1. ASSUME NEW pcs \in SUBSET Running
        PROVE  /\ IsFiniteSet(At(pcs, m)')
               /\ m # k => Count(pcs, m)' = Count(pcs, m)
               /\ m = k => Count(pcs, m)' = Count(pcs, m) + (IF "date" \in pcs THEN 1 ELSE 0)
                                                          - (IF mpc[w] \in pcs THEN 1 ELSE 0)
    BY <1>1, <1>2, GoesOn
  <2>2. /\ m = k => /\ Count({"save", "send"}, m)' = Count({"save", "send"}, m) - 1
                    /\ Count({"date"}, m)' = Count({"date"}, m) + 1
        /\ m # k => /\ Count({"save", "send"}, m)' = Count({"save", "send"}, m)
                    /\ Count({"date"}, m)' = Count({"date"}, m)
        /\ Count({"save"}, m)' = Count({"save"}, m)
    BY <1>2, <2>1, Steps, MailFacts
  <2>3. delivered'[m] = IF m = k THEN delivered[m] + 1 ELSE delivered[m]
    BY <1>2 DEF MailInv, MailTypes
  <2>4. Open(m)' = Open(m)
    BY <1>2 DEF Open
  <2>5. QED BY <1>2, <2>1, <2>2, <2>3, <2>4, MailFacts, Steps DEF MailInv, StartsOf
<1>5. QED BY <1>3, <1>4 DEF MailInv

(* The row of the run is dated, or the run has failed.                        *)
LEMMA EndsMail ==
    ASSUME MailInv, NEW w \in Mailers, Mail!DateMail(w) \/ Mail!MailFails(w)
    PROVE  MailInv'
<1>1. PICK k \in Invitations : k = mmail[w]
  BY CrewFacts DEF Mail!DateMail, Mail!MailFails
<1>2. /\ UNCHANGED <<stalls, rows, delivered>> /\ Turns(w, "idle", None)
      /\ mailJob' \in [Invitations -> Mail!MailStatus]
      /\ holder' \in [Invitations -> Mailers \cup {None}]
      /\ \A m \in Invitations : Open(m)' <= Open(m) /\ Open(m)' \in {0, 1}
  <2>1. /\ UNCHANGED <<stalls, rows, delivered>> /\ mpc[w] # "idle"
        /\ \E status \in {"completed", "failed"} : Mail!Finish(w, status)
    BY DEF Mail!DateMail, Mail!MailFails, Mail!table
  <2>2. QED BY <2>1, Finishes
<1>3. \/ mpc[w] = "date" /\ dated' = [dated EXCEPT ![k] = @ + 1]
      \/ dated' = dated
  BY <1>1 DEF Mail!DateMail, Mail!MailFails, Mail!table
<1>4. MailTypes'
  <2>1. "idle" \in Mail!MailerPc
    BY DEF Mail!MailerPc
  <2>2. /\ dated' \in [Invitations -> Nat] /\ stalls' \in [Invitations -> 0..MaxStalls]
        /\ rows' \in [Invitations -> Nat] /\ delivered' \in [Invitations -> Nat]
    BY <1>2, <1>3 DEF MailInv, MailTypes
  <2>3. QED BY <1>2, <2>1, <2>2, CrewTypes
<1>5. ASSUME NEW m \in Invitations PROVE StartsOf(m)'
  <2>1. ASSUME NEW pcs \in SUBSET Running
        PROVE  /\ IsFiniteSet(At(pcs, m)')
               /\ m # k => Count(pcs, m)' = Count(pcs, m)
               /\ m = k => Count(pcs, m)' = Count(pcs, m) + (IF "idle" \in pcs THEN 1 ELSE 0)
                                                          - (IF mpc[w] \in pcs THEN 1 ELSE 0)
    BY <1>1, <1>2, GoesOn
  <2>2. /\ Count({"save"}, m)' <= Count({"save"}, m) /\ Count({"save"}, m)' \in Int
        /\ Count({"save", "send"}, m)' <= Count({"save", "send"}, m)
        /\ Count({"save", "send"}, m)' \in Int
        /\ Count({"date"}, m)' <= Count({"date"}, m) /\ Count({"date"}, m)' \in Int
        /\ m = k /\ mpc[w] = "date" => Count({"date"}, m)' = Count({"date"}, m) - 1
    BY <2>1, Steps, MailFacts
  <2>3. \/ dated'[m] = dated[m]
        \/ m = k /\ mpc[w] = "date" /\ dated'[m] = dated[m] + 1
    BY <1>3 DEF MailInv, MailTypes
  <2>4. Open(m)' <= Open(m) /\ Open(m)' \in {0, 1}
    BY <1>2
  <2>5. QED BY <1>2, <2>1, <2>2, <2>3, <2>4, MailFacts, Steps DEF MailInv, StartsOf
<1>6. QED BY <1>4, <1>5 DEF MailInv

(* A lock that is lost is counted when its mail waits again.                  *)
LEMMA StallsMail ==
    ASSUME MailInv, NEW w \in Mailers, Mail!StallMail(w)
    PROVE  MailInv'
<1>1. PICK k \in Invitations : k = mmail[w]
  BY CrewFacts DEF Mail!StallMail
<1>2. /\ UNCHANGED <<rows, dated, delivered>>
      /\ holder' = [holder EXCEPT ![k] = None]
      /\ mailJob' = [mailJob EXCEPT ![k] = IF stalls[k] < MaxStalls THEN "waiting" ELSE "failed"]
      /\ stalls' = [stalls EXCEPT ![k] = IF stalls[k] < MaxStalls THEN stalls[k] + 1
                                                                  ELSE stalls[k]]
  BY <1>1 DEF Mail!StallMail, Mail!table, MailInv, MailTypes
<1>3. Turns(w, "idle", None) \/ UNCHANGED <<mpc, mmail>>
  BY DEF Mail!StallMail, Mail!Leave, Mail!crew, Turns
<1>4. /\ mailJob' \in [Invitations -> Mail!MailStatus]
      /\ holder' \in [Invitations -> Mailers \cup {None}]
      /\ stalls' \in [Invitations -> 0..MaxStalls]
  <2>1. stalls[k] \in 0..MaxStalls /\ MaxStalls \in Nat
    BY MailAssumption DEF MailInv, MailTypes
  <2>2. (IF stalls[k] < MaxStalls THEN stalls[k] + 1 ELSE stalls[k]) \in 0..MaxStalls
    BY <2>1
  <2>3. QED BY <1>2, <2>2 DEF MailInv, MailTypes, Mail!MailStatus
<1>5. MailTypes'
  <2>1. CASE Turns(w, "idle", None)
    <3>1. "idle" \in Mail!MailerPc
      BY DEF Mail!MailerPc
    <3>2. /\ rows' \in [Invitations -> Nat] /\ dated' \in [Invitations -> Nat]
          /\ delivered' \in [Invitations -> Nat]
      BY <1>2 DEF MailInv, MailTypes
    <3>3. QED BY <1>4, <2>1, <3>1, <3>2, CrewTypes
  <2>2. CASE UNCHANGED <<mpc, mmail>>
    BY <1>2, <1>4, <2>2 DEF MailInv, MailTypes
  <2>3. QED BY <1>3, <2>1, <2>2
<1>6. ASSUME NEW m \in Invitations PROVE StartsOf(m)'
  <2>1. ASSUME NEW pcs \in SUBSET Running
        PROVE  /\ IsFiniteSet(At(pcs, m)')
               /\ Count(pcs, m)' <= Count(pcs, m) /\ Count(pcs, m)' \in Int
    <3>1. CASE Turns(w, "idle", None)
      <4>1. /\ IsFiniteSet(At(pcs, m)')
            /\ m # k => Count(pcs, m)' = Count(pcs, m)
            /\ m = k => Count(pcs, m)' = Count(pcs, m) + (IF "idle" \in pcs THEN 1 ELSE 0)
                                                       - (IF mpc[w] \in pcs THEN 1 ELSE 0)
        BY <1>1, <3>1, GoesOn
      <4>2. "idle" \notin pcs /\ Count(pcs, m) \in Nat
        BY MailFacts DEF Running
      <4>3. QED BY <4>1, <4>2
    <3>2. CASE UNCHANGED <<mpc, mmail>>
      <4>1. At(pcs, m)' = At(pcs, m)
        BY <3>2 DEF At
      <4>2. QED BY <4>1, MailFacts DEF Count, MailInv, StartsOf
    <3>3. QED BY <1>3, <3>1, <3>2
  <2>2. /\ stalls'[m] \in Nat /\ Open(m)' \in {0, 1}
        /\ Open(m)' - stalls'[m] <= Open(m) - stalls[m]
    <3>1. CASE m # k
      BY <1>2, <3>1, MailFacts DEF Open, MailInv, MailTypes
    <3>2. CASE m = k
      <4>1. CASE stalls[k] < MaxStalls
        <5>1. stalls'[m] = stalls[m] + 1 /\ Open(m)' = 1
          BY <1>2, <3>2, <4>1 DEF Open, MailInv, MailTypes
        <5>2. QED BY <5>1, MailFacts
      <4>2. CASE ~(stalls[k] < MaxStalls)
        <5>1. stalls'[m] = stalls[m] /\ Open(m)' = 0
          BY <1>2, <3>2, <4>2 DEF Open, MailInv, MailTypes
        <5>2. QED BY <5>1, MailFacts
      <4>3. QED BY <4>1, <4>2
    <3>3. QED BY <3>1, <3>2
  <2>3. QED BY <1>2, <2>1, <2>2, MailFacts, Steps DEF MailInv, StartsOf
<1>7. QED BY <1>5, <1>6 DEF MailInv

-----------------------------------------------------------------------------
(* The mails beside the requests.                                            *)

(* Every step of the composition is one of Accounts, or leaves it alone.      *)
LEMMA Composed == MailedSpec => Spec
<1>1. MailedInit => Init
  BY DEF MailedInit
<1>2. [MailedNext]_<<vars, mailVars>> => [Next]_vars
  BY DEF MailedNext, AccountStep
<1>3. QED BY <1>1, <1>2, PTL DEF MailedSpec, Spec

(* No mail is started initially, and every step of either part keeps count.   *)
LEMMA MailInductive ==
    /\ MailedInit => MailInv
    /\ MailInv /\ IInv' /\ [MailedNext]_<<vars, mailVars>> => MailInv'
<1>1. ASSUME MailedInit PROVE MailInv
  <2>1. /\ mailJob = [m \in Invitations |-> "absent"] /\ holder = [m \in Invitations |-> None]
        /\ stalls = [m \in Invitations |-> 0] /\ rows = [m \in Invitations |-> 0]
        /\ dated = [m \in Invitations |-> 0] /\ delivered = [m \in Invitations |-> 0]
        /\ mpc = [w \in Mailers |-> "idle"] /\ mmail = [w \in Mailers |-> None]
    BY <1>1 DEF MailedInit, Mail!MailInit
  <2>2. MailTypes
    BY <2>1, MailAssumption DEF MailTypes, Mail!MailStatus, Mail!MailerPc
  <2>3. ASSUME NEW m \in Invitations PROVE StartsOf(m)
    <3>1. \A pcs : At(pcs, m) = {}
      BY <2>1, MailAssumption DEF At
    <3>2. Open(m) = 1 /\ stalls[m] = 0 /\ rows[m] = 0 /\ dated[m] = 0 /\ delivered[m] = 0
      BY <2>1 DEF Open
    <3>3. QED BY <3>1, <3>2, FS_EmptySet DEF StartsOf, Count
  <2>4. QED BY <2>2, <2>3 DEF MailInv
<1>2. ASSUME MailInv, IInv', [MailedNext]_<<vars, mailVars>> PROVE MailInv'
  <2>1. CASE UNCHANGED mailVars
    BY <1>2, <2>1, QueuesMail
  <2>2. ASSUME NEW i \in queued' \ queued, Mail!SendMail(i) PROVE MailInv'
    <3>1. InvitationIds' \subseteq Invitations
      <4>1. Len(invitations') \in Nat /\ Len(invitations') <= MaxInvitations
        BY <1>2, LenProperties DEF IInv, InvitationsInv
      <4>2. QED BY <4>1, AccountBounds DEF InvitationIds, Invitations
    <3>2. i \in Invitations
      BY <1>2, <3>1 DEF IInv, InvitationsInv
    <3>3. QED BY <1>2, <2>2, <3>2, QueuesMail
  <2>3. ASSUME NEW w \in Mailers, NEW m \in Invitations, Mail!StartMail(w, m) PROVE MailInv'
    BY <1>2, <2>3, StartsMail
  <2>4. ASSUME NEW w \in Mailers, Mail!MailerStep(w) \/ Mail!StallMail(w) PROVE MailInv'
    BY <1>2, <2>4, SavesMail, TransmitsMail, EndsMail, StallsMail DEF Mail!MailerStep
  <2>5. QED BY <1>2, <2>1, <2>2, <2>3, <2>4 DEF MailedNext, AccountStep, Mail!MailNext
<1>3. QED BY <1>1, <1>2

(* Both invariants hold of the composition.                                  *)
LEMMA MailInvariance == MailedSpec => [](IInv /\ MailInv)
<1>1. MailedSpec => []IInv
  BY Composed, Invariance, PTL
<1>2. QED BY <1>1, MailInductive, PTL DEF MailedSpec

-----------------------------------------------------------------------------
(* Types: no job is run, no row saved and no mail sent more often than BullMQ *)
(* lets a lock be lost.                                                       *)
THEOREM MailedTypeCorrect == MailedSpec => []MailedTypeOK
<1>1. ASSUME IInv, MailInv PROVE MailedTypeOK
  <2>1. ASSUME NEW m \in Invitations
        PROVE  /\ rows[m] \in 0..(MaxStalls + 1) /\ dated[m] \in 0..(MaxStalls + 1)
               /\ delivered[m] \in 0..(MaxStalls + 1)
    <3>1. rows[m] <= MaxStalls + 1 /\ delivered[m] <= MaxStalls + 1 /\ dated[m] <= delivered[m]
      BY <1>1, MailFacts, Steps, MailAssumption DEF MailInv, StartsOf
    <3>2. QED BY <1>1, <3>1, MailFacts, MailAssumption
  <2>2. Mail!MailTypeOK
    BY <1>1, <2>1 DEF MailInv, MailTypes, Mail!MailTypeOK
  <2>3. QED BY <1>1, <2>2, TypeFollows DEF MailedTypeOK
<1>2. QED BY <1>1, MailInvariance, PTL

(* A mail goes out a second time only if its job's lock was lost, and a row   *)
(* with a sentDate stands for a mail that went out (SmtpEmailHandler.process).*)
THEOREM MailedCorrect == MailedSpec => []MailedOnce
<1>1. ASSUME MailInv PROVE MailedOnce
  BY <1>1, MailFacts, Steps DEF MailInv, StartsOf, MailedOnce, Mail!MailedOnce
<1>2. QED BY <1>1, MailInvariance, PTL
=============================================================================
