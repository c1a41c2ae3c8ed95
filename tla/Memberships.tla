------------------------------ MODULE Memberships ------------------------------
(***************************************************************************)
(* One organisation, its memberships and roles, the accounts of its        *)
(* members and their API keys: OrganisationMembershipsService,             *)
(* OrganisationService, UserService.remove and UserApiKeyService, and what *)
(* a login that links a member and one that accepts an invitation write to *)
(* the same rows.                                                          *)
(*                                                                         *)
(* Every operation reads, checks what it read and writes later; between    *)
(* the two other requests run.  TypeORM is external: a save first reads    *)
(* the rows again, outside its transaction, and then writes what differed  *)
(* from what it holds - roles, the null deletedDate of memberships, users  *)
(* and organisation - and inserts a row that was gone; it is refused if it *)
(* would orphan a membership it does not know.  Soft-deleted rows are not  *)
(* read: the user of a membership whose account was removed is null.       *)
(***************************************************************************)
EXTENDS Naturals, Sequences, FiniteSets

CONSTANTS
    Users, Founder,   \* accounts, and the one that owns the organisation
    Requests,         \* HTTP requests in progress at once
    Keys,             \* API keys
    None,             \* nobody
    MaxMemberships,   \* bound: memberships created
    MaxRequests       \* bound: requests made

ASSUME MembershipBounds ==
    /\ Founder \in Users /\ None \notin Users \cup Keys
    /\ MaxMemberships \in Nat \ {0, 1} /\ MaxRequests \in Nat

VARIABLES
    users,       \* accounts that are not soft-deleted
    open,        \* whether the organisation is not soft-deleted
    members,     \* membership rows: user, roles, live (not soft-deleted); history:
                 \*   what the save that inserted it saw live, when it was removed
    keys,        \* value of each API key, 0 for none
    granted,     \* history: roles an owner or an invitation has given each user
    retired,     \* history: key values replaced or removed
    gone,        \* history: when each key was removed last, 0 for never
    req,         \* what each request is about to write, and what it has read
    made         \* requests made: a clock, and source of new key values

tables  == <<users, open, members>>
history == <<granted, retired, gone>>
vars    == <<tables, keys, history, req, made>>

DtoRoles == {"owner", "member"}
Roles    == DtoRoles \cup {"invited"}
Ids      == 1..Len(members)

\* A request: when it arrived, its next step, its user, membership or key (with
\* the value read), the roles it gives its user, and the graph it saves: the
\* memberships read, with their roles as they are to be.  `adds` says that it
\* has a new membership too.  TypeORM's second read leaves the changes to make:
\* in memberships, accounts to bring back, the organisation; and what it saw.
\* `admin` is a modify:all caller; `promoted` says the user was made an owner since.
Idle == [pc |-> "idle", no |-> 0, user |-> None, member |-> 0, key |-> None,
         value |-> 0, roles |-> {}, graph |-> {}, adds |-> FALSE, changes |-> {},
         back |-> {}, opens |-> FALSE, saw |-> {}, admin |-> FALSE,
         promoted |-> FALSE]

\* SuperUserClaims
Claims == {"read:all", "modify:all"}

\* The repositories through which a graph of memberships is saved.
Saves  == {"saveOrganisation", "saveUser", "saveInvitation"}
Steps  == Saves \cup {"match", "write", "removeMember", "removeUser", "updateOrg",
                      "removeOrg", "saveKey", "removeKey"}

\* A change to a membership row: brought back or not, roles added and deleted.
ChangeSet(ids) ==
    [m : ids, revive : BOOLEAN, add : SUBSET Roles, drop : SUBSET Roles]

TypeOK ==
    /\ users \subseteq Users
    /\ open \in BOOLEAN
    /\ Len(members) <= MaxMemberships
    /\ \A m \in Ids : members[m] \in
          [user : Users, roles : SUBSET Roles, live : BOOLEAN, saw : SUBSET Ids,
           removed : 0..MaxRequests]
    /\ keys \in [Keys -> 0..MaxRequests]
    /\ granted \in [Users -> SUBSET Roles]
    /\ retired \subseteq 1..MaxRequests
    /\ gone \in [Keys -> 0..MaxRequests]
    /\ \A r \in Requests : req[r] \in
          [pc : Steps \cup {"idle"}, no : 0..MaxRequests, user : Users \cup {None},
           member : 0..Len(members), key : Keys \cup {None},
           value : 0..MaxRequests, roles : SUBSET Roles,
           graph : SUBSET (Ids \X SUBSET Roles), adds : BOOLEAN,
           changes : SUBSET ChangeSet(Ids), back : SUBSET Users, opens : BOOLEAN,
           saw : SUBSET Ids, admin : BOOLEAN, promoted : BOOLEAN]
    /\ made \in 0..MaxRequests
    \* The unique index on apiKey.
    /\ \A k, l \in Keys : keys[k] = keys[l] /\ keys[k] # 0 => k = l

Row(u, roles, saw) ==
    [user |-> u, roles |-> roles, live |-> TRUE, saw |-> saw, removed |-> 0]

\* The founder's organisation; somebody may have been invited to it already.
Init ==
    /\ users = Users
    /\ open = TRUE
    /\ \E invited \in SUBSET (Users \ {Founder}) :
          /\ members \in {<<Row(Founder, {"owner"}, {})>>} \cup
                {<<Row(Founder, {"owner"}, {}), Row(u, {"invited"}, {})>> : u \in invited}
          /\ granted = [u \in Users |->
                IF u = Founder THEN {"owner"}
                ELSE IF \E m \in Ids : members[m].user = u THEN {"invited", "member"}
                ELSE {}]
    /\ keys = [k \in Keys |-> 0]
    /\ retired = {} /\ gone = [k \in Keys |-> 0]
    /\ req = [r \in Requests |-> Idle]
    /\ made = 0

-----------------------------------------------------------------------------
Live      == {m \in Ids : members[m].live}
Owners    == {members[m].user : m \in {n \in Live : "owner" \in members[n].roles}}
Orphans   == {m \in Live : members[m].user \notin users}
MembershipsOf(u) == {m \in Live : members[m].user = u}

\* Mutant: soft-deleted memberships are read too.
ReadDeleted(ms) == {<<m, members[m].roles>> : m \in Ids}

\* Memberships as a query returns them, with their roles.
ReadMembers(ms) == {<<m, members[m].roles>> : m \in ms}

\* A request arrives, passes its checks and has read what it needs.
Begin(r, fields) ==
    /\ req[r].pc = "idle"
    /\ made < MaxRequests
    /\ made' = made + 1
    /\ req' = [req EXCEPT ![r] = [fields EXCEPT !.no = made + 1]]

Write(r, pc) ==
    /\ req[r].pc = pc
    /\ req' = [req EXCEPT ![r] = Idle]

\* ClaimsAuthorisationGuard: the caller has all the claims the route asks for.
CanActivate(mandatory, claims) == mandatory \subseteq claims

\* currentUserIsOwnerGuard, and the where clause of update and remove.
IsOwner(u) == open /\ u \in users /\ u \in Owners

-----------------------------------------------------------------------------
(* Who saves a graph of memberships.                                        *)

\* Mutant: the roles are given to the first membership that was read.
TargetFirst(u, ms) == ms \cap {1}

\* Mutant: a membership the user has already is not looked for.
TargetNone(u, ms) == {}

\* The membership of the user, among those that were read.
Target(u, ms) == {m \in ms : members[m].user = u}

\* createOrUpdate, as far as its read: the DTO's roles go to the membership the
\* user has, or to a new one - which loses them, having no array they could be
\* pushed to.  A membership whose user is null makes the search for the user
\* throw, or the save try to clear a NOT NULL column.
GetForUpdate(r, by, u, roles) ==
    LET target == Target(u, Live) IN
    /\ IsOwner(by)
    /\ Orphans = {}
    /\ Begin(r, [Idle EXCEPT
          !.pc = "saveOrganisation", !.user = u, !.adds = target = {},
          !.roles = IF target = {} THEN {} ELSE roles,
          !.graph = {<<m, roles>> : m \in target} \cup ReadMembers(Live \ target)])
    /\ UNCHANGED <<tables, keys, history>>

\* A login whose identity nobody has, with the verified e-mail of user u.
Login(r, u) ==
    /\ Begin(r, [Idle EXCEPT !.pc = "match", !.user = u])
    /\ UNCHANGED <<tables, keys, history>>

\* findAndLinkExistingUser, as far as its read: the user and his memberships, to
\* which the save does nothing but what its cascades do.  The null organisation
\* of a membership whose organisation was removed is refused.
MatchUser(r) ==
    LET u == req[r].user IN
    /\ req[r].pc = "match"
    /\ IF u \in users /\ open /\ MembershipsOf(u) # {}
       THEN req' = [req EXCEPT ![r].pc = "saveUser",
                               ![r].graph = ReadMembers(MembershipsOf(u))]
       ELSE req' = [req EXCEPT ![r] = Idle]
    /\ UNCHANGED <<tables, keys, history, made>>

\* handleInvitedUser, as far as its read: the invited role becomes a member's.
\* The invitation counts as open for as long as its membership has that role.
FindInvitation(r, m) ==
    /\ open /\ m \in Live \ Orphans
    /\ "invited" \in members[m].roles
    /\ Begin(r, [Idle EXCEPT
          !.pc = "saveInvitation", !.user = members[m].user,
          !.graph = {<<m, (members[m].roles \ {"invited"}) \cup {"member"}>>}])
    /\ UNCHANGED <<tables, keys, history>>

-----------------------------------------------------------------------------
(* TypeORM's save of the graph.                                             *)

Known(r) == {k[1] : k \in req[r].graph}

\* TypeORM would clear the organisation, or the user, of a membership that the
\* entity saved does not have, and the NOT NULL column refuses it.
KnowsAll(r) ==
    CASE req[r].pc = "saveOrganisation" -> Live \subseteq Known(r)
      [] req[r].pc = "saveUser"         -> MembershipsOf(req[r].user) \subseteq Known(r)
      [] OTHER                          -> TRUE

\* What differs in the memberships of the graph from the rows as they are now.
Differences(r) ==
    {c \in {[m |-> k[1], revive |-> ~members[k[1]].live,
             add |-> k[2] \ members[k[1]].roles, drop |-> members[k[1]].roles \ k[2]] :
             k \in req[r].graph} :
        c.revive \/ c.add # {} \/ c.drop # {}}

\* The second read.  Whatever was read as not deleted and is deleted now differs.
Reload(r) ==
    /\ req[r].pc \in Saves
    /\ KnowsAll(r)
    /\ req' = [req EXCEPT
          ![r].pc = "write", ![r].graph = {},
          ![r].changes = Differences(r),
          ![r].back = {members[m].user : m \in Known(r)} \ users,
          ![r].opens = ~open,
          ![r].saw = IF req[r].adds THEN Live ELSE {}]
    /\ UNCHANGED <<tables, keys, history, made>>

\* The rows after the changes.
Rewritten(r) ==
    [m \in Ids |->
        [members[m] EXCEPT
            !.live = @ \/ \E c \in req[r].changes : c.m = m /\ c.revive,
            !.roles = (@ \cup UNION {c.add : c \in {d \in req[r].changes : d.m = m}})
                         \ UNION {c.drop : c \in {d \in req[r].changes : d.m = m}}]]

\* Removals under way of a user who was no owner and will be one.
Promoting(r, rows) ==
    {q \in Requests \ {r} :
        /\ req[q].pc = "removeUser"
        /\ req[q].user \notin Owners
        /\ \E m \in DOMAIN rows :
              /\ rows[m].live /\ rows[m].user = req[q].user
              /\ "owner" \in rows[m].roles}

\* The transaction.
WriteGraph(r) ==
    LET u    == req[r].user
        rows == IF req[r].adds THEN Append(Rewritten(r), Row(u, {}, req[r].saw))
                               ELSE Rewritten(r)
    IN
    /\ req[r].pc = "write"
    /\ Len(rows) <= MaxMemberships
    /\ members' = rows
    /\ users' = users \cup req[r].back
    /\ open' = (open \/ req[r].opens)
    /\ granted' = [granted EXCEPT ![u] = @ \cup req[r].roles]
    /\ req' = [q \in Requests |->
                  IF q = r THEN Idle
                  ELSE [req[q] EXCEPT !.promoted = @ \/ q \in Promoting(r, rows)]]
    /\ UNCHANGED <<keys, retired, gone, made>>

-----------------------------------------------------------------------------
(* OrganisationMembershipsService.remove.                                  *)

\* As far as its read; its search for the owner may or may not come upon a
\* membership whose user is null.
GetForRemove(r, by, m) ==
    /\ IsOwner(by)
    /\ m \in Live
    /\ Begin(r, [Idle EXCEPT !.pc = "removeMember", !.member = m])
    /\ UNCHANGED <<tables, keys, history>>

\* Mutant: the last row is deleted for good, whoever has read it.
DropMembership(r) ==
    /\ Write(r, "removeMember")
    /\ members' = SubSeq(members, 1, Len(members) - 1)
    /\ UNCHANGED <<users, open, keys, history, made>>

\* The membership is soft-deleted, after its invitations.
RemoveMembership(r) ==
    /\ Write(r, "removeMember")
    /\ members' = [members EXCEPT ![req[r].member].live = FALSE,
                                  ![req[r].member].removed = made]
    /\ UNCHANGED <<users, open, keys, history, made>>

-----------------------------------------------------------------------------
(* UserService.remove and OrganisationService.                             *)

\* Mutant: only the caller is checked.
RemovableSelf(u, claims) == TRUE

\* Users remove themselves unless they own an organisation; modify:all removes
\* anybody.
Removable(u, claims) == "modify:all" \in claims \/ u \notin Owners

GetUser(r, u, claims) ==
    /\ u \in users
    /\ Removable(u, claims)
    /\ Begin(r, [Idle EXCEPT !.pc = "removeUser", !.user = u,
                             !.admin = "modify:all" \in claims])
    /\ UNCHANGED <<tables, keys, history>>

\* The account is soft-deleted; its memberships stay.
RemoveUser(r) ==
    /\ Write(r, "removeUser")
    /\ users' = users \ {req[r].user}
    /\ UNCHANGED <<open, members, keys, history, made>>

GetOrganisation(r, by, pc) ==
    /\ IsOwner(by)
    /\ Begin(r, [Idle EXCEPT !.pc = pc])
    /\ UNCHANGED <<tables, keys, history>>

\* update saves the row as it was read: a deletedDate is cleared, unless it came
\* after TypeORM had looked for what differs.
UpdateOrganisation(r) ==
    /\ Write(r, "updateOrg")
    /\ open' \in {TRUE, open}
    /\ UNCHANGED <<users, members, keys, history, made>>

\* remove soft-deletes the organisation; its memberships stay.
RemoveOrganisation(r) ==
    /\ Write(r, "removeOrg")
    /\ open' = FALSE
    /\ UNCHANGED <<users, members, keys, history, made>>

-----------------------------------------------------------------------------
(* UserApiKeyService.                                                      *)

GetKey(r, k, pc) ==
    /\ keys[k] # 0
    /\ Begin(r, [Idle EXCEPT !.pc = pc, !.key = k, !.value = keys[k]])
    /\ UNCHANGED <<tables, keys, history>>

\* createKey: a row of its own.
CreateKey(r, k) ==
    /\ req[r].pc = "idle" /\ made < MaxRequests
    /\ keys[k] = 0 /\ gone[k] = 0
    /\ made' = made + 1
    /\ keys' = [keys EXCEPT ![k] = made + 1]
    /\ UNCHANGED <<tables, history, req>>

\* Mutant: the value that was read is kept.
SaveKeyRead(r) ==
    /\ Write(r, "saveKey")
    /\ keys' = [keys EXCEPT ![req[r].key] = req[r].value]
    /\ UNCHANGED <<tables, history, made>>

\* refreshKeyValue: a new value, in the row or in one that is inserted again -
\* unless the row was there when TypeORM looked and was deleted just then.
SaveKey(r) ==
    LET k == req[r].key IN
    /\ Write(r, "saveKey")
    /\ made < MaxRequests
    /\ made' = made + 1
    /\ \/ /\ keys' = [keys EXCEPT ![k] = made + 1]
          /\ retired' = retired \cup ({keys[k]} \ {0})
       \/ keys[k] = 0 /\ UNCHANGED <<keys, retired>>
    /\ UNCHANGED <<tables, granted, gone>>

\* remove deletes the row.
RemoveKey(r) ==
    LET k == req[r].key IN
    /\ Write(r, "removeKey")
    /\ keys' = [keys EXCEPT ![k] = 0]
    /\ retired' = retired \cup ({keys[k]} \ {0})
    /\ gone' = [gone EXCEPT ![k] = made]
    /\ UNCHANGED <<tables, granted, made>>

\* A write fails or is refused, or the process dies.
RequestFails(r) ==
    /\ req[r].pc # "idle"
    /\ req' = [req EXCEPT ![r] = Idle]
    /\ UNCHANGED <<tables, keys, history, made>>

-----------------------------------------------------------------------------
\* What the controllers serve, to the callers their guards let through.
MembershipRequest(r) ==
    \E by \in Users :
        \/ \E u \in Users, roles \in SUBSET DtoRoles : GetForUpdate(r, by, u, roles)
        \/ \E m \in Ids : GetForRemove(r, by, m)

UserRequest(r) ==
    \E u \in Users, claims \in SUBSET Claims : GetUser(r, u, claims)

LoginRequest(r) ==
    (\E u \in Users : Login(r, u)) \/ (\E m \in Ids : FindInvitation(r, m))

OrganisationRequest(r) ==
    \E by \in Users, pc \in {"updateOrg", "removeOrg"} : GetOrganisation(r, by, pc)

KeyRequest(r) ==
    \E k \in Keys, claims \in SUBSET Claims :
        /\ CanActivate({"modify:all"}, claims)
        /\ \/ CreateKey(r, k)
           \/ \E pc \in {"saveKey", "removeKey"} : GetKey(r, k, pc)

Next ==
    \E r \in Requests :
        \/ MembershipRequest(r) \/ UserRequest(r)
        \/ OrganisationRequest(r) \/ KeyRequest(r) \/ LoginRequest(r)
        \/ MatchUser(r) \/ Reload(r) \/ WriteGraph(r)
        \/ RemoveMembership(r) \/ RemoveUser(r)
        \/ UpdateOrganisation(r) \/ RemoveOrganisation(r)
        \/ SaveKey(r) \/ RemoveKey(r)
        \/ RequestFails(r)

Spec == Init /\ [][Next]_vars

-----------------------------------------------------------------------------
\* A user gets a second membership only while his first one is being inserted,
\* or was removed and is brought back since: the save that inserts a membership
\* has seen none of his among those the organisation had when TypeORM, having
\* been handed the organisation, read it again (createOrUpdate, 77-108).
OneMembership ==
    \A m, n \in Live :
        m < n /\ members[m].user = members[n].user => m \notin members[n].saw

\* Nobody holds a role that no owner and no invitation ever gave him, whatever
\* stale memberships are written back (createOrUpdate, 82-95).
RolesGranted == \A m \in Live : members[m].roles \subseteq granted[members[m].user]

\* A removed membership comes back only by a save - of the organisation, of the
\* user who is linked, of an invitation accepted - of a request that arrived
\* before it was removed: whoever comes later does not find it (remove, 159).
RemovedStays ==
    [][\A m \in Ids : ~members[m].live /\ members'[m].live
          => \E r \in Requests :
                /\ req[r].pc = "write" /\ req'[r].pc = "idle"
                /\ req[r].no <= members[m].removed]_vars

\* "Can't remove the owner of an organisation. Assign a new owner first.": an
\* owner's account is removed only by modify:all, or if he became an owner
\* after his roles were read (UserService.remove).
OwnerStays ==
    [][\A u \in users \ users' : u \in Owners
          => \E r \in Requests :
                /\ req[r].pc = "removeUser" /\ req[r].user = u
                /\ req[r].admin \/ req[r].promoted]_vars

\* No value that was replaced or removed is a key again, and a key that was
\* removed comes back, under a new value, only by a refresh that arrived before
\* it was: "Once a key is gone it should be gone" (remove, 81) is not true.
KeysStayGone ==
    [][\A k \in Keys : keys'[k] \notin {0, keys[k]} =>
          /\ keys'[k] \notin retired
          /\ gone[k] # 0 /\ keys[k] = 0 =>
                \E r \in Requests :
                   /\ req[r].pc = "saveKey" /\ req[r].key = k
                   /\ req[r].no <= gone[k]]_vars
=============================================================================
