-------------------------- MODULE MembershipsProofs --------------------------
(***************************************************************************)
(* What stale reads cannot do to an organisation, its members and their    *)
(* keys: for any number of users, requests, memberships and keys.          *)
(***************************************************************************)
EXTENDS Memberships, SequenceTheorems, TLAPS

USE DEF tables, history

RowSet == [user : Users, roles : SUBSET Roles, live : BOOLEAN, saw : SUBSET Nat,
           removed : 0..MaxRequests]

(* What a request may hold while there are n memberships.                    *)
Fields(n) ==
    [pc : Steps \cup {"idle"}, no : 0..MaxRequests, user : Users \cup {None},
     member : 0..n, key : Keys \cup {None}, value : 0..MaxRequests,
     roles : SUBSET DtoRoles, graph : SUBSET ((1..n) \X SUBSET Roles),
     adds : BOOLEAN, changes : SUBSET ChangeSet(1..n), back : SUBSET Users,
     opens : BOOLEAN, saw : SUBSET (1..n), admin : BOOLEAN, promoted : BOOLEAN]

(* The steps of a request whose user is an account.                          *)
Theirs == Saves \cup {"match", "write"}

(* Key values come from the counter of requests, so none is ahead of it; who  *)
(* is about to refresh a key that is gone arrived before it was.              *)
KeyInv ==
    /\ keys \in [Keys -> 0..made] /\ retired \subseteq 1..made
    /\ gone \in [Keys -> 0..made]
    /\ \A k, l \in Keys : keys[k] = keys[l] /\ keys[k] # 0 => k = l
    /\ \A k \in Keys : keys[k] \notin retired
    /\ \A r \in Requests : req[r].pc = "saveKey" /\ keys[req[r].key] = 0
          => req[r].no <= gone[req[r].key]

TypeInv ==
    /\ users \subseteq Users /\ open \in BOOLEAN
    /\ members \in Seq(RowSet) /\ Len(members) <= MaxMemberships
    /\ granted \in [Users -> SUBSET Roles]
    /\ made \in 0..MaxRequests
    /\ req \in [Requests -> Fields(Len(members))]
    /\ \A m \in Ids : members[m].saw \subseteq Ids
    /\ \A r \in Requests :
          /\ req[r].no <= made
          /\ req[r].pc \in Theirs => req[r].user \in Users
          /\ req[r].pc = "removeMember" => req[r].member \in Ids
          /\ req[r].pc \in {"saveKey", "removeKey"} => req[r].key \in Keys
    /\ KeyInv

(* Memberships are a sequence of rows.                                      *)
LEMMA MemberFacts ==
    ASSUME TypeInv
    PROVE  /\ Len(members) \in Nat /\ DOMAIN members = Ids
           /\ \A m \in Ids : members[m] \in RowSet
BY DEF TypeInv, Ids

(* What a request holds still has its type when memberships are added.      *)
LEMMA FieldsGrow ==
    ASSUME NEW n \in Nat, NEW k \in Nat, n <= k
    PROVE  Fields(n) \subseteq Fields(k)
<1>1. 1..n \subseteq 1..k /\ 0..n \subseteq 0..k
  OBVIOUS
<1>2. ChangeSet(1..n) \subseteq ChangeSet(1..k)
  BY <1>1 DEF ChangeSet
<1>3. (1..n) \X SUBSET Roles \subseteq (1..k) \X SUBSET Roles
  BY <1>1
<1>4. QED BY <1>1, <1>2, <1>3 DEF Fields

(* An idle request is well typed.                                           *)
LEMMA IdleIsField == ASSUME NEW n \in Nat PROVE Idle \in Fields(n)
BY MembershipBounds DEF Fields, Idle

(* What is known to a request are memberships.                              *)
LEMMA KnownIds == ASSUME TypeInv PROVE \A q \in Requests : Known(q) \subseteq Ids
BY DEF TypeInv, Fields, Known, Ids

(* The transaction leaves every membership its user and its history, brings   *)
(* back what its changes say, gives roles they say, and adds one at most.     *)
LEMMA WrittenRows ==
    ASSUME TypeInv, NEW r \in Requests, WriteGraph(r)
    PROVE  /\ members' \in Seq(RowSet) /\ Len(members') <= MaxMemberships
           /\ \A m \in Ids : /\ members'[m].user = members[m].user
                             /\ members'[m].saw = members[m].saw
                             /\ members'[m].removed = members[m].removed
           /\ \A m \in Ids : members[m].live => members'[m].live
           /\ \A m \in Ids : members'[m].live => members[m].live
                 \/ \E c \in req[r].changes : c.m = m /\ c.revive
           /\ \A m \in Ids : \A x \in members'[m].roles : x \in members[m].roles
                 \/ \E c \in req[r].changes : c.m = m /\ x \in c.add
           /\ ~req[r].adds => Len(members') = Len(members)
           /\ req[r].adds =>
                 /\ Len(members') = Len(members) + 1
                 /\ members'[Len(members) + 1] = Row(req[r].user, {}, req[r].saw)
<1> USE MemberFacts
<1>1. /\ req[r] \in Fields(Len(members))
      /\ req[r].user \in Users
  BY DEF TypeInv, WriteGraph, Theirs
<1>2. /\ req[r].changes \subseteq ChangeSet(Ids)
      /\ req[r].adds \in BOOLEAN /\ req[r].saw \subseteq Ids
  BY <1>1 DEF Fields, Ids
<1> DEFINE rows == Rewritten(r)
           b(m) == members[m].live \/ \E c \in req[r].changes : c.m = m /\ c.revive
           s(m) == (members[m].roles
                       \cup UNION {c.add : c \in {d \in req[r].changes : d.m = m}})
                     \ UNION {c.drop : c \in {d \in req[r].changes : d.m = m}}
<1>3. \A m \in Ids : /\ b(m) \in BOOLEAN /\ (members[m].live => b(m))
                     /\ b(m) => members[m].live
                           \/ \E c \in req[r].changes : c.m = m /\ c.revive
  OBVIOUS
<1>4. \A m \in Ids : /\ s(m) \in SUBSET Roles
                     /\ \A x \in s(m) : x \in members[m].roles
                           \/ \E c \in req[r].changes : c.m = m /\ x \in c.add
  <2> SUFFICES ASSUME NEW m \in Ids
               PROVE  /\ s(m) \in SUBSET Roles
                      /\ \A x \in s(m) : x \in members[m].roles
                            \/ \E c \in req[r].changes : c.m = m /\ x \in c.add
      OBVIOUS
  <2>1. ASSUME NEW x \in s(m), x \notin members[m].roles
        PROVE  \E c \in req[r].changes : c.m = m /\ x \in c.add
    BY <2>1
  <2>2. \A c \in req[r].changes : c.add \subseteq Roles
    BY <1>2 DEF ChangeSet
  <2>3. members[m].roles \subseteq Roles
    BY DEF RowSet
  <2> HIDE DEF s
  <2>4. QED BY <2>1, <2>2, <2>3
<1>5. \A m \in Ids : rows[m] = [members[m] EXCEPT !.live = b(m), !.roles = s(m)]
  BY DEF Rewritten
<1>6. rows = [m \in Ids |-> rows[m]]
  BY DEF Rewritten
<1> HIDE DEF rows, b, s
<1>7. \A m \in Ids : /\ rows[m] \in RowSet
                     /\ rows[m].user = members[m].user
                     /\ rows[m].saw = members[m].saw
                     /\ rows[m].removed = members[m].removed
                     /\ rows[m].live = b(m) /\ rows[m].roles = s(m)
  <2> SUFFICES ASSUME NEW m \in Ids
               PROVE  /\ rows[m] \in RowSet
                      /\ rows[m].user = members[m].user
                      /\ rows[m].saw = members[m].saw
                      /\ rows[m].removed = members[m].removed
                      /\ rows[m].live = b(m) /\ rows[m].roles = s(m)
      OBVIOUS
  <2>1. PICK live \in BOOLEAN : live = b(m)
    BY <1>3
  <2>2. PICK roles \in SUBSET Roles : roles = s(m)
    BY <1>4
  <2>3. rows[m] = [members[m] EXCEPT !.live = live, !.roles = roles]
    BY <1>5, <2>1, <2>2
  <2>4. QED BY <2>1, <2>2, <2>3 DEF RowSet
<1>8. rows \in Seq(RowSet) /\ Len(rows) = Len(members)
  <2>1. rows \in [1..Len(members) -> RowSet]
    BY <1>6, <1>7 DEF Ids
  <2>2. rows \in Seq(RowSet)
    BY <2>1, SeqDef
  <2>3. QED BY <2>1, <2>2, LenProperties
<1>9. CASE ~req[r].adds
  <2>1. members' = rows /\ Len(rows) <= MaxMemberships
    BY <1>9 DEF WriteGraph, rows
  <2>2. QED BY <1>3, <1>4, <1>7, <1>8, <1>9, <2>1
<1>10. CASE req[r].adds
  <2> DEFINE row == Row(req[r].user, {}, req[r].saw)
  <2>1. members' = Append(rows, row) /\ Len(members') <= MaxMemberships
    BY <1>10 DEF WriteGraph, rows
  <2>2. row \in RowSet
    BY <1>1, <1>2, MembershipBounds DEF Row, RowSet, Ids
  <2> HIDE DEF row
  <2>3. /\ Append(rows, row) \in Seq(RowSet) /\ Len(Append(rows, row)) = Len(members) + 1
        /\ \A m \in Ids : Append(rows, row)[m] = rows[m]
        /\ Append(rows, row)[Len(members) + 1] = row
    BY <1>8, <2>2 DEF Ids
  <2>4. QED BY <1>3, <1>4, <1>7, <1>10, <2>1, <2>3 DEF row
<1>11. QED BY <1>2, <1>9, <1>10

(* A write of the graph leaves what other requests hold, and ends its own.     *)
LEMMA WrittenRequests ==
    ASSUME TypeInv, NEW r \in Requests, WriteGraph(r)
    PROVE  /\ req'[r] = Idle /\ req' = [q \in Requests |-> req'[q]]
           /\ \A q \in Requests \ {r} :
                 /\ \E p \in BOOLEAN : req'[q] = [req[q] EXCEPT !.promoted = p]
                 /\ q \in Promoting(r, members') => req'[q].promoted
                 /\ req[q].promoted => req'[q].promoted
<1>1. req'[r] = Idle /\ req' = [q \in Requests |-> req'[q]]
  BY DEF WriteGraph
<1>2. ASSUME NEW q \in Requests \ {r}
      PROVE  /\ \E p \in BOOLEAN : req'[q] = [req[q] EXCEPT !.promoted = p]
             /\ q \in Promoting(r, members') => req'[q].promoted
             /\ req[q].promoted => req'[q].promoted
  <2> DEFINE p == req[q].promoted \/ q \in Promoting(r, members')
  <2>1. req'[q] = [req[q] EXCEPT !.promoted = p]
    BY DEF WriteGraph
  <2>2. p \in BOOLEAN
    OBVIOUS
  <2>3. req[q] \in Fields(Len(members))
    BY DEF TypeInv
  <2>4. (q \in Promoting(r, members') => p) /\ (req[q].promoted => p)
    OBVIOUS
  <2> HIDE DEF p
  <2>5. req'[q].promoted = p
    BY <2>1, <2>3 DEF Fields
  <2>6. QED BY <2>1, <2>2, <2>4, <2>5
<1>3. QED BY <1>1, <1>2

-----------------------------------------------------------------------------
(* Types.                                                                    *)

(* What a request may be about to do, to memberships and keys as they are.    *)
Sound(f) ==
    /\ f.pc \in Theirs => f.user \in Users
    /\ f.pc = "removeMember" => f.member \in Ids
    /\ f.pc \in {"saveKey", "removeKey"} => f.key \in Keys
    /\ f.pc = "saveKey" => keys[f.key] # 0

(* A request begins: what it holds is well typed, and nothing else changes.   *)
LEMMA BeginStep ==
    ASSUME TypeInv, NEW r \in Requests, NEW fields \in Fields(Len(members)),
           Begin(r, fields), UNCHANGED <<tables, keys, history>>, Sound(fields)
    PROVE  TypeInv'
<1>1. /\ made' = made + 1 /\ made' \in 0..MaxRequests /\ made \in Nat
      /\ req' = [req EXCEPT ![r] = [fields EXCEPT !.no = made']]
  BY MembershipBounds DEF Begin, TypeInv
<1> DEFINE f == [fields EXCEPT !.no = made']
<1>2. f \in Fields(Len(members)) /\ f.no = made' /\ Sound(f)
  BY <1>1 DEF Fields, Sound
<1> HIDE DEF f
<1>3. /\ req' \in [Requests -> Fields(Len(members))]
      /\ req'[r] = f /\ \A q \in Requests \ {r} : req'[q] = req[q]
  BY <1>1, <1>2 DEF TypeInv, f
<1>4. \A q \in Requests :
         /\ req'[q].no <= made'
         /\ req'[q].pc \in Theirs => req'[q].user \in Users
         /\ req'[q].pc = "removeMember" => req'[q].member \in Ids
         /\ req'[q].pc \in {"saveKey", "removeKey"} => req'[q].key \in Keys
  <2>1. \A q \in Requests : req[q].no \in Nat
    BY MembershipBounds DEF TypeInv, Fields
  <2>2. QED BY <1>1, <1>2, <1>3, <2>1 DEF Sound, TypeInv
<1>5. KeyInv'
  <2>1. \A q \in Requests : req'[q].pc = "saveKey" /\ keys[req'[q].key] = 0
           => req'[q].no <= gone[req'[q].key]
    BY <1>2, <1>3 DEF Sound, TypeInv, KeyInv
  <2>2. keys' = keys /\ retired' = retired /\ gone' = gone
    OBVIOUS
  <2>3. 0..made \subseteq 0..made' /\ 1..made \subseteq 1..made'
    BY <1>1
  <2>4. keys \in [Keys -> 0..made'] /\ gone \in [Keys -> 0..made'] /\ retired \subseteq 1..made'
    BY <2>3 DEF TypeInv, KeyInv
  <2>5. QED BY <2>1, <2>2, <2>4 DEF TypeInv, KeyInv
<1>6. members' = members /\ Ids' = Ids /\ users' = users /\ open' = open /\ granted' = granted
  BY DEF Ids
<1>7. QED BY <1>1, <1>3, <1>4, <1>5, <1>6 DEF TypeInv

(* A request goes on without a write, or ends.                               *)
LEMMA GoOnStep ==
    ASSUME TypeInv, NEW r \in Requests, NEW f \in Fields(Len(members)),
           req' = [req EXCEPT ![r] = f], UNCHANGED <<tables, keys, history, made>>,
           f.no = req[r].no \/ f = Idle, f.pc \in {"idle"} \cup Theirs,
           f.pc \in Theirs => f.user \in Users
    PROVE  TypeInv'
<1>1. /\ req' \in [Requests -> Fields(Len(members))]
      /\ req'[r] = f /\ \A q \in Requests \ {r} : req'[q] = req[q]
  BY DEF TypeInv
<1>2. f.pc \notin {"removeMember", "saveKey", "removeKey"}
  BY DEF Theirs, Saves
<1>3. f.no <= made
  BY DEF TypeInv, Idle
<1>4. Ids' = Ids
  BY DEF Ids
<1>5. KeyInv'
  BY <1>1, <1>2 DEF TypeInv, KeyInv
<1>6. QED BY <1>1, <1>2, <1>3, <1>4, <1>5 DEF TypeInv

(* A request ends, and with it the rows it has written.                      *)
LEMMA EndStep ==
    ASSUME TypeInv, NEW r \in Requests, req' = [req EXCEPT ![r] = Idle],
           users' \subseteq Users, open' \in BOOLEAN, UNCHANGED granted,
           members' \in Seq(RowSet), Len(members') = Len(members),
           \A m \in Ids : members'[m].saw = members[m].saw,
           made' \in made..MaxRequests, KeyInv'
    PROVE  TypeInv'
<1>1. Idle \in Fields(Len(members))
  BY MemberFacts, IdleIsField
<1>2. /\ req' \in [Requests -> Fields(Len(members))]
      /\ req'[r] = Idle /\ \A q \in Requests \ {r} : req'[q] = req[q]
  BY <1>1 DEF TypeInv
<1>3. Ids' = Ids
  BY DEF Ids
<1>4. made \in Nat /\ made' \in 0..MaxRequests /\ made <= made'
  BY MembershipBounds DEF TypeInv
<1>5. \A q \in Requests : req'[q].no <= made'
  <2>1. \A q \in Requests : req[q].no \in Nat /\ req[q].no <= made
    BY MembershipBounds DEF TypeInv, Fields
  <2>2. Idle.no = 0
    BY DEF Idle
  <2>3. QED BY <1>2, <1>4, <2>1, <2>2
<1>6. Idle.pc \notin Theirs \cup {"removeMember", "saveKey", "removeKey"}
  BY DEF Idle, Theirs, Saves
<1>7. QED BY <1>2, <1>3, <1>4, <1>5, <1>6 DEF TypeInv

(* The keys are as they were, while requests that refresh none go on.        *)
LEMMA KeysSame ==
    ASSUME TypeInv, UNCHANGED <<keys, retired, gone, made>>,
           \A q \in Requests : /\ req'[q].pc \in {req[q].pc, "idle"}
                               /\ req'[q].pc = "saveKey" => /\ req'[q].key = req[q].key
                                                            /\ req'[q].no = req[q].no
    PROVE  KeyInv'
BY DEF TypeInv, KeyInv

(* The transaction keeps the types.                                         *)
LEMMA WriteGraphTypes ==
    ASSUME TypeInv, NEW r \in Requests, WriteGraph(r)
    PROVE  TypeInv'
<1> DEFINE n == Len(members)  k == Len(members')
<1>1. /\ members' \in Seq(RowSet) /\ k <= MaxMemberships
      /\ n \in Nat /\ k \in Nat /\ n <= k
  BY WrittenRows, MemberFacts, LenProperties
<1>2. Ids \subseteq Ids'
  BY <1>1 DEF Ids
<1>3. req[r] \in Fields(n) /\ req[r].user \in Users
  BY DEF TypeInv, WriteGraph, Theirs
<1>4. users' \subseteq Users
  BY <1>3 DEF WriteGraph, TypeInv, Fields
<1>5. granted' \in [Users -> SUBSET Roles]
  BY <1>3 DEF WriteGraph, TypeInv, Fields, Roles
<1>6. \A m \in Ids' : members'[m].saw \subseteq Ids'
  <2>1. \A m \in Ids : members'[m].saw \subseteq Ids'
    BY <1>2, WrittenRows DEF TypeInv
  <2>2. ASSUME NEW m \in Ids', m \notin Ids
        PROVE  members'[m].saw \subseteq Ids'
    <3>1. req[r].adds
      BY <2>2, WrittenRows DEF Ids
    <3>2. k = n + 1 /\ members'[n + 1] = Row(req[r].user, {}, req[r].saw)
      BY <3>1, WrittenRows
    <3>3. m = n + 1
      BY <1>1, <2>2, <3>2 DEF Ids
    <3>4. req[r].saw \subseteq Ids
      BY <1>3 DEF Fields, Ids
    <3>5. members'[m].saw = req[r].saw
      BY <3>2, <3>3 DEF Row
    <3>6. QED BY <1>2, <3>4, <3>5
  <2>3. QED BY <2>1, <2>2
<1>7. Idle \in Fields(k) /\ Fields(n) \subseteq Fields(k)
  BY <1>1, IdleIsField, FieldsGrow
<1>8. \A q \in Requests :
         /\ req'[q] \in Fields(k)
         /\ req'[q].pc \in {req[q].pc, "idle"}
         /\ req'[q].no <= made
         /\ req'[q].pc # "idle" => /\ req'[q].user = req[q].user
                                   /\ req'[q].member = req[q].member
                                   /\ req'[q].key = req[q].key
                                   /\ req'[q].no = req[q].no
  <2> SUFFICES ASSUME NEW q \in Requests
               PROVE  /\ req'[q] \in Fields(k)
                      /\ req'[q].pc \in {req[q].pc, "idle"}
                      /\ req'[q].no <= made
                      /\ req'[q].pc # "idle" => /\ req'[q].user = req[q].user
                                                /\ req'[q].member = req[q].member
                                                /\ req'[q].key = req[q].key
                                                /\ req'[q].no = req[q].no
    OBVIOUS
  <2>1. req[q] \in Fields(k) /\ req[q].no <= made
    BY <1>7 DEF TypeInv
  <2>2. CASE q = r
    <3>1. req'[q] = Idle
      BY <2>2, WrittenRequests
    <3>2. made \in Nat
      BY DEF TypeInv
    <3>3. Idle.no = 0 /\ Idle.pc = "idle"
      BY DEF Idle
    <3>4. QED BY <1>7, <3>1, <3>2, <3>3
  <2>3. CASE q # r
    <3>1. PICK p \in BOOLEAN : req'[q] = [req[q] EXCEPT !.promoted = p]
      BY <2>3, WrittenRequests
    <3>2. QED BY <2>1, <3>1 DEF Fields
  <2>4. QED BY <2>2, <2>3
<1>9. req' \in [Requests -> Fields(k)]
  BY <1>8, WrittenRequests
<1>10. open' \in BOOLEAN
  BY <1>3 DEF WriteGraph, TypeInv, Fields
<1>11. UNCHANGED <<keys, retired, gone, made>>
  BY DEF WriteGraph
<1>12. KeyInv'
  BY <1>8, <1>11, KeysSame
<1>13. Theirs \cap {"idle"} = {}
  BY DEF Theirs, Saves
<1>14. \A q \in Requests :
          /\ req'[q].no <= made'
          /\ req'[q].pc \in Theirs => req'[q].user \in Users
          /\ req'[q].pc = "removeMember" => req'[q].member \in Ids'
          /\ req'[q].pc \in {"saveKey", "removeKey"} => req'[q].key \in Keys
  BY <1>2, <1>8, <1>11, <1>13 DEF TypeInv
<1>15. made' \in 0..MaxRequests
  BY <1>11 DEF TypeInv
<1>16. QED
  BY <1>1, <1>4, <1>5, <1>6, <1>9, <1>10, <1>12, <1>14, <1>15 DEF TypeInv

(* The memberships read, with their roles, are memberships with roles.        *)
LEMMA ReadTypes ==
    ASSUME TypeInv, NEW ms, ms \subseteq Ids
    PROVE  ReadMembers(ms) \subseteq (1..Len(members)) \X SUBSET Roles
BY MemberFacts DEF ReadMembers, Ids, RowSet

(* What differs is a set of changes to memberships.                           *)
LEMMA ChangeTypes ==
    ASSUME TypeInv, NEW r \in Requests
    PROVE  Differences(r) \subseteq ChangeSet(1..Len(members))
<1>1. \A k \in req[r].graph : k[1] \in Ids /\ k[2] \subseteq Roles
  BY DEF TypeInv, Fields, Ids
<1>2. \A m \in Ids : members[m].roles \subseteq Roles
  BY MemberFacts DEF RowSet
<1>3. ASSUME NEW k \in req[r].graph
      PROVE  [m |-> k[1], revive |-> ~members[k[1]].live,
              add |-> k[2] \ members[k[1]].roles, drop |-> members[k[1]].roles \ k[2]]
                \in ChangeSet(1..Len(members))
  <2>1. k[1] \in 1..Len(members) /\ (~members[k[1]].live) \in BOOLEAN
    BY <1>1 DEF Ids
  <2>2. /\ (k[2] \ members[k[1]].roles) \in SUBSET Roles
        /\ (members[k[1]].roles \ k[2]) \in SUBSET Roles
    BY <1>1, <1>2
  <2>3. QED BY <2>1, <2>2 DEF ChangeSet
<1>4. QED BY <1>3 DEF Differences

(* Every step keeps the types.                                              *)
LEMMA TypeStep == TypeInv /\ [Next]_vars => TypeInv'
<1> SUFFICES ASSUME TypeInv, [Next]_vars
             PROVE  TypeInv'
    OBVIOUS
<1> USE MemberFacts
<1>0. Idle \in Fields(Len(members)) /\ Live \subseteq Ids
  BY IdleIsField DEF Live
<1>1. ASSUME NEW r \in Requests, NEW by \in Users, NEW u \in Users,
             NEW roles \in SUBSET DtoRoles, GetForUpdate(r, by, u, roles)
      PROVE  TypeInv'
  <2> DEFINE target == Target(u, Live)
             given  == IF target = {} THEN {} ELSE roles
             adds   == target = {}
             graph  == {<<m, roles>> : m \in target} \cup ReadMembers(Live \ target)
             fields == [Idle EXCEPT !.pc = "saveOrganisation", !.user = u, !.adds = adds,
                                    !.roles = given, !.graph = graph]
  <2>1. graph \subseteq (1..Len(members)) \X SUBSET Roles
    <3>1. target \subseteq Ids /\ Live \ target \subseteq Ids
      BY <1>0 DEF Target
    <3>2. {<<m, roles>> : m \in target} \subseteq (1..Len(members)) \X SUBSET Roles
      BY <3>1 DEF Ids, Roles
    <3>3. QED BY <3>1, <3>2, ReadTypes
  <2>2. PICK a \in BOOLEAN : a = adds
    <3> HIDE DEF target
    <3>1. adds \in BOOLEAN
      OBVIOUS
    <3> HIDE DEF adds
    <3>2. QED BY <3>1
  <2>3. given \subseteq DtoRoles
    OBVIOUS
  <2>4. Begin(r, fields) /\ UNCHANGED <<tables, keys, history>>
    BY <1>1 DEF GetForUpdate
  <2> HIDE DEF adds, given, graph
  <2>5. fields = [Idle EXCEPT !.pc = "saveOrganisation", !.user = u, !.adds = a,
                              !.roles = given, !.graph = graph]
    BY <2>2
  <2>6. fields \in Fields(Len(members)) /\ fields.pc = "saveOrganisation" /\ fields.user = u
    BY <1>0, <2>1, <2>3, <2>5 DEF Fields, Idle, Steps, Saves
  <2> HIDE DEF fields
  <2>7. Sound(fields)
    BY <2>6 DEF Sound
  <2>8. QED BY <2>4, <2>6, <2>7, BeginStep
<1>2. ASSUME NEW r \in Requests, NEW by \in Users, NEW m \in Ids, GetForRemove(r, by, m)
      PROVE  TypeInv'
  <2> DEFINE fields == [Idle EXCEPT !.pc = "removeMember", !.member = m]
  <2>0. m \in 0..Len(members)
    BY DEF Ids
  <2>1. /\ fields \in Fields(Len(members))
        /\ fields.pc = "removeMember" /\ fields.member = m
    BY <1>0, <2>0 DEF Fields, Idle, Steps
  <2>2. Begin(r, fields) /\ UNCHANGED <<tables, keys, history>>
    BY <1>2 DEF GetForRemove
  <2> HIDE DEF fields
  <2>3. Sound(fields)
    BY <2>1 DEF Sound, Theirs, Saves
  <2>4. QED BY <2>1, <2>2, <2>3, BeginStep
<1>3. ASSUME NEW r \in Requests, NEW u \in Users, NEW claims \in SUBSET Claims,
             GetUser(r, u, claims)
      PROVE  TypeInv'
  <2> DEFINE fields == [Idle EXCEPT !.pc = "removeUser", !.user = u,
                                    !.admin = "modify:all" \in claims]
  <2>1. PICK b \in BOOLEAN : b = ("modify:all" \in claims)
    <3>1. ("modify:all" \in claims) \in BOOLEAN
      OBVIOUS
    <3>2. QED BY <3>1
  <2>2. fields = [Idle EXCEPT !.pc = "removeUser", !.user = u, !.admin = b]
    BY <2>1
  <2>3. Begin(r, fields) /\ UNCHANGED <<tables, keys, history>>
    BY <1>3 DEF GetUser
  <2> HIDE DEF fields
  <2>4. fields \in Fields(Len(members)) /\ fields.pc = "removeUser"
    BY <1>0, <2>2 DEF Fields, Idle, Steps
  <2>5. Sound(fields)
    BY <2>4 DEF Sound, Theirs, Saves
  <2>6. QED BY <2>3, <2>4, <2>5, BeginStep
<1>4. ASSUME NEW r \in Requests, NEW by \in Users,
             NEW pc \in {"updateOrg", "removeOrg"}, GetOrganisation(r, by, pc)
      PROVE  TypeInv'
  <2> DEFINE fields == [Idle EXCEPT !.pc = pc]
  <2>1. fields \in Fields(Len(members)) /\ fields.pc = pc
    BY <1>0 DEF Fields, Idle, Steps
  <2>2. Begin(r, fields) /\ UNCHANGED <<tables, keys, history>>
    BY <1>4 DEF GetOrganisation
  <2> HIDE DEF fields
  <2>3. Sound(fields)
    BY <2>1 DEF Sound, Theirs, Saves
  <2>4. QED BY <2>1, <2>2, <2>3, BeginStep
<1>5. ASSUME NEW r \in Requests, NEW k \in Keys,
             NEW pc \in {"saveKey", "removeKey"}, GetKey(r, k, pc)
      PROVE  TypeInv'
  <2> DEFINE fields == [Idle EXCEPT !.pc = pc, !.key = k, !.value = keys[k]]
  <2>1. keys[k] \in 0..MaxRequests
    BY MembershipBounds DEF TypeInv, KeyInv
  <2>2. fields \in Fields(Len(members)) /\ fields.pc = pc /\ fields.key = k
    BY <1>0, <2>1 DEF Fields, Idle, Steps
  <2>3. Begin(r, fields) /\ UNCHANGED <<tables, keys, history>> /\ keys[k] # 0
    BY <1>5 DEF GetKey
  <2> HIDE DEF fields
  <2>4. Sound(fields)
    BY <2>2, <2>3 DEF Sound, Theirs, Saves
  <2>5. QED BY <2>2, <2>3, <2>4, BeginStep
<1>6. ASSUME NEW r \in Requests, NEW k \in Keys, CreateKey(r, k)
      PROVE  TypeInv'
  <2>1. made' = made + 1 /\ made' \in 0..MaxRequests /\ made \in Nat
    BY <1>6, MembershipBounds DEF CreateKey, TypeInv
  <2>2. KeyInv'
    <3>1. /\ keys' = [keys EXCEPT ![k] = made'] /\ UNCHANGED <<retired, gone, req>>
      BY <1>6, <2>1 DEF CreateKey
    <3>2. 0..made \subseteq 0..made' /\ 1..made \subseteq 1..made'
      BY <2>1
    <3>3. /\ keys' \in [Keys -> 0..made'] /\ gone' \in [Keys -> 0..made']
          /\ retired' \subseteq 1..made'
      BY <2>1, <3>1, <3>2 DEF TypeInv, KeyInv
    <3>4. /\ keys'[k] = made' /\ \A l \in Keys \ {k} : keys'[l] = keys[l]
          /\ \A l \in Keys : keys[l] \in 0..made
      BY <3>1 DEF TypeInv, KeyInv
    <3>5. made' \notin retired
      BY <2>1 DEF TypeInv, KeyInv
    <3>6. \A q \in Requests : req[q].pc = "saveKey" => req[q].key \in Keys
      BY DEF TypeInv
    <3>7. \A l \in Keys : keys'[l] = 0 => keys[l] = 0
      BY <2>1, <3>4
    <3>8. \A q \in Requests : req'[q].pc = "saveKey" /\ keys'[req'[q].key] = 0
             => req'[q].no <= gone'[req'[q].key]
      BY <3>1, <3>6, <3>7 DEF TypeInv, KeyInv
    <3>9. \A l, j \in Keys : keys'[l] = keys'[j] /\ keys'[l] # 0 => l = j
      BY <2>1, <3>4 DEF TypeInv, KeyInv
    <3>10. \A l \in Keys : keys'[l] \notin retired'
      BY <3>1, <3>4, <3>5 DEF TypeInv, KeyInv
    <3>11. QED BY <3>3, <3>8, <3>9, <3>10 DEF KeyInv
  <2>3. UNCHANGED <<tables, granted, req>>
    BY <1>6 DEF CreateKey
  <2>4. \A q \in Requests : req[q].no <= made'
    BY <2>1, MembershipBounds DEF TypeInv, Fields
  <2>5. Ids' = Ids
    BY <2>3 DEF Ids
  <2>6. QED BY <2>1, <2>2, <2>3, <2>4, <2>5 DEF TypeInv
<1>7. ASSUME NEW r \in Requests, RemoveMembership(r)
      PROVE  TypeInv'
  <2>1. req[r].member \in Ids
    BY <1>7 DEF RemoveMembership, Write, TypeInv
  <2>2. /\ members' \in Seq(RowSet) /\ Len(members') = Len(members)
        /\ \A m \in Ids : members'[m].saw = members[m].saw
    <3>1. members \in [1..Len(members) -> RowSet]
      BY LenProperties DEF TypeInv
    <3>2. members' = [members EXCEPT ![req[r].member].live = FALSE,
                                     ![req[r].member].removed = made]
      BY <1>7 DEF RemoveMembership
    <3>3. made \in 0..MaxRequests
      BY DEF TypeInv
    <3>4. /\ members' \in [1..Len(members) -> RowSet]
          /\ \A m \in Ids : members'[m].saw = members[m].saw
      BY <2>1, <3>1, <3>2, <3>3 DEF Ids, RowSet
    <3>5. members' \in Seq(RowSet)
      BY <3>4, SeqDef
    <3>6. QED BY <3>4, <3>5, LenProperties
  <2>3. /\ req' = [req EXCEPT ![r] = Idle]
        /\ UNCHANGED <<users, open, keys, history, made>>
    BY <1>7 DEF RemoveMembership, Write
  <2>4. made' \in made..MaxRequests
    BY <2>3, MembershipBounds DEF TypeInv
  <2>5. KeyInv'
    BY <2>3, KeysSame DEF TypeInv, Idle
  <2>6. users' \subseteq Users /\ open' \in BOOLEAN
    BY <2>3 DEF TypeInv
  <2>7. QED BY <2>2, <2>3, <2>4, <2>5, <2>6, EndStep
<1>8. ASSUME NEW r \in Requests,
             \/ RemoveUser(r) \/ UpdateOrganisation(r)
             \/ RemoveOrganisation(r) \/ RequestFails(r)
      PROVE  TypeInv'
  <2>1. /\ req' = [req EXCEPT ![r] = Idle]
        /\ users' \subseteq Users /\ open' \in BOOLEAN
        /\ UNCHANGED <<members, keys, history, made>>
    BY <1>8 DEF RemoveUser, UpdateOrganisation, RemoveOrganisation, RequestFails,
                Write, TypeInv
  <2>2. KeyInv'
    BY <2>1, KeysSame DEF TypeInv, Idle
  <2>3. made' \in made..MaxRequests
    BY <2>1, MembershipBounds DEF TypeInv
  <2>4. members' \in Seq(RowSet)
    BY <2>1 DEF TypeInv
  <2>5. QED BY <2>1, <2>2, <2>3, <2>4, EndStep
<1>9. ASSUME NEW r \in Requests, SaveKey(r) \/ RemoveKey(r)
      PROVE  TypeInv'
  <2>1. req[r].key \in Keys
    BY <1>9 DEF SaveKey, RemoveKey, Write, TypeInv
  <2>2. /\ req' = [req EXCEPT ![r] = Idle]
        /\ UNCHANGED <<tables, granted>>
        /\ made' \in made..MaxRequests /\ made \in Nat /\ made' \in Nat /\ made <= made'
    BY <1>9, MembershipBounds DEF SaveKey, RemoveKey, Write, TypeInv
  <2>3. KeyInv'
    <3> DEFINE k == req[r].key
    <3>1. k \in Keys /\ KeyInv
      BY <2>1 DEF TypeInv
    <3>2. \A q \in Requests : req'[q].pc = "saveKey" => req'[q] = req[q] /\ req[q].key \in Keys
      BY <2>2 DEF TypeInv, Idle
    <3>3. \A q \in Requests : req[q].no \in Nat /\ req[q].no <= made
      BY MembershipBounds DEF TypeInv, Fields
    <3>4. 0..made \subseteq 0..made' /\ 1..made \subseteq 1..made'
      BY <2>2
    <3>5. /\ keys[k] \in 0..made /\ retired \subseteq 1..made
          /\ \A l \in Keys : keys[l] \in 0..made /\ gone[l] \in 0..made
      BY <3>1 DEF KeyInv
    <3>6. CASE UNCHANGED <<keys, retired, gone>>
      <4>1. /\ keys' \in [Keys -> 0..made'] /\ gone' \in [Keys -> 0..made']
            /\ retired' \subseteq 1..made'
        BY <3>1, <3>4, <3>6 DEF KeyInv
      <4>2. QED BY <3>1, <3>2, <3>6, <4>1 DEF KeyInv
    <3>7. ASSUME NEW v \in 0..made', v = 0 \/ v = made + 1,
                 keys' = [keys EXCEPT ![k] = v],
                 retired' = retired \cup ({keys[k]} \ {0}),
                 v = 0 => gone' = [gone EXCEPT ![k] = made],
                 v # 0 => gone' = gone
          PROVE  KeyInv'
      <4> HIDE DEF k
      <4>1. keys'[k] = v /\ \A l \in Keys \ {k} : keys'[l] = keys[l]
        BY <3>1, <3>7 DEF KeyInv
      <4>2. keys \in [Keys -> 0..made'] /\ gone \in [Keys -> 0..made']
        BY <3>1, <3>4 DEF KeyInv
      <4>3. keys' \in [Keys -> 0..made'] /\ gone' \in [Keys -> 0..made']
        <5>1. made \in 0..made' /\ 0 \in 0..made'
          BY <2>2
        <5>2. QED BY <3>7, <4>2, <5>1
      <4>4. retired' \subseteq 1..made'
        <5>1. {keys[k]} \ {0} \subseteq 1..made'
          BY <2>2, <3>5
        <5>2. QED BY <3>4, <3>5, <3>7, <5>1
      <4>5. \A l, j \in Keys : keys'[l] = keys'[j] /\ keys'[l] # 0 => l = j
        BY <2>2, <3>1, <3>5, <3>7, <4>1 DEF KeyInv
      <4>6. \A l \in Keys : keys'[l] \notin retired'
        <5>1. v \notin retired' \/ v = 0
          BY <2>2, <3>5, <3>7
        <5>2. 0 \notin retired'
          BY <2>2, <4>4
        <5>3. \A l \in Keys \ {k} : keys[l] \notin retired'
          BY <3>1, <3>7, <5>2 DEF KeyInv
        <5>4. QED BY <4>1, <5>1, <5>2, <5>3
      <4>7. ASSUME NEW q \in Requests, req'[q].pc = "saveKey", keys'[req'[q].key] = 0
            PROVE  req'[q].no <= gone'[req'[q].key]
        <5>1. req'[q] = req[q] /\ req[q].key \in Keys /\ req[q].pc = "saveKey"
          BY <3>2, <4>7
        <5>2. CASE req[q].key = k
          <6>1. v = 0 /\ gone'[k] = made
            BY <3>1, <3>7, <4>1, <4>7, <5>1, <5>2 DEF KeyInv
          <6>2. QED BY <3>3, <5>1, <5>2, <6>1
        <5>3. CASE req[q].key # k
          <6>1. keys[req[q].key] = 0 /\ gone'[req[q].key] = gone[req[q].key]
            BY <3>1, <3>7, <4>1, <4>7, <5>1, <5>3 DEF KeyInv
          <6>2. QED BY <3>1, <5>1, <6>1 DEF KeyInv
        <5>4. QED BY <5>2, <5>3
      <4>8. QED BY <4>3, <4>4, <4>5, <4>6, <4>7 DEF KeyInv
    <3>8. CASE RemoveKey(r)
      <4>1. /\ keys' = [keys EXCEPT ![k] = 0] /\ gone' = [gone EXCEPT ![k] = made]
            /\ retired' = retired \cup ({keys[k]} \ {0}) /\ 0 \in 0..made'
        BY <2>2, <3>8 DEF RemoveKey
      <4> HIDE DEF k
      <4>2. QED BY <3>7, <4>1
    <3>9. CASE SaveKey(r)
      BY <2>2, <3>6, <3>7, <3>9 DEF SaveKey
    <3>10. QED BY <1>9, <3>8, <3>9
  <2>4. /\ users' \subseteq Users /\ open' \in BOOLEAN /\ members' \in Seq(RowSet)
        /\ UNCHANGED members
    BY <2>2 DEF TypeInv
  <2>5. QED BY <2>2, <2>3, <2>4, EndStep
<1>10. ASSUME NEW r \in Requests, NEW u \in Users, Login(r, u)
       PROVE  TypeInv'
  <2> DEFINE fields == [Idle EXCEPT !.pc = "match", !.user = u]
  <2>1. fields \in Fields(Len(members)) /\ fields.pc = "match" /\ fields.user = u
    BY <1>0 DEF Fields, Idle, Steps
  <2>2. Begin(r, fields) /\ UNCHANGED <<tables, keys, history>>
    BY <1>10 DEF Login
  <2> HIDE DEF fields
  <2>3. Sound(fields)
    BY <2>1 DEF Sound
  <2>4. QED BY <2>1, <2>2, <2>3, BeginStep
<1>11. ASSUME NEW r \in Requests, NEW m \in Ids, FindInvitation(r, m)
       PROVE  TypeInv'
  <2> DEFINE graph  == {<<m, (members[m].roles \ {"invited"}) \cup {"member"}>>}
             fields == [Idle EXCEPT !.pc = "saveInvitation",
                                    !.user = members[m].user, !.graph = graph]
  <2>1. graph \subseteq (1..Len(members)) \X SUBSET Roles /\ members[m].user \in Users
    BY DEF RowSet, Ids, Roles, DtoRoles
  <2>2. Begin(r, fields) /\ UNCHANGED <<tables, keys, history>>
    BY <1>11 DEF FindInvitation
  <2> HIDE DEF graph
  <2>3. /\ fields \in Fields(Len(members))
        /\ fields.pc = "saveInvitation" /\ fields.user = members[m].user
    BY <1>0, <2>1 DEF Fields, Idle, Steps, Saves
  <2> HIDE DEF fields
  <2>4. Sound(fields)
    BY <2>1, <2>3 DEF Sound
  <2>5. QED BY <2>2, <2>3, <2>4, BeginStep
<1>12. ASSUME NEW r \in Requests, MatchUser(r)
       PROVE  TypeInv'
  <2> DEFINE u == req[r].user
  <2>1. req[r] \in Fields(Len(members)) /\ u \in Users /\ req[r].pc = "match"
    BY <1>12 DEF MatchUser, TypeInv, Theirs
  <2>2. UNCHANGED <<tables, keys, history, made>>
    BY <1>12 DEF MatchUser
  <2>3. CASE req' = [req EXCEPT ![r] = Idle]
    BY <1>0, <2>2, <2>3, GoOnStep DEF Idle, Theirs, Saves
  <2>4. CASE req' = [req EXCEPT ![r].pc = "saveUser",
                                ![r].graph = ReadMembers(MembershipsOf(u))]
    <3> DEFINE graph == ReadMembers(MembershipsOf(u))
               f     == [req[r] EXCEPT !.pc = "saveUser", !.graph = graph]
    <3>1. graph \subseteq (1..Len(members)) \X SUBSET Roles
      BY <1>0, ReadTypes DEF MembershipsOf
    <3>2. req' = [req EXCEPT ![r] = f]
      BY <2>4 DEF TypeInv
    <3> HIDE DEF graph
    <3>3. f \in Fields(Len(members)) /\ f.no = req[r].no /\ f.pc = "saveUser" /\ f.user = u
      BY <2>1, <3>1 DEF Fields, Steps, Saves
    <3> HIDE DEF f
    <3>4. QED BY <2>1, <2>2, <3>2, <3>3, GoOnStep DEF Theirs, Saves
  <2>5. QED BY <1>12, <2>3, <2>4 DEF MatchUser
<1>13. ASSUME NEW r \in Requests, Reload(r)
       PROVE  TypeInv'
  <2> DEFINE changes == Differences(r)
             back    == {members[m].user : m \in Known(r)} \ users
             opens   == ~open
             saw     == IF req[r].adds THEN Live ELSE {}
             f == [req[r] EXCEPT !.pc = "write", !.graph = {}, !.changes = changes,
                                 !.back = back, !.opens = opens, !.saw = saw]
  <2>1. req[r] \in Fields(Len(members)) /\ req[r].user \in Users
    BY <1>13 DEF Reload, TypeInv, Theirs
  <2>2. changes \subseteq ChangeSet(1..Len(members))
    BY ChangeTypes
  <2>3. back \subseteq Users
    BY KnownIds DEF RowSet
  <2>4. saw \subseteq 1..Len(members)
    BY <1>0 DEF Ids
  <2>5. req' = [req EXCEPT ![r] = f] /\ UNCHANGED <<tables, keys, history, made>>
    BY <1>13 DEF Reload, TypeInv
  <2>6. PICK o \in BOOLEAN : o = opens
    OBVIOUS
  <2> HIDE DEF changes, back, opens, saw
  <2>7. f = [req[r] EXCEPT !.pc = "write", !.graph = {}, !.changes = changes,
                           !.back = back, !.opens = o, !.saw = saw]
    BY <2>6
  <2> HIDE DEF f
  <2>8. f \in Fields(Len(members)) /\ f.no = req[r].no /\ f.pc = "write"
        /\ f.user = req[r].user
    BY <2>1, <2>2, <2>3, <2>4, <2>7 DEF Fields, Steps
  <2>9. QED BY <2>1, <2>5, <2>8, GoOnStep DEF Theirs
<1>14. CASE UNCHANGED vars
  BY <1>14 DEF vars, TypeInv, KeyInv, Ids
<1>15. QED
  BY <1>1, <1>2, <1>3, <1>4, <1>5, <1>6, <1>7, <1>8, <1>9, <1>10, <1>11, <1>12, <1>13,
     <1>14, WriteGraphTypes
  DEF Next, MembershipRequest, UserRequest, OrganisationRequest, KeyRequest, LoginRequest

(* Rows that are new are well typed.                                        *)
LEMMA NewRow ==
    ASSUME NEW u \in Users, NEW roles \in SUBSET Roles
    PROVE  Row(u, roles, {}) \in RowSet
BY MembershipBounds DEF Row, RowSet

(* The organisation at first: its founder's membership, and perhaps another's. *)
LEMMA InitRows ==
    ASSUME Init
    PROVE  /\ members \in Seq(RowSet) /\ (Len(members) = 1 \/ Len(members) = 2)
           /\ \A m \in Ids : members[m].saw = {}
           /\ \A m \in Ids : members[m].roles \subseteq granted[members[m].user]
           /\ granted \in [Users -> SUBSET Roles]
           /\ \A u \in Users : "invited" \in granted[u] => "member" \in granted[u]
<1> DEFINE first == Row(Founder, {"owner"}, {})
           second(u) == Row(u, {"invited"}, {})
           given(u) == IF u = Founder THEN {"owner"}
                       ELSE IF \E m \in Ids : members[m].user = u
                       THEN {"invited", "member"} ELSE {}
<1>1. PICK invited \in SUBSET (Users \ {Founder}) :
         members \in {<<first>>} \cup {<<first, second(u)>> : u \in invited}
  BY DEF Init
<1>2. granted = [u \in Users |-> given(u)]
  BY DEF Init
<1>3. first \in RowSet /\ \A u \in Users : second(u) \in RowSet
  BY NewRow, MembershipBounds DEF Roles, DtoRoles
<1>4. \A u \in Users : given(u) \in {{"owner"}, {"invited", "member"}, {}}
  OBVIOUS
<1>5. \A u \in Users : u # Founder /\ (\E m \in Ids : members[m].user = u)
         => given(u) = {"invited", "member"}
  OBVIOUS
<1>6. given(Founder) = {"owner"}
  OBVIOUS
<1> HIDE DEF given
<1>7. /\ granted \in [Users -> SUBSET Roles]
      /\ \A u \in Users : "invited" \in granted[u] => "member" \in granted[u]
      /\ \A u \in Users : granted[u] = given(u)
  BY <1>2, <1>4 DEF Roles, DtoRoles
<1>8. /\ first.user = Founder /\ first.roles = {"owner"} /\ first.saw = {}
      /\ \A u \in Users : /\ second(u).user = u /\ second(u).roles = {"invited"}
                          /\ second(u).saw = {}
  BY DEF Row
<1> HIDE DEF first, second
<1>9. CASE members = <<first>>
  <2>1. members \in Seq(RowSet) /\ Len(members) = 1 /\ members[1] = first
    BY <1>3, <1>9
  <2>2. Ids = {1}
    BY <2>1 DEF Ids
  <2>3. QED BY <1>6, <1>7, <1>8, <2>1, <2>2, MembershipBounds
<1>10. ASSUME NEW u \in invited, members = <<first, second(u)>>
       PROVE  /\ members \in Seq(RowSet) /\ (Len(members) = 1 \/ Len(members) = 2)
              /\ \A m \in Ids : members[m].saw = {}
              /\ \A m \in Ids : members[m].roles \subseteq granted[members[m].user]
  <2>1. /\ members \in Seq(RowSet) /\ Len(members) = 2
        /\ members[1] = first /\ members[2] = second(u)
    BY <1>3, <1>10
  <2>2. Ids = {1, 2} /\ u \in Users /\ u # Founder
    BY <2>1 DEF Ids
  <2>3. granted[u] = {"invited", "member"}
    BY <1>5, <1>7, <1>8, <2>1, <2>2
  <2>4. QED BY <1>6, <1>7, <1>8, <2>1, <2>2, <2>3, MembershipBounds
<1>11. QED BY <1>1, <1>7, <1>9, <1>10

(* The types, with the facts about keys they rest on.                       *)
LEMMA TypeInvariant == Spec => []TypeInv
<1>1. Init => TypeInv
  <2> SUFFICES ASSUME Init
               PROVE  TypeInv
      OBVIOUS
  <2>1. Len(members) <= MaxMemberships /\ Idle \in Fields(Len(members))
    <3>1. Len(members) = 1 \/ Len(members) = 2
      BY InitRows
    <3>2. Len(members) \in Nat /\ Len(members) <= MaxMemberships
      <4>1. MaxMemberships \in Nat /\ 1 <= MaxMemberships /\ 2 <= MaxMemberships
        BY MembershipBounds
      <4>2. QED BY <3>1, <4>1
    <3>3. QED BY <3>2, IdleIsField
  <2>2. /\ users \subseteq Users /\ open \in BOOLEAN /\ made \in 0..MaxRequests
        /\ req \in [Requests -> Fields(Len(members))]
    BY <2>1, MembershipBounds DEF Init
  <2>3. KeyInv
    BY DEF Init, KeyInv, Idle
  <2>4. \A r \in Requests :
           /\ req[r].no <= made
           /\ req[r].pc \notin Theirs \cup {"removeMember", "saveKey", "removeKey"}
    BY DEF Init, Idle, Theirs, Saves
  <2>5. QED
    BY <2>1, <2>2, <2>3, <2>4, InitRows DEF TypeInv
<1>2. QED BY <1>1, TypeStep, PTL DEF Spec

(* Types, for any number of users, requests, memberships and keys.           *)
THEOREM TypeCorrect == Spec => []TypeOK
<1>1. TypeInv => TypeOK
  <2> SUFFICES ASSUME TypeInv
               PROVE  TypeOK
      OBVIOUS
  <2>1. /\ keys \in [Keys -> 0..MaxRequests] /\ retired \subseteq 1..MaxRequests
        /\ gone \in [Keys -> 0..MaxRequests]
    <3>1. made \in Nat /\ 0..made \subseteq 0..MaxRequests
          /\ 1..made \subseteq 1..MaxRequests
      BY MembershipBounds DEF TypeInv
    <3>2. QED BY <3>1 DEF TypeInv, KeyInv
  <2>2. \A m \in Ids : members[m] \in
           [user : Users, roles : SUBSET Roles, live : BOOLEAN, saw : SUBSET Ids,
            removed : 0..MaxRequests]
    BY MemberFacts DEF TypeInv, RowSet
  <2>3. \A r \in Requests : req[r] \in
           [pc : Steps \cup {"idle"}, no : 0..MaxRequests, user : Users \cup {None},
            member : 0..Len(members), key : Keys \cup {None},
            value : 0..MaxRequests, roles : SUBSET Roles,
            graph : SUBSET (Ids \X SUBSET Roles), adds : BOOLEAN,
            changes : SUBSET ChangeSet(Ids), back : SUBSET Users, opens : BOOLEAN,
            saw : SUBSET Ids, admin : BOOLEAN, promoted : BOOLEAN]
    BY DEF TypeInv, Fields, Ids, Roles
  <2>4. QED BY <2>1, <2>2, <2>3 DEF TypeInv, TypeOK, KeyInv
<1>2. QED BY <1>1, TypeInvariant, PTL

(* A key that was removed comes back, under a value nobody has had, only by a  *)
(* refresh that arrived before it was removed.                                *)
THEOREM KeysCorrect == Spec => KeysStayGone
<1> DEFINE Kept == \A k \in Keys : keys'[k] \notin {0, keys[k]} =>
                      /\ keys'[k] \notin retired
                      /\ gone[k] # 0 /\ keys[k] = 0 =>
                            \E r \in Requests : /\ req[r].pc = "saveKey" /\ req[r].key = k
                                                /\ req[r].no <= gone[k]
<1>1. TypeInv /\ [Next]_vars => Kept
  <2> SUFFICES ASSUME TypeInv, [Next]_vars,
                      NEW k \in Keys, keys'[k] \notin {0, keys[k]}
               PROVE  /\ keys'[k] \notin retired
                      /\ gone[k] # 0 /\ keys[k] = 0 =>
                            \E r \in Requests : /\ req[r].pc = "saveKey" /\ req[r].key = k
                                                /\ req[r].no <= gone[k]
      OBVIOUS
  <2>1. made \in Nat /\ made + 1 \notin retired /\ keys \in [Keys -> 0..made]
    BY DEF TypeInv, KeyInv
  <2>2. ASSUME NEW r \in Requests, SaveKey(r)
        PROVE  /\ keys'[k] \notin retired
               /\ keys[k] = 0 => /\ req[r].pc = "saveKey" /\ req[r].key = k
                                 /\ req[r].no <= gone[k]
    <3>1. req[r].pc = "saveKey" /\ req[r].key \in Keys
      BY <2>2 DEF SaveKey, Write, TypeInv
    <3>2. keys' = [keys EXCEPT ![req[r].key] = made + 1]
      BY <2>2 DEF SaveKey
    <3>3. req[r].key = k /\ keys'[k] = made + 1
      BY <2>1, <3>1, <3>2
    <3>4. QED BY <2>1, <3>1, <3>3 DEF TypeInv, KeyInv
  <2>3. ASSUME NEW r \in Requests, NEW l \in Keys, CreateKey(r, l)
        PROVE  keys'[k] \notin retired /\ gone[k] = 0
    BY <2>1, <2>3 DEF CreateKey
  <2>4. ASSUME NEW r \in Requests, RemoveKey(r)
        PROVE  FALSE
    BY <2>1, <2>4 DEF RemoveKey
  <2>5. CASE UNCHANGED keys
    BY <2>5
  <2>6. QED
    BY <2>2, <2>3, <2>4, <2>5
       DEF Next, vars, MembershipRequest, UserRequest, OrganisationRequest, KeyRequest,
           LoginRequest, GetForUpdate, GetForRemove, GetUser, GetOrganisation, GetKey,
           Login, FindInvitation, MatchUser, Reload, WriteGraph, RemoveMembership,
           RemoveUser, UpdateOrganisation, RemoveOrganisation, RequestFails
<1>2. QED
  BY <1>1, TypeInvariant, PTL DEF Spec, KeysStayGone

-----------------------------------------------------------------------------
(* What has been read, and what has become of it since.                      *)

Reading(r) == req[r].pc \in Saves
Writing(r) == req[r].pc = "write"

(* The roles a request gives, if the membership is its user's.               *)
Given(r, m) == IF members[m].user = req[r].user THEN req[r].roles ELSE {}

(* Nobody has, or is about to get back, a role that nobody gave him.          *)
RolesInv ==
    /\ \A u \in Users : "invited" \in granted[u] => "member" \in granted[u]
    /\ \A m \in Ids : members[m].roles \subseteq granted[members[m].user]
    /\ \A r \in Requests : Reading(r) => \A k \in req[r].graph :
          k[2] \subseteq granted[members[k[1]].user] \cup Given(r, k[1])
    /\ \A r \in Requests : Writing(r) => \A c \in req[r].changes :
          c.add \subseteq granted[members[c.m].user] \cup Given(r, c.m)

(* Who adds a membership has seen, and knows, no other of the user's.         *)
SawInv ==
    /\ \A n \in Ids : \A m \in members[n].saw : members[m].user # members[n].user
    /\ \A r \in Requests : Reading(r) /\ req[r].adds =>
          /\ req[r].pc = "saveOrganisation"
          /\ \A m \in Known(r) : members[m].user # req[r].user
    /\ \A r \in Requests : req[r].pc = "match" => ~req[r].adds
    /\ \A r \in Requests : Writing(r) /\ req[r].adds =>
          \A m \in req[r].saw : members[m].user # req[r].user

(* What a request knows, or brings back, was removed after it arrived, if it   *)
(* was removed.                                                               *)
RemovedInv ==
    \A r \in Requests :
        /\ Reading(r) => \A m \in Known(r) :
              ~members[m].live => req[r].no <= members[m].removed
        /\ Writing(r) => \A c \in req[r].changes :
              c.revive => req[r].no <= members[c.m].removed

(* Who is being removed owns nothing, has become an owner since he was read,  *)
(* or is removed by a super user.                                             *)
RemovalInv ==
    \A r \in Requests : req[r].pc = "removeUser" =>
        req[r].admin \/ req[r].promoted \/ req[r].user \notin Owners

(* Steps that touch no membership: a request begins, ends or stays.           *)
QuietStep ==
    /\ UNCHANGED <<members, granted>>
    /\ \A r \in Requests :
          \/ req'[r] = req[r]
          \/ /\ req'[r].pc \notin Saves \cup {"write", "removeUser"}
             /\ ~req'[r].adds

(* A request has read live memberships, whose roles it may change.            *)
ReadStep(r) ==
    /\ UNCHANGED <<members, granted>>
    /\ \A q \in Requests \ {r} : req'[q] = req[q]
    /\ req'[r].pc \in Saves
    /\ \A k \in req'[r].graph :
          /\ k[1] \in Live
          /\ \/ k[2] \subseteq members[k[1]].roles
             \/ /\ "invited" \in members[k[1]].roles
                /\ k[2] \subseteq members[k[1]].roles \cup {"member"}
             \/ /\ members[k[1]].user = req'[r].user
                /\ k[2] \subseteq req'[r].roles
    /\ req'[r].adds =>
          /\ req'[r].pc = "saveOrganisation"
          /\ \A k \in req'[r].graph : members[k[1]].user # req'[r].user

(* createOrUpdate reads the organisation's memberships.                       *)
LEMMA UpdateReads ==
    ASSUME TypeInv, NEW r \in Requests, NEW by, NEW u, NEW roles,
           GetForUpdate(r, by, u, roles)
    PROVE  ReadStep(r)
<1> DEFINE target == Target(u, Live)
           graph  == {<<m, roles>> : m \in target} \cup ReadMembers(Live \ target)
           given  == IF target = {} THEN {} ELSE roles
           f == [Idle EXCEPT !.pc = "saveOrganisation", !.user = u, !.adds = target = {},
                             !.roles = given, !.graph = graph]
<1>1. req' = [req EXCEPT ![r] = [f EXCEPT !.no = made + 1]]
  BY DEF GetForUpdate, Begin
<1>2. \A k \in graph : /\ k[1] \in Live
                       /\ \/ k[2] \subseteq members[k[1]].roles
                          \/ members[k[1]].user = u /\ k[2] \subseteq given
                       /\ target = {} => members[k[1]].user # u
  <2>1. ASSUME NEW m \in target
        PROVE  m \in Live /\ members[m].user = u /\ target # {} /\ given = roles
    BY DEF Target
  <2>2. ASSUME NEW m \in Live \ target
        PROVE  m \in Live /\ members[m].user # u
    BY DEF Target
  <2>3. ASSUME NEW k \in graph
        PROVE  \/ \E m \in target : k = <<m, roles>>
               \/ \E m \in Live \ target : k = <<m, members[m].roles>>
    BY DEF ReadMembers
  <2> HIDE DEF target, given, graph
  <2>4. QED BY <2>1, <2>2, <2>3
<1> HIDE DEF graph, given
<1>3. /\ req'[r].pc = "saveOrganisation" /\ req'[r].user = u /\ req'[r].roles = given
      /\ req'[r].graph = graph /\ req'[r].adds = (target = {})
      /\ \A q \in Requests \ {r} : req'[q] = req[q]
  BY <1>1 DEF TypeInv, Idle
<1>4. UNCHANGED <<members, granted>>
  BY DEF GetForUpdate
<1> HIDE DEF target
<1>5. QED BY <1>2, <1>3, <1>4 DEF ReadStep, Saves

(* A login that links a user reads his, or ends.                             *)
LEMMA MatchReads ==
    ASSUME TypeInv, SawInv, NEW r \in Requests, MatchUser(r)
    PROVE  ReadStep(r) \/ QuietStep
<1> DEFINE u == req[r].user  graph == ReadMembers(MembershipsOf(u))
<1>1. UNCHANGED <<members, granted>> /\ \A q \in Requests \ {r} : req'[q] = req[q]
  BY DEF MatchUser, TypeInv
<1>2. \A k \in graph : k[1] \in Live /\ k[2] \subseteq members[k[1]].roles
  BY DEF ReadMembers, MembershipsOf
<1>3. CASE req' = [req EXCEPT ![r] = Idle]
  BY <1>1, <1>3 DEF QuietStep, TypeInv, Idle, Saves
<1>4. CASE req' = [req EXCEPT ![r].pc = "saveUser", ![r].graph = graph]
  <2> HIDE DEF graph
  <2>1. /\ req'[r].pc = "saveUser" /\ req'[r].graph = graph
        /\ req'[r].adds = req[r].adds
    BY <1>4 DEF TypeInv, Fields
  <2>2. ~req[r].adds
    BY DEF MatchUser, SawInv
  <2>3. QED BY <1>1, <1>2, <2>1, <2>2 DEF ReadStep, Saves
<1>5. QED BY <1>3, <1>4 DEF MatchUser

(* An invitation that is accepted reads one.                                 *)
LEMMA InvitationReads ==
    ASSUME TypeInv, NEW r \in Requests, NEW m, FindInvitation(r, m)
    PROVE  ReadStep(r)
<1> DEFINE roles == (members[m].roles \ {"invited"}) \cup {"member"}
           f == [Idle EXCEPT !.pc = "saveInvitation", !.user = members[m].user,
                             !.graph = {<<m, roles>>}]
<1>1. req' = [req EXCEPT ![r] = [f EXCEPT !.no = made + 1]]
  BY DEF FindInvitation, Begin
<1>2. m \in Live /\ "invited" \in members[m].roles /\ UNCHANGED <<members, granted>>
  BY DEF FindInvitation
<1>3. roles \subseteq members[m].roles \cup {"member"}
  OBVIOUS
<1> HIDE DEF roles
<1>4. /\ req'[r].pc = "saveInvitation" /\ req'[r].graph = {<<m, roles>>}
      /\ req'[r].adds = FALSE
      /\ \A q \in Requests \ {r} : req'[q] = req[q]
  BY <1>1 DEF TypeInv, Idle
<1>5. QED BY <1>2, <1>3, <1>4 DEF ReadStep, Saves

(* The steps of Next by what they do to memberships.                          *)
LEMMA StepKinds ==
    ASSUME TypeInv, SawInv, [Next]_vars
    PROVE  \/ QuietStep
           \/ \E r \in Requests :
                 ReadStep(r) \/ Reload(r) \/ WriteGraph(r) \/ RemoveMembership(r)
           \/ \E r \in Requests, u \in Users, claims \in SUBSET Claims :
                 GetUser(r, u, claims)
<1>1. ASSUME NEW r \in Requests, NEW by \in Users, NEW m \in Ids, GetForRemove(r, by, m)
      PROVE  QuietStep
  BY <1>1 DEF GetForRemove, Begin, Idle, TypeInv, QuietStep, Saves
<1>2. ASSUME NEW r \in Requests, OrganisationRequest(r)
      PROVE  QuietStep
  BY <1>2 DEF OrganisationRequest, GetOrganisation, Begin, Idle, TypeInv, QuietStep, Saves
<1>3. ASSUME NEW r \in Requests, KeyRequest(r)
      PROVE  QuietStep
  <2>1. ASSUME NEW k \in Keys, CreateKey(r, k)
        PROVE  QuietStep
    BY <2>1 DEF CreateKey, QuietStep
  <2>2. ASSUME NEW k \in Keys, NEW pc \in {"saveKey", "removeKey"}, GetKey(r, k, pc)
        PROVE  QuietStep
    BY <2>2 DEF GetKey, Begin, Idle, TypeInv, QuietStep, Saves
  <2>3. QED BY <1>3, <2>1, <2>2 DEF KeyRequest
<1>4. ASSUME NEW r \in Requests,
             \/ RemoveUser(r) \/ UpdateOrganisation(r) \/ RemoveOrganisation(r)
             \/ SaveKey(r) \/ RemoveKey(r) \/ RequestFails(r)
      PROVE  QuietStep
  <2>1. req' = [req EXCEPT ![r] = Idle] /\ UNCHANGED <<members, granted>>
    BY <1>4 DEF RemoveUser, UpdateOrganisation, RemoveOrganisation, SaveKey, RemoveKey,
                RequestFails, Write
  <2>2. QED BY <2>1 DEF Idle, TypeInv, QuietStep, Saves
<1>5. ASSUME NEW r \in Requests, NEW u \in Users, Login(r, u)
      PROVE  QuietStep
  BY <1>5 DEF Login, Begin, Idle, TypeInv, QuietStep, Saves
<1>6. CASE UNCHANGED vars
  BY <1>6 DEF vars, QuietStep
<1>7. QED
  BY <1>1, <1>2, <1>3, <1>4, <1>5, <1>6, UpdateReads, MatchReads, InvitationReads
  DEF Next, MembershipRequest, UserRequest, LoginRequest

(* TypeORM's second read leaves the differences of what was known.            *)
LEMMA Reloaded ==
    ASSUME TypeInv, NEW r \in Requests, Reload(r)
    PROVE  /\ UNCHANGED <<members, granted>>
           /\ \A q \in Requests \ {r} : req'[q] = req[q]
           /\ req'[r].pc = "write" /\ req'[r].no = req[r].no
           /\ req'[r].user = req[r].user /\ req'[r].roles = req[r].roles
           /\ req'[r].adds = req[r].adds
           /\ req'[r].changes = Differences(r)
           /\ req[r].adds => req'[r].saw = Live
<1> DEFINE saw == IF req[r].adds THEN Live ELSE {}
           f == [req[r] EXCEPT
                   !.pc = "write", !.graph = {}, !.changes = Differences(r),
                   !.back = {members[m].user : m \in Known(r)} \ users,
                   !.opens = ~open, !.saw = saw]
<1>1. req' = [req EXCEPT ![r] = f] /\ UNCHANGED <<members, granted>>
  BY DEF Reload, TypeInv
<1>2. /\ f.pc = "write" /\ f.no = req[r].no /\ f.user = req[r].user
      /\ f.roles = req[r].roles /\ f.adds = req[r].adds
      /\ f.changes = Differences(r) /\ f.saw = saw
  <2>1. req[r] \in Fields(Len(members))
    BY DEF TypeInv
  <2> HIDE DEF saw
  <2>2. QED BY <2>1 DEF Fields
<1>3. req'[r] = f /\ \A q \in Requests \ {r} : req'[q] = req[q]
  <2> HIDE DEF f
  <2>1. QED BY <1>1 DEF TypeInv
<1> HIDE DEF f
<1>4. QED BY <1>1, <1>2, <1>3

(* A difference is one of a membership that was read.                         *)
LEMMA DifferenceFacts ==
    ASSUME NEW r \in Requests, NEW c \in Differences(r)
    PROVE  \E k \in req[r].graph : /\ c.m = k[1] /\ c.add \subseteq k[2]
                                   /\ c.revive => ~members[k[1]].live
<1>1. PICK k \in req[r].graph :
         c = [m |-> k[1], revive |-> ~members[k[1]].live,
              add |-> k[2] \ members[k[1]].roles, drop |-> members[k[1]].roles \ k[2]]
  BY DEF Differences
<1>2. QED BY <1>1

(* A removal takes a membership out of the live ones, now.                     *)
LEMMA RemovedRow ==
    ASSUME TypeInv, NEW r \in Requests, RemoveMembership(r)
    PROVE  /\ Ids' = Ids /\ granted' = granted
           /\ \A m \in Ids :
                 /\ members'[m].user = members[m].user
                 /\ members'[m].roles = members[m].roles
                 /\ members'[m].saw = members[m].saw
                 /\ members'[m].live => members[m].live
                 /\ members'[m].removed \in {made, members[m].removed}
                 /\ members[m].live /\ ~members'[m].live => members'[m].removed = made
           /\ req'[r].pc = "idle" /\ ~req'[r].adds
           /\ \A q \in Requests \ {r} : req'[q] = req[q]
<1>1. members' = [members EXCEPT ![req[r].member].live = FALSE,
                                 ![req[r].member].removed = made]
  BY DEF RemoveMembership
<1>2. \A m \in Ids :
         /\ members'[m].user = members[m].user
         /\ members'[m].roles = members[m].roles
         /\ members'[m].saw = members[m].saw
         /\ members'[m].live => members[m].live
         /\ members'[m].removed \in {made, members[m].removed}
         /\ members[m].live /\ ~members'[m].live => members'[m].removed = made
  <2> SUFFICES ASSUME NEW m \in Ids
               PROVE  /\ members'[m].user = members[m].user
                      /\ members'[m].roles = members[m].roles
                      /\ members'[m].saw = members[m].saw
                      /\ members'[m].live => members[m].live
                      /\ members'[m].removed \in {made, members[m].removed}
                      /\ members[m].live /\ ~members'[m].live => members'[m].removed = made
      OBVIOUS
  <2>1. CASE m = req[r].member
    <3>1. members'[m] = [members[m] EXCEPT !.live = FALSE, !.removed = made]
      BY <1>1, <2>1, MemberFacts
    <3>2. QED BY <3>1, MemberFacts DEF RowSet
  <2>2. CASE m # req[r].member
    BY <1>1, <2>2, MemberFacts
  <2>3. QED BY <2>1, <2>2
<1>3. Ids' = Ids
  BY <1>1, MemberFacts DEF TypeInv, Ids
<1>4. QED BY <1>2, <1>3 DEF RemoveMembership, Write, TypeInv, Idle

(* Ids after a write: those there were, and the new membership's.             *)
LEMMA WrittenIds ==
    ASSUME TypeInv, NEW r \in Requests, WriteGraph(r)
    PROVE  /\ Ids \subseteq Ids'
           /\ \A m \in Ids' \ Ids :
                 /\ req[r].adds /\ members'[m].user = req[r].user
                 /\ members'[m].roles = {} /\ members'[m].saw = req[r].saw
<1>1. CASE ~req[r].adds
  BY <1>1, WrittenRows DEF Ids
<1>2. CASE req[r].adds
  <2>1. /\ Len(members') = Len(members) + 1
        /\ members'[Len(members) + 1] = Row(req[r].user, {}, req[r].saw)
    BY <1>2, WrittenRows
  <2>2. /\ Len(members) \in Nat /\ Ids' = 1..Len(members') /\ Ids = 1..Len(members)
    BY MemberFacts DEF Ids
  <2>3. Ids \subseteq Ids' /\ \A m \in Ids' \ Ids : m = Len(members) + 1
    BY <2>1, <2>2
  <2>4. QED BY <1>2, <2>1, <2>3 DEF Row
<1>3. QED BY <1>1, <1>2

(* What others hold after a write, and that the writer holds nothing.          *)
LEMMA WrittenHeld ==
    ASSUME TypeInv, NEW r \in Requests, WriteGraph(r)
    PROVE  /\ req'[r].pc = "idle" /\ ~req'[r].adds
           /\ \A q \in Requests \ {r} :
                 /\ req'[q].pc = req[q].pc /\ req'[q].user = req[q].user
                 /\ req'[q].no = req[q].no /\ req'[q].roles = req[q].roles
                 /\ req'[q].graph = req[q].graph /\ req'[q].adds = req[q].adds
                 /\ req'[q].changes = req[q].changes /\ req'[q].saw = req[q].saw
                 /\ req'[q].admin = req[q].admin
<1>1. req'[r].pc = "idle" /\ ~req'[r].adds
  BY WrittenRequests DEF Idle
<1>2. ASSUME NEW q \in Requests \ {r}
      PROVE  /\ req'[q].pc = req[q].pc /\ req'[q].user = req[q].user
             /\ req'[q].no = req[q].no /\ req'[q].roles = req[q].roles
             /\ req'[q].graph = req[q].graph /\ req'[q].adds = req[q].adds
             /\ req'[q].changes = req[q].changes /\ req'[q].saw = req[q].saw
             /\ req'[q].admin = req[q].admin
  <2>1. PICK p \in BOOLEAN : req'[q] = [req[q] EXCEPT !.promoted = p]
    BY WrittenRequests
  <2>2. req[q] \in Fields(Len(members))
    BY DEF TypeInv
  <2>3. QED BY <2>1, <2>2 DEF Fields
<1>3. QED BY <1>1, <1>2

-----------------------------------------------------------------------------
(* The invariants.                                                           *)

(* No step gives anybody, or lets a request write, a role that was not granted.*)
LEMMA RolesStep == TypeInv /\ SawInv /\ RolesInv /\ [Next]_vars => RolesInv'
<1> SUFFICES ASSUME TypeInv, SawInv, RolesInv, [Next]_vars
             PROVE  RolesInv'
    OBVIOUS
<1>0. /\ granted \in [Users -> SUBSET Roles]
      /\ \A m \in Ids : members[m].user \in Users
      /\ \A q \in Requests : \A k \in req[q].graph : k[1] \in Ids
      /\ \A q \in Requests : \A c \in req[q].changes : c.m \in Ids
      /\ \A q \in Requests : req[q].roles \subseteq DtoRoles
  BY MemberFacts DEF TypeInv, RowSet, Fields, ChangeSet, Ids
<1>1. CASE QuietStep
  BY <1>1 DEF QuietStep, RolesInv, Reading, Writing, Given, Ids
<1>2. ASSUME NEW r \in Requests, ReadStep(r)
      PROVE  RolesInv'
  <2>1. ASSUME NEW k \in req'[r].graph
        PROVE  k[2] \subseteq granted[members[k[1]].user] \cup Given(r, k[1])'
    <3>1. /\ k[1] \in Ids /\ members'[k[1]] = members[k[1]]
          /\ \/ k[2] \subseteq members[k[1]].roles
             \/ /\ "invited" \in members[k[1]].roles
                /\ k[2] \subseteq members[k[1]].roles \cup {"member"}
             \/ k[2] \subseteq Given(r, k[1])'
      BY <1>2 DEF ReadStep, Live, Given
    <3>2. /\ members[k[1]].roles \subseteq granted[members[k[1]].user]
          /\ "invited" \in granted[members[k[1]].user]
                => "member" \in granted[members[k[1]].user]
      BY <1>0, <3>1 DEF RolesInv
    <3>3. QED BY <3>1, <3>2
  <2>2. ~Writing(r)' /\ members' = members /\ granted' = granted /\ Ids' = Ids
    BY <1>2 DEF ReadStep, Writing, Saves, Ids
  <2>3. \A q \in Requests \ {r} : req'[q] = req[q]
    BY <1>2 DEF ReadStep
  <2>4. \A q \in Requests \ {r} : Reading(q)' => \A k \in req'[q].graph :
           k[2] \subseteq granted[members[k[1]].user] \cup Given(q, k[1])'
    BY <2>2, <2>3 DEF RolesInv, Reading, Given
  <2>5. \A q \in Requests \ {r} : Writing(q)' => \A c \in req'[q].changes :
           c.add \subseteq granted[members[c.m].user] \cup Given(q, c.m)'
    BY <2>2, <2>3 DEF RolesInv, Writing, Given
  <2>6. QED BY <2>1, <2>2, <2>4, <2>5 DEF RolesInv
<1>3. ASSUME NEW r \in Requests, Reload(r)
      PROVE  RolesInv'
  <2>1. Reading(r) /\ members' = members /\ granted' = granted /\ Ids' = Ids
    BY <1>3, Reloaded DEF Reload, Reading, Ids
  <2>2. \A m \in Ids : Given(r, m)' = Given(r, m)
    BY <1>3, <2>1, Reloaded DEF Given
  <2>3. ASSUME NEW c \in req'[r].changes
        PROVE  c.add \subseteq granted[members[c.m].user] \cup Given(r, c.m)'
    <3>1. PICK k \in req[r].graph : c.m = k[1] /\ c.add \subseteq k[2]
      BY <1>3, <2>3, Reloaded, DifferenceFacts
    <3>2. QED BY <1>0, <2>1, <2>2, <3>1 DEF RolesInv
  <2>4. ~Reading(r)' /\ \A q \in Requests \ {r} : req'[q] = req[q]
    BY <1>3, Reloaded DEF Reading, Saves
  <2>5. \A q \in Requests \ {r} : Reading(q)' => \A k \in req'[q].graph :
           k[2] \subseteq granted[members[k[1]].user] \cup Given(q, k[1])'
    BY <2>1, <2>4 DEF RolesInv, Reading, Given
  <2>6. \A q \in Requests \ {r} : Writing(q)' => \A c \in req'[q].changes :
           c.add \subseteq granted[members[c.m].user] \cup Given(q, c.m)'
    BY <2>1, <2>4 DEF RolesInv, Writing, Given
  <2>7. QED BY <2>1, <2>3, <2>4, <2>5, <2>6 DEF RolesInv
<1>4. ASSUME NEW r \in Requests, WriteGraph(r)
      PROVE  RolesInv'
  <2>1. /\ Writing(r) /\ req[r].user \in Users
        /\ granted' = [granted EXCEPT ![req[r].user] = @ \cup req[r].roles]
    BY <1>4 DEF WriteGraph, Writing, TypeInv, Theirs
  <2>2. /\ \A v \in Users : granted[v] \subseteq granted'[v]
        /\ req[r].roles \subseteq granted'[req[r].user]
        /\ \A v \in Users : granted'[v] \subseteq granted[v] \cup DtoRoles
        /\ \A v \in Users : "invited" \in granted'[v] => "invited" \in granted[v]
    BY <1>0, <2>1 DEF DtoRoles
  <2>3. \A v \in Users : "invited" \in granted'[v] => "member" \in granted'[v]
    BY <2>2 DEF RolesInv
  <2>4. \A m \in Ids : members'[m].user = members[m].user
    BY <1>4, WrittenRows
  <2>5. ASSUME NEW m \in Ids
        PROVE  members'[m].roles \subseteq granted'[members'[m].user]
    <3> SUFFICES ASSUME NEW x \in members'[m].roles
                 PROVE  x \in granted'[members[m].user]
        BY <2>4
    <3>1. CASE x \in members[m].roles
      BY <1>0, <2>2, <3>1 DEF RolesInv
    <3>2. ASSUME NEW c \in req[r].changes, c.m = m, x \in c.add
          PROVE  x \in granted'[members[m].user]
      <4>1. x \in granted[members[m].user] \cup Given(r, m)
        BY <2>1, <3>2 DEF RolesInv
      <4>2. QED BY <1>0, <2>2, <4>1 DEF Given
    <3>3. QED BY <1>4, <3>1, <3>2, WrittenRows
  <2>6. \A m \in Ids' \ Ids : members'[m].roles = {}
    BY <1>4, WrittenIds
  <2>7. \A q \in Requests \ {r} : \A m \in Ids : Given(q, m)' = Given(q, m)
    BY <1>4, <2>4, WrittenHeld DEF Given
  <2>8. ASSUME NEW q \in Requests, Reading(q)', NEW k \in req'[q].graph
        PROVE  k[2] \subseteq granted'[members'[k[1]].user] \cup Given(q, k[1])'
    <3>1. q # r /\ Reading(q) /\ req'[q].graph = req[q].graph
      BY <1>4, <2>8, WrittenHeld DEF Reading, Saves
    <3>2. k[1] \in Ids /\ k[2] \subseteq granted[members[k[1]].user] \cup Given(q, k[1])
      BY <1>0, <2>8, <3>1 DEF RolesInv
    <3>3. QED BY <1>0, <2>2, <2>4, <2>7, <3>1, <3>2
  <2>9. ASSUME NEW q \in Requests, Writing(q)', NEW c \in req'[q].changes
        PROVE  c.add \subseteq granted'[members'[c.m].user] \cup Given(q, c.m)'
    <3>1. q # r /\ Writing(q) /\ req'[q].changes = req[q].changes
      BY <1>4, <2>9, WrittenHeld DEF Writing
    <3>2. c.m \in Ids /\ c.add \subseteq granted[members[c.m].user] \cup Given(q, c.m)
      BY <1>0, <2>9, <3>1 DEF RolesInv
    <3>3. QED BY <1>0, <2>2, <2>4, <2>7, <3>1, <3>2
  <2>10. QED BY <2>3, <2>5, <2>6, <2>8, <2>9 DEF RolesInv
<1>5. ASSUME NEW r \in Requests, RemoveMembership(r)
      PROVE  RolesInv'
  <2>1. /\ ~Reading(r)' /\ ~Writing(r)'
        /\ \A q \in Requests \ {r} : req'[q] = req[q]
        /\ \A q \in Requests \ {r} : \A m \in Ids : Given(q, m)' = Given(q, m)
    BY <1>5, RemovedRow DEF Reading, Writing, Saves, Given
  <2>2. QED BY <1>0, <1>5, <2>1, RemovedRow DEF RolesInv, Reading, Writing
<1>6. ASSUME NEW r \in Requests, NEW u \in Users, NEW claims \in SUBSET Claims,
             GetUser(r, u, claims)
      PROVE  RolesInv'
  BY <1>6 DEF GetUser, Begin, Idle, TypeInv, RolesInv, Reading, Writing, Saves, Given, Ids
<1>7. QED BY <1>1, <1>2, <1>3, <1>4, <1>5, <1>6, StepKinds

(* No step inserts a membership for a user whose membership was seen.         *)
LEMMA SawStep == TypeInv /\ SawInv /\ [Next]_vars => SawInv'
<1> SUFFICES ASSUME TypeInv, SawInv, [Next]_vars
             PROVE  SawInv'
    OBVIOUS
<1>0. /\ \A q \in Requests : Known(q) \subseteq Ids /\ req[q].saw \subseteq Ids
      /\ \A m \in Ids : members[m].saw \subseteq Ids
  BY KnownIds DEF TypeInv, Fields, Ids
<1>1. CASE QuietStep
  BY <1>1 DEF QuietStep, SawInv, Reading, Writing, Known, Saves, Ids
<1>2. ASSUME NEW r \in Requests, ReadStep(r)
      PROVE  SawInv'
  <2>1. ~Writing(r)' /\ req'[r].pc # "match" /\ members' = members /\ Ids' = Ids
    BY <1>2 DEF ReadStep, Writing, Saves, Ids
  <2>2. req'[r].adds => /\ req'[r].pc = "saveOrganisation"
                        /\ \A m \in Known(r)' : members[m].user # req'[r].user
    BY <1>2 DEF ReadStep, Known
  <2>3. \A q \in Requests \ {r} : req'[q] = req[q] /\ Known(q)' = Known(q)
    BY <1>2 DEF ReadStep, Known
  <2>4. QED BY <2>1, <2>2, <2>3 DEF SawInv, Reading, Writing
<1>3. ASSUME NEW r \in Requests, Reload(r)
      PROVE  SawInv'
  <2>1. Reading(r) /\ members' = members /\ Ids' = Ids
    BY <1>3, Reloaded DEF Reload, Reading, Ids
  <2>2. ASSUME req'[r].adds
        PROVE  \A m \in req'[r].saw : members[m].user # req'[r].user
    <3>1. req[r].adds /\ req'[r].saw = Live /\ req'[r].user = req[r].user
      BY <1>3, <2>2, Reloaded
    <3>2. req[r].pc = "saveOrganisation"
      BY <2>1, <3>1 DEF SawInv
    <3>3. Live \subseteq Known(r)
      BY <1>3, <3>2 DEF Reload, KnowsAll
    <3>4. QED BY <2>1, <3>1, <3>3 DEF SawInv
  <2>3. /\ ~Reading(r)' /\ req'[r].pc # "match"
        /\ \A q \in Requests \ {r} : req'[q] = req[q] /\ Known(q)' = Known(q)
    BY <1>3, Reloaded DEF Reading, Saves, Known
  <2>4. QED BY <2>1, <2>2, <2>3 DEF SawInv, Reading, Writing
<1>4. ASSUME NEW r \in Requests, WriteGraph(r)
      PROVE  SawInv'
  <2>1. /\ Writing(r)
        /\ \A m \in Ids : /\ members'[m].user = members[m].user
                          /\ members'[m].saw = members[m].saw
    BY <1>4, WrittenRows DEF WriteGraph, Writing
  <2>2. ASSUME NEW n \in Ids', NEW m \in members'[n].saw
        PROVE  members'[m].user # members'[n].user
    <3>1. CASE n \in Ids
      BY <1>0, <2>1, <2>2, <3>1 DEF SawInv
    <3>2. CASE n \notin Ids
      <4>1. req[r].adds /\ members'[n].user = req[r].user /\ members'[n].saw = req[r].saw
        BY <1>4, <3>2, WrittenIds
      <4>2. QED BY <1>0, <2>1, <2>2, <4>1 DEF SawInv
    <3>3. QED BY <3>1, <3>2
  <2>3. \A q \in Requests : Reading(q)' \/ Writing(q)' \/ req'[q].pc = "match" =>
           /\ q # r /\ Known(q)' = Known(q) /\ req'[q].pc = req[q].pc
           /\ req'[q].user = req[q].user /\ req'[q].adds = req[q].adds
           /\ req'[q].saw = req[q].saw
    BY <1>4, WrittenHeld DEF Reading, Writing, Saves, Known
  <2>4. \A q \in Requests : Reading(q)' /\ req'[q].adds =>
           /\ req'[q].pc = "saveOrganisation"
           /\ \A m \in Known(q)' : members'[m].user # req'[q].user
    BY <1>0, <2>1, <2>3 DEF SawInv, Reading
  <2>5. \A q \in Requests : Writing(q)' /\ req'[q].adds =>
           \A m \in req'[q].saw : members'[m].user # req'[q].user
    BY <1>0, <2>1, <2>3 DEF SawInv, Writing
  <2>6. \A q \in Requests : req'[q].pc = "match" => ~req'[q].adds
    BY <2>3 DEF SawInv
  <2>7. QED BY <2>2, <2>4, <2>5, <2>6 DEF SawInv
<1>5. ASSUME NEW r \in Requests, RemoveMembership(r)
      PROVE  SawInv'
  <2>1. /\ ~Reading(r)' /\ ~Writing(r)' /\ req'[r].pc # "match"
        /\ \A q \in Requests \ {r} : req'[q] = req[q] /\ Known(q)' = Known(q)
    BY <1>5, RemovedRow DEF Reading, Writing, Saves, Known
  <2>2. QED BY <1>0, <1>5, <2>1, RemovedRow DEF SawInv, Reading, Writing
<1>6. ASSUME NEW r \in Requests, NEW u \in Users, NEW claims \in SUBSET Claims,
             GetUser(r, u, claims)
      PROVE  SawInv'
  <2>1. /\ ~Reading(r)' /\ ~Writing(r)' /\ req'[r].pc # "match" /\ members' = members
        /\ Ids' = Ids
        /\ \A q \in Requests \ {r} : req'[q] = req[q] /\ Known(q)' = Known(q)
    BY <1>6 DEF GetUser, Begin, Idle, TypeInv, Reading, Writing, Saves, Known, Ids
  <2>2. QED BY <2>1 DEF SawInv, Reading, Writing
<1>7. QED BY <1>1, <1>2, <1>3, <1>4, <1>5, <1>6, StepKinds

(* No step makes a request bring back what was removed before it arrived.      *)
LEMMA RemovedStep == TypeInv /\ SawInv /\ RemovedInv /\ [Next]_vars => RemovedInv'
<1> SUFFICES ASSUME TypeInv, SawInv, RemovedInv, [Next]_vars
             PROVE  RemovedInv'
    OBVIOUS
<1>0. /\ \A q \in Requests : Known(q) \subseteq Ids
      /\ \A q \in Requests : \A c \in req[q].changes : c.m \in Ids
      /\ \A q \in Requests : req[q].no \in Nat /\ req[q].no <= made
      /\ \A m \in Ids : members[m].removed \in Nat
      /\ made \in Nat
  <2>1. \A q \in Requests : \A c \in req[q].changes : c.m \in Ids
    BY DEF TypeInv, Fields, ChangeSet, Ids
  <2>2. \A q \in Requests : req[q].no \in Nat /\ req[q].no <= made
    BY MembershipBounds DEF TypeInv, Fields
  <2>3. \A m \in Ids : members[m].removed \in Nat
    BY MemberFacts, MembershipBounds DEF RowSet
  <2>4. made \in Nat
    BY MembershipBounds DEF TypeInv
  <2>5. QED BY <2>1, <2>2, <2>3, <2>4, KnownIds
<1>1. CASE QuietStep
  BY <1>1 DEF QuietStep, RemovedInv, Reading, Writing, Known
<1>2. ASSUME NEW r \in Requests, ReadStep(r)
      PROVE  RemovedInv'
  <2>1. ~Writing(r)' /\ members' = members /\ \A m \in Known(r)' : members[m].live
    BY <1>2 DEF ReadStep, Writing, Saves, Known, Live
  <2>2. \A q \in Requests \ {r} : req'[q] = req[q] /\ Known(q)' = Known(q)
    BY <1>2 DEF ReadStep, Known
  <2>3. QED BY <2>1, <2>2 DEF RemovedInv, Reading, Writing
<1>3. ASSUME NEW r \in Requests, Reload(r)
      PROVE  RemovedInv'
  <2>1. Reading(r) /\ members' = members /\ ~Reading(r)'
    BY <1>3, Reloaded DEF Reload, Reading, Saves
  <2>2. ASSUME NEW c \in req'[r].changes, c.revive
        PROVE  req'[r].no <= members[c.m].removed
    <3>1. PICK k \in req[r].graph : c.m = k[1] /\ ~members[k[1]].live
      BY <1>3, <2>2, Reloaded, DifferenceFacts
    <3>2. c.m \in Known(r) /\ req'[r].no = req[r].no
      BY <1>3, <3>1, Reloaded DEF Known
    <3>3. QED BY <2>1, <3>1, <3>2 DEF RemovedInv
  <2>3. \A q \in Requests \ {r} : req'[q] = req[q] /\ Known(q)' = Known(q)
    BY <1>3, Reloaded DEF Known
  <2>4. QED BY <2>1, <2>2, <2>3 DEF RemovedInv, Reading, Writing
<1>4. ASSUME NEW r \in Requests, WriteGraph(r)
      PROVE  RemovedInv'
  <2>1. \A q \in Requests : Reading(q)' \/ Writing(q)' =>
           /\ q # r /\ Known(q)' = Known(q) /\ req'[q].pc = req[q].pc
           /\ req'[q].no = req[q].no /\ req'[q].changes = req[q].changes
    BY <1>4, WrittenHeld DEF Reading, Writing, Saves, Known
  <2>2. \A m \in Ids : members'[m].removed = members[m].removed
    BY <1>4, WrittenRows
  <2>3. \A m \in Ids : ~members'[m].live => ~members[m].live
    BY <1>4, WrittenRows
  <2>4. QED BY <1>0, <2>1, <2>2, <2>3 DEF RemovedInv, Reading, Writing
<1>5. ASSUME NEW r \in Requests, RemoveMembership(r)
      PROVE  RemovedInv'
  <2>1. /\ ~Reading(r)' /\ ~Writing(r)'
        /\ \A q \in Requests \ {r} : req'[q] = req[q] /\ Known(q)' = Known(q)
    BY <1>5, RemovedRow DEF Reading, Writing, Saves, Known
  <2>2. \A m \in Ids : \A q \in Requests :
           /\ req[q].no <= members[m].removed => req[q].no <= members'[m].removed
           /\ members[m].live /\ ~members'[m].live => req[q].no <= members'[m].removed
    <3>1. \A m \in Ids : /\ members'[m].removed \in {made, members[m].removed}
                         /\ members[m].live /\ ~members'[m].live
                               => members'[m].removed = made
      BY <1>5, RemovedRow
    <3>2. QED BY <1>0, <3>1
  <2>3. \A m \in Ids : members'[m].live => members[m].live
    BY <1>5, RemovedRow
  <2>4. QED BY <1>0, <2>1, <2>2, <2>3 DEF RemovedInv, Reading, Writing
<1>6. ASSUME NEW r \in Requests, NEW u \in Users, NEW claims \in SUBSET Claims,
             GetUser(r, u, claims)
      PROVE  RemovedInv'
  <2>1. /\ ~Reading(r)' /\ ~Writing(r)' /\ members' = members
        /\ \A q \in Requests \ {r} : req'[q] = req[q] /\ Known(q)' = Known(q)
    BY <1>6 DEF GetUser, Begin, Idle, TypeInv, Reading, Writing, Saves, Known
  <2>2. QED BY <2>1 DEF RemovedInv, Reading, Writing
<1>7. QED BY <1>1, <1>2, <1>3, <1>4, <1>5, <1>6, StepKinds

(* No step makes an owner of a user about to be removed, unnoticed.         *)
LEMMA RemovalStep == TypeInv /\ SawInv /\ RemovalInv /\ [Next]_vars => RemovalInv'
<1> SUFFICES ASSUME TypeInv, SawInv, RemovalInv, [Next]_vars
             PROVE  RemovalInv'
    OBVIOUS
<1>1. CASE QuietStep
  <2>1. Owners' = Owners
    BY <1>1 DEF QuietStep, Owners, Live, Ids
  <2>2. QED BY <1>1, <2>1 DEF QuietStep, RemovalInv
<1>2. ASSUME NEW r \in Requests, ReadStep(r) \/ Reload(r)
      PROVE  RemovalInv'
  <2>1. /\ members' = members /\ req'[r].pc # "removeUser"
        /\ \A q \in Requests \ {r} : req'[q] = req[q]
    BY <1>2, Reloaded DEF ReadStep, Saves
  <2>2. Owners' = Owners
    BY <2>1 DEF Owners, Live, Ids
  <2>3. QED BY <2>1, <2>2 DEF RemovalInv
<1>3. ASSUME NEW r \in Requests, WriteGraph(r)
      PROVE  RemovalInv'
  <2> SUFFICES ASSUME NEW q \in Requests, req'[q].pc = "removeUser",
                      ~req'[q].promoted, req'[q].user \in Owners'
               PROVE  req'[q].admin
      BY DEF RemovalInv
  <2>1. q # r
    BY <1>3, WrittenHeld
  <2>2. /\ req[q].pc = "removeUser" /\ req'[q].user = req[q].user
        /\ req'[q].admin = req[q].admin /\ ~req[q].promoted
        /\ q \notin Promoting(r, members')
    BY <1>3, <2>1, WrittenHeld, WrittenRequests
  <2>3. DOMAIN members' = Ids'
    <3>1. members' \in Seq(RowSet)
      BY <1>3, WrittenRows
    <3>2. QED BY <3>1 DEF Ids
  <2>4. \E m \in DOMAIN members' : /\ members'[m].live /\ members'[m].user = req[q].user
                                   /\ "owner" \in members'[m].roles
    BY <2>2, <2>3 DEF Owners, Live
  <2>5. req[q].user \in Owners
    BY <2>1, <2>2, <2>4 DEF Promoting
  <2>6. QED BY <2>2, <2>5 DEF RemovalInv
<1>4. ASSUME NEW r \in Requests, RemoveMembership(r)
      PROVE  RemovalInv'
  <2>1. Owners' \subseteq Owners
    BY <1>4, RemovedRow DEF Owners, Live
  <2>2. QED BY <1>4, <2>1, RemovedRow DEF RemovalInv
<1>5. ASSUME NEW r \in Requests, NEW u \in Users, NEW claims \in SUBSET Claims,
             GetUser(r, u, claims)
      PROVE  RemovalInv'
  <2>1. Owners' = Owners
    BY <1>5 DEF GetUser, Owners, Live, Ids
  <2>2. /\ req'[r].user = u /\ req'[r].admin = ("modify:all" \in claims)
        /\ \A q \in Requests \ {r} : req'[q] = req[q]
    BY <1>5 DEF GetUser, Begin, Idle, TypeInv
  <2>3. QED BY <1>5, <2>1, <2>2 DEF RemovalInv, GetUser, Removable
<1>6. QED BY <1>1, <1>2, <1>3, <1>4, <1>5, StepKinds

(* The invariants together.                                                 *)
LEMMA HistoryInvariant ==
    Spec => [](TypeInv /\ SawInv /\ RolesInv /\ RemovedInv /\ RemovalInv)
<1>1. Init => SawInv /\ RolesInv /\ RemovedInv /\ RemovalInv
  <2> SUFFICES ASSUME Init
               PROVE  SawInv /\ RolesInv /\ RemovedInv /\ RemovalInv
      OBVIOUS
  <2>1. \A r \in Requests : req[r].pc = "idle"
    BY DEF Init, Idle
  <2>2. \A r \in Requests : ~Reading(r) /\ ~Writing(r)
    BY <2>1 DEF Reading, Writing, Saves
  <2>3. QED BY <2>1, <2>2, InitRows DEF SawInv, RolesInv, RemovedInv, RemovalInv
<1>2. TypeInv /\ SawInv /\ RolesInv /\ [Next]_vars => RolesInv'
  BY RolesStep
<1>3. TypeInv /\ SawInv /\ [Next]_vars => SawInv'
  BY SawStep
<1>4. TypeInv /\ SawInv /\ RemovedInv /\ [Next]_vars => RemovedInv'
  BY RemovedStep
<1>5. TypeInv /\ SawInv /\ RemovalInv /\ [Next]_vars => RemovalInv'
  BY RemovalStep
<1>6. QED
  BY <1>1, <1>2, <1>3, <1>4, <1>5, TypeInvariant, PTL DEF Spec

-----------------------------------------------------------------------------
(* Stale memberships that are written back bring no role that no owner and no  *)
(* invitation ever gave.                                                      *)
THEOREM RolesCorrect == Spec => []RolesGranted
<1>1. RolesInv => RolesGranted
  BY DEF RolesInv, RolesGranted, Live
<1>2. QED BY <1>1, HistoryInvariant, PTL

(* A user gets a second membership only from a save that, when TypeORM read    *)
(* the rows again, saw no live one of his: two overlapping saves, or one and   *)
(* a removed membership brought back since.                                   *)
THEOREM OneMembershipCorrect == Spec => []OneMembership
<1>1. SawInv => OneMembership
  BY DEF SawInv, OneMembership, Live
<1>2. QED BY <1>1, HistoryInvariant, PTL

(* Nothing brings a removed membership back but the save of a request that     *)
(* arrived before it was removed.                                             *)
THEOREM RemovedCorrect == Spec => RemovedStays
<1> DEFINE Kept == \A m \in Ids : ~members[m].live /\ members'[m].live
                      => \E r \in Requests :
                            /\ req[r].pc = "write" /\ req'[r].pc = "idle"
                            /\ req[r].no <= members[m].removed
<1>1. TypeInv /\ SawInv /\ RemovedInv /\ [Next]_vars => Kept
  <2> SUFFICES ASSUME TypeInv, SawInv, RemovedInv, [Next]_vars,
                      NEW m \in Ids, ~members[m].live, members'[m].live
               PROVE  \E r \in Requests :
                         /\ req[r].pc = "write" /\ req'[r].pc = "idle"
                         /\ req[r].no <= members[m].removed
      OBVIOUS
  <2>1. CASE UNCHANGED members
    BY <2>1
  <2>2. ASSUME NEW r \in Requests, WriteGraph(r)
        PROVE  /\ req[r].pc = "write" /\ req'[r].pc = "idle"
               /\ req[r].no <= members[m].removed
    <3>1. PICK c \in req[r].changes : c.m = m /\ c.revive
      BY <2>2, WrittenRows
    <3>2. req[r].pc = "write" /\ req'[r].pc = "idle"
      BY <2>2, WrittenHeld DEF WriteGraph
    <3>3. QED BY <3>1, <3>2 DEF RemovedInv, Writing
  <2>3. ASSUME NEW r \in Requests, RemoveMembership(r)
        PROVE  FALSE
    BY <2>3, RemovedRow
  <2>4. QED BY <2>1, <2>2, <2>3, StepKinds, Reloaded DEF QuietStep, ReadStep, GetUser
<1>2. QED
  BY <1>1, HistoryInvariant, PTL DEF Spec, RemovedStays

(* "Can't remove the owner of an organisation", but for a super user or an    *)
(* owner who became one after he was read.                                    *)
THEOREM OwnerCorrect == Spec => OwnerStays
<1> DEFINE Kept == \A u \in users \ users' : u \in Owners
                      => \E r \in Requests :
                            /\ req[r].pc = "removeUser" /\ req[r].user = u
                            /\ req[r].admin \/ req[r].promoted
<1>1. RemovalInv /\ [Next]_vars => Kept
  <2> SUFFICES ASSUME RemovalInv, [Next]_vars, NEW u \in users \ users', u \in Owners
               PROVE  \E r \in Requests :
                         /\ req[r].pc = "removeUser" /\ req[r].user = u
                         /\ req[r].admin \/ req[r].promoted
      OBVIOUS
  <2>1. ASSUME NEW r \in Requests, RemoveUser(r)
        PROVE  /\ req[r].pc = "removeUser" /\ req[r].user = u
               /\ req[r].admin \/ req[r].promoted
    BY <2>1 DEF RemoveUser, Write, RemovalInv
  <2>2. ASSUME NEW r \in Requests, WriteGraph(r)
        PROVE  FALSE
    BY <2>2 DEF WriteGraph
  <2>3. CASE UNCHANGED users
    BY <2>3
  <2>4. QED
    BY <2>1, <2>2, <2>3
       DEF Next, vars, MembershipRequest, UserRequest, OrganisationRequest, KeyRequest,
           LoginRequest, GetForUpdate, GetForRemove, GetUser, GetOrganisation, GetKey,
           CreateKey, Login, FindInvitation, MatchUser, Reload, RemoveMembership,
           UpdateOrganisation, RemoveOrganisation, SaveKey, RemoveKey, RequestFails
<1>2. QED
  BY <1>1, HistoryInvariant, PTL DEF Spec, OwnerStays
=============================================================================
