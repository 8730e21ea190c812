---------------------------- MODULE Organization ----------------------------
(***************************************************************************)
(* Membership of organizations in metadata-service (org/org.service.ts).   *)
(*                                                                         *)
(* The table of memberships is shared; every instance of the service keeps *)
(* a cache of its own, user |-> organization, with a time to live.  A      *)
(* request first looks up the organization of its caller (requireOrgId)    *)
(* and then works in it; each await is the end of a step.  `fresh` and     *)
(* `late` are history: whether what a request has read was written over    *)
(* before its own write, and the organizations and users that a request    *)
(* wrote to after that.  `left` is the time a membership ended.            *)
(***************************************************************************)
EXTENDS Integers, FiniteSets

CONSTANTS Users,      \* everybody with an account
          Managers,   \* the users with the realm role admin
          Orgs, OwnerOf, \* the organizations and the user who founded each
          Instances,  \* processes of metadata-service
          Requests,   \* requests that may be in flight together
          Calls,      \* the calls that may be made: caller, operation, target, role
          Seeds,      \* the memberships of a seeded database
          CacheTTL,   \* CACHE_TTL_MS, in ticks
          Latency,    \* the longest a request takes, in ticks
          MaxClock, MaxUses, MaxChanges, MaxRestarts, \* bounds
          NoOrg, NoUser, NoInstance

Operations == {"use", "add", "update", "remove"}
Roles == {"MEMBER", "ADMIN"}
Row == [org : Orgs, user : Users, role : Roles, since : Nat]

(* A seeded organization has its founder as an admin; nobody is in two.       *)
ASSUME OrganizationAssumption ==
    /\ Managers \subseteq Users
    /\ Calls \subseteq [actor : Users, op : Operations, target : Users, role : Roles]
    /\ Seeds \subseteq SUBSET Row
    /\ \A s \in Seeds :
         /\ IsFiniteSet(s)
         /\ \A o \in Orgs : \E m \in s : m.org = o /\ m.user = OwnerOf[o] /\ m.role = "ADMIN"
         /\ \A m, n \in s : m.user = n.user => m = n
    /\ OwnerOf \in [Orgs -> Users]
    /\ CacheTTL \in Nat \ {0}
    /\ Latency \in Nat
    /\ NoOrg \notin Orgs
    /\ NoUser \notin Users
    /\ NoInstance \notin Instances

VARIABLES orgs, members, cache, req, clock, left, late, uses, changes, restarts

counts == <<uses, changes, restarts>>
orgVars == <<orgs, members, cache, req, clock, left, late, counts>>

NoEntry == [org |-> NoOrg, expires |-> 0]
Never == -1 - CacheTTL - Latency

Steps == {"idle", "resolve", "fill", "use", "add", "update", "remove",
          "others", "drop", "create", "count", "setRole", "delete", "invalidate"}

RequestType ==
    [pc : Steps, op : Operations,
     inst : Instances \cup {NoInstance}, actor : Users \cup {NoUser}, target : Users \cup {NoUser}, role : Roles, org : Orgs \cup {NoOrg},
     others : SUBSET Orgs, solo : Orgs \cup {NoOrg}, start : Nat, bound : Nat, fresh : BOOLEAN]

NoRequest == [pc |-> "idle", op |-> "use", inst |-> NoInstance, actor |-> NoUser,
              target |-> NoUser, role |-> "MEMBER", org |-> NoOrg, others |-> {},
              solo |-> NoOrg, start |-> 0, bound |-> 0, fresh |-> TRUE]

Idle(r) == req[r].pc = "idle"

-----------------------------------------------------------------------------
(* The table. *)

MembershipsOf(u) == {m \in members : m.user = u}
MembersOf(o) == {m \in members : m.org = o}
RowOf(o, u) == {m \in members : m.org = o /\ m.user = u}
AdminsOf(o) == {m \in MembersOf(o) : m.role = "ADMIN"}

(* findFirst ordered by createdAt; `since` orders the memberships of a user. *)
Oldest(rows) == {m \in rows : \A n \in rows : m.since <= n.since}

(* A write to the rows of the pairs `touched` outdates what requests in      *)
(* flight have read of the same organization or the same user.               *)
Overtaken(q, touched) ==
    /\ q.pc \in {"others", "drop", "create", "count", "setRole", "delete"}
    /\ \E t \in touched : t.org \in q.others \cup {q.org} \/ t.user = q.target

(* The write follows from a check that still holds; addMember changes the     *)
(* role of a member without one.                                              *)
Checked(q) == q.fresh /\ ~(q.op = "add" /\ q.pc = "setRole")

Written(r, touched, mine) ==
    /\ req' = [q \in Requests |->
                 IF q = r THEN mine
                 ELSE [req[q] EXCEPT !.fresh = @ /\ ~Overtaken(req[q], touched)]]
    /\ late' = late \cup (IF Checked(req[r]) THEN {}
                          ELSE {req[r].target} \cup {t.org : t \in touched})
    /\ left' = [o \in Orgs |-> [u \in Users |->
                  IF \E m \in members \ members' : m.org = o /\ m.user = u
                     /\ RowOf(o, u)' = {}
                  THEN clock ELSE left[o][u]]]

Goto(r, next) == req' = [req EXCEPT ![r].pc = next]
End(r) == req' = [req EXCEPT ![r] = NoRequest]

-----------------------------------------------------------------------------
(* requireOrgId and the calls. *)

(* Mutant: an entry is kept until it is invalidated. *)
NeverExpired(e, now) == FALSE

Expired(e, now) == e.expires <= now

Fresh(e) == e.org # NoOrg /\ ~Expired(e, clock)

(* A call arrives.  Only a caller with the realm role admin gets past the    *)
(* guards of the three operations on members.                                *)
Call(r, i, c) ==
    /\ Idle(r)
    /\ IF c.op = "use"
       THEN uses < MaxUses /\ uses' = uses + 1 /\ UNCHANGED changes
       ELSE /\ c.actor \in Managers
            /\ changes < MaxChanges /\ changes' = changes + 1 /\ UNCHANGED uses
    /\ LET entry == cache[i][c.actor] IN
       req' = [req EXCEPT ![r] =
         [pc |-> IF Fresh(entry) THEN c.op ELSE "resolve", op |-> c.op, inst |-> i,
          actor |-> c.actor, target |-> c.target, role |-> c.role,
          org |-> IF Fresh(entry) THEN entry.org ELSE NoOrg,
          others |-> {}, solo |-> NoOrg, start |-> clock, bound |-> clock, fresh |-> TRUE]]
    /\ UNCHANGED <<orgs, members, cache, clock, left, late, restarts>>

(* resolveOrgId: the oldest membership, or the call is refused. *)
ResolveOrg(r) ==
    /\ req[r].pc = "resolve"
    /\ IF MembershipsOf(req[r].actor) = {} THEN End(r)
       ELSE \E m \in Oldest(MembershipsOf(req[r].actor)) :
              req' = [req EXCEPT ![r].org = m.org, ![r].pc = "fill"]
    /\ UNCHANGED <<orgs, members, cache, clock, left, late, counts>>

(* The continuation of requireOrgId: the entry starts to age now. *)
FillCache(r) ==
    /\ req[r].pc = "fill"
    /\ cache' = [cache EXCEPT ![req[r].inst][req[r].actor] =
                   [org |-> req[r].org, expires |-> clock + CacheTTL]]
    /\ req' = [req EXCEPT ![r].pc = req[r].op, ![r].bound = clock]
    /\ UNCHANGED <<orgs, members, clock, left, late, counts>>

(* Any other call: it reads and writes documents of the organization. *)
Serve(r) ==
    /\ req[r].pc = "use"
    /\ End(r)
    /\ UNCHANGED <<orgs, members, cache, clock, left, late, counts>>

-----------------------------------------------------------------------------
(* addMember. *)

OtherOrgs(q) == {m.org : m \in MembershipsOf(q.target)} \ {q.org}

ReadTarget(r) ==
    /\ req[r].pc = "add"
    /\ LET mine == RowOf(req[r].org, req[r].target)
           others == OtherOrgs(req[r])
       IN IF mine # {}
          THEN IF \E m \in mine : m.role = req[r].role THEN End(r) ELSE Goto(r, "setRole")
          ELSE req' = [req EXCEPT ![r].others = others,
                                  ![r].pc = IF others = {} THEN "create" ELSE "others"]
    /\ UNCHANGED <<orgs, members, cache, clock, left, late, counts>>

IsOrphanSoloOrg(o, u) == Cardinality(MembersOf(o)) = 1 /\ OwnerOf[o] = u

CountOthers(r) ==
    /\ req[r].pc = "others"
    /\ \E o \in req[r].others :
         IF IsOrphanSoloOrg(o, req[r].target)
         THEN req' = [req EXCEPT ![r].pc = "drop", ![r].solo = o]
         ELSE End(r)
    /\ UNCHANGED <<orgs, members, cache, clock, left, late, counts>>

(* organization.delete: the memberships go with it (onDelete: Cascade). *)
DropOrphan(r) ==
    /\ req[r].pc = "drop"
    /\ LET o == req[r].solo
           rest == req[r].others \ {o}
       IN IF o \in orgs
          THEN /\ orgs' = orgs \ {o}
               /\ members' = members \ MembersOf(o)
               /\ Written(r, MembersOf(o),
                    [req[r] EXCEPT !.others = rest, !.solo = NoOrg,
                                   !.pc = IF rest = {} THEN "create" ELSE "others"])
          ELSE End(r) /\ UNCHANGED <<orgs, members, left, late>>
    /\ UNCHANGED <<cache, clock, counts>>

(* The foreign key and the unique index of the table reject other rows. *)
Insertable(row) == row.org \in orgs /\ RowOf(row.org, row.user) = {}

CreateMember(r) ==
    /\ req[r].pc = "create"
    /\ LET new == [org |-> req[r].org, user |-> req[r].target,
                   role |-> req[r].role, since |-> Cardinality(MembershipsOf(req[r].target))]
       IN IF Insertable(new)
          THEN /\ members' = members \cup {new}
               /\ Written(r, {new}, [req[r] EXCEPT !.pc = "invalidate"])
          ELSE End(r) /\ UNCHANGED <<members, left, late>>
    /\ UNCHANGED <<orgs, cache, clock, counts>>

-----------------------------------------------------------------------------
(* updateMemberRole and removeMember. *)

TakesAdmin(q, m) == m.role = "ADMIN" /\ (q.op = "remove" \/ q.role = "MEMBER")

ReadMember(r) ==
    /\ req[r].pc \in {"update", "remove"}
    /\ LET mine == RowOf(req[r].org, req[r].target)
           write == IF req[r].op = "remove" THEN "delete" ELSE "setRole"
       IN IF mine = {} THEN End(r)
          ELSE Goto(r, IF \E m \in mine : TakesAdmin(req[r], m) THEN "count" ELSE write)
    /\ UNCHANGED <<orgs, members, cache, clock, left, late, counts>>

(* Mutant: an organization without an admin is let be. *)
NoAdmin(o) == Cardinality(AdminsOf(o)) < 1

(* assertNotLastAdmin *)
LastAdmin(o) == Cardinality(AdminsOf(o)) <= 1

CountAdmins(r) ==
    /\ req[r].pc = "count"
    /\ IF LastAdmin(req[r].org) THEN End(r)
       ELSE Goto(r, IF req[r].op = "remove" THEN "delete" ELSE "setRole")
    /\ UNCHANGED <<orgs, members, cache, clock, left, late, counts>>

SetRole(r) ==
    /\ req[r].pc = "setRole"
    /\ LET old == RowOf(req[r].org, req[r].target)
       IN IF old # {}
          THEN /\ members' = (members \ old) \cup {[m EXCEPT !.role = req[r].role] : m \in old}
               /\ Written(r, old, [req[r] EXCEPT !.pc = "invalidate"])
          ELSE End(r) /\ UNCHANGED <<members, left, late>>
    /\ UNCHANGED <<orgs, cache, clock, counts>>

DeleteMember(r) ==
    /\ req[r].pc = "delete"
    /\ LET old == RowOf(req[r].org, req[r].target)
       IN IF old # {}
          THEN /\ members' = members \ old
               /\ Written(r, old, [req[r] EXCEPT !.pc = "invalidate"])
          ELSE End(r) /\ UNCHANGED <<members, left, late>>
    /\ UNCHANGED <<orgs, cache, clock, counts>>

(* The cache of this instance only; the event for the audit log follows. *)
Invalidate(r) ==
    /\ req[r].pc = "invalidate"
    /\ cache' = [cache EXCEPT ![req[r].inst][req[r].target] = NoEntry]
    /\ End(r)
    /\ UNCHANGED <<orgs, members, clock, left, late, counts>>

-----------------------------------------------------------------------------
(* An instance restarts: its cache and the requests it was serving are gone. *)
Restart(i) ==
    /\ restarts < MaxRestarts
    /\ restarts' = restarts + 1
    /\ cache[i] # [u \in Users |-> NoEntry] \/ \E r \in Requests : req[r].inst = i /\ ~Idle(r)
    /\ cache' = [cache EXCEPT ![i] = [u \in Users |-> NoEntry]]
    /\ req' = [r \in Requests |-> IF req[r].inst = i THEN NoRequest ELSE req[r]]
    /\ UNCHANGED <<orgs, members, clock, left, late, uses, changes>>

(* Time; a request is over within Latency.  An expired entry stays in the     *)
(* cache of the code and is never used again; here it goes.                   *)
Tick ==
    /\ clock < MaxClock
    /\ \A r \in Requests : Idle(r) \/ clock < req[r].start + Latency
    /\ clock' = clock + 1
    /\ cache' = [i \in Instances |-> [u \in Users |->
                   IF Expired(cache[i][u], clock') THEN NoEntry ELSE cache[i][u]]]
    /\ UNCHANGED <<orgs, members, req, left, late, counts>>

OrgInit ==
    /\ orgs = Orgs
    /\ members \in Seeds
    /\ cache = [i \in Instances |-> [u \in Users |-> NoEntry]]
    /\ req = [r \in Requests |-> NoRequest]
    /\ clock = 0
    /\ left = [o \in Orgs |-> [u \in Users |-> Never]]
    /\ late = {}
    /\ uses = 0 /\ changes = 0 /\ restarts = 0

Step(r) ==
    \/ ResolveOrg(r) \/ FillCache(r) \/ Serve(r)
    \/ ReadTarget(r) \/ CountOthers(r) \/ DropOrphan(r) \/ CreateMember(r)
    \/ ReadMember(r) \/ CountAdmins(r) \/ SetRole(r) \/ DeleteMember(r)
    \/ Invalidate(r)

OrgNext ==
    \/ \E r \in Requests, i \in Instances, c \in Calls : Call(r, i, c)
    \/ \E r \in Requests : Step(r)
    \/ \E i \in Instances : Restart(i)
    \/ Tick

OrgSpec == OrgInit /\ [][OrgNext]_orgVars

-----------------------------------------------------------------------------
(* Properties. *)

(* Type invariant, with the two constraints of the table: one row for a pair  *)
(* and no row of an organization that is gone.                                *)
OrgTypeOK ==
    /\ orgs \subseteq Orgs
    /\ members \subseteq Row /\ IsFiniteSet(members)
    /\ \A m \in members : m.org \in orgs
    /\ \A m, n \in members : m.org = n.org /\ m.user = n.user => m = n
    /\ cache \in [Instances -> [Users -> [org : Orgs \cup {NoOrg}, expires : Nat]]]
    /\ req \in [Requests -> RequestType]
    /\ clock \in Nat /\ uses \in Nat /\ changes \in Nat /\ restarts \in Nat
    /\ left \in [Orgs -> [Users -> Nat \cup {Never}]]
    /\ late \subseteq Orgs \cup Users \cup {NoUser}

(* When u was last a member of o, as far as the table knows. *)
MemberAt(o, u, t) == RowOf(o, u) # {} \/ left[o][u] >= t

(* The cache of an instance outlives a membership, because a removal empties  *)
(* one cache only and a lookup may be written after it was emptied.  Still no *)
(* request works in an organization that its caller had left for longer than  *)
(* the time to live of an entry and the time of the lookup (requireOrgId).    *)
StaleBounded ==
    \A r \in Requests :
      (~Idle(r) /\ req[r].org # NoOrg) =>
         MemberAt(req[r].org, req[r].actor, req[r].bound - CacheTTL - Latency)

(* "An org must keep one admin": every organization has one, but for those    *)
(* where two requests overlapped (assertNotLastAdmin counts before the write) *)
(* or an admin was added again as a member (addMember does not count).        *)
AdminKept == \A o \in orgs \ late : AdminsOf(o) # {}

(* What the comment of updateMemberRole says of every organization; one       *)
(* request at a time is enough to refute it.                                  *)
AdminAlways == \A o \in orgs : AdminsOf(o) # {}

(* "Single org per user": nobody is a member of two organizations, unless two *)
(* requests about that user overlapped (addMember reads, then creates).       *)
SingleOrg ==
    \A m, n \in members : m.user = n.user /\ m.user \notin late => m.org = n.org

(* Both of what assertNotLastAdmin and addMember look at before they write.   *)
MembershipKept == AdminKept /\ SingleOrg

(* Only an organization nobody but its founder is in is deleted, unless the   *)
(* table changed between the count and the deletion (addMember).              *)
OnlyOrphansDropped ==
    [][\A o \in orgs \ orgs' : o \in late' \/ \A m \in MembersOf(o) : m.user = OwnerOf[o]]_orgVars
=============================================================================
