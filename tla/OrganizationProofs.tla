------------------------- MODULE OrganizationProofs -------------------------
(***************************************************************************)
(* Proofs about Organization for every set of users, organizations,        *)
(* instances and requests, every time to live and every latency: the type  *)
(* invariant, the bound on the use of a membership that has ended, what a  *)
(* change of the members keeps, and what is deleted with an organization.  *)
(*                                                                         *)
(* StaleBounded is not inductive: it says nothing of a cache entry before  *)
(* it is used, nor of an organization that was looked up and not yet       *)
(* written to the cache.  Entries and Requested add those two (OrgInv).    *)
(* MembershipKept is not inductive either: whether a write keeps an admin  *)
(* or a user out of a second organization depends on what the request read *)
(* steps before.  Sound says for each request that what it read is still   *)
(* true while it is fresh (KeptInv).                                       *)
(***************************************************************************)
EXTENDS Organization, FiniteSetTheorems, TLAPS

(* An entry expires no later than CacheTTL from now, and the membership it    *)
(* was made from held when the lookup began.                                  *)
Entries ==
    \A i \in Instances, u \in Users :
      cache[i][u].org # NoOrg =>
        /\ cache[i][u].expires <= clock + CacheTTL
        /\ MemberAt(cache[i][u].org, u, cache[i][u].expires - CacheTTL - Latency)

(* Requests in flight are young. *)
Young(q) ==
    q.pc # "idle" => q.start <= clock /\ clock <= q.start + Latency /\ q.bound <= clock

(* A looked-up organization was the caller's when the lookup began.           *)
Backed(q) ==
    q.pc # "idle" /\ q.org # NoOrg =>
      /\ MemberAt(q.org, q.actor, q.bound - CacheTTL - Latency)
      /\ q.pc = "fill" => MemberAt(q.org, q.actor, q.start)

(* The fields that the next step of a request needs. *)
Supplied(q) ==
    q.pc # "idle" =>
      /\ q.actor \in Users /\ q.target \in Users /\ q.inst \in Instances
      /\ q.pc = "resolve" <=> q.org = NoOrg
      /\ q.pc = "drop" => q.solo \in Orgs

Requested == \A r \in Requests : Young(req[r]) /\ Backed(req[r]) /\ Supplied(req[r])

OrgInv == OrgTypeOK /\ Entries /\ Requested

-----------------------------------------------------------------------------
(* Idle and ended requests. *)

LEMMA Constants ==
    /\ CacheTTL \in Nat /\ Latency \in Nat /\ Never \in Int
    /\ NoOrg \notin Orgs
BY OrganizationAssumption DEF OrganizationAssumption, Never

LEMMA NoRequestType == NoRequest \in RequestType /\ NoRequest.pc = "idle"
BY DEF NoRequest, RequestType, Steps, Operations, Roles

(* A step that moves one request only. *)
LEMMA MoveType ==
    ASSUME req \in [Requests -> RequestType], NEW r \in Requests, NEW q \in RequestType,
           req' = [req EXCEPT ![r] = q]
    PROVE  /\ req' \in [Requests -> RequestType]
           /\ req'[r] = q
           /\ \A s \in Requests \ {r} : req'[s] = req[s]
OBVIOUS

-----------------------------------------------------------------------------
(* A membership that held at some time in the past goes on having held. *)

LeftRule ==
    left' = [o \in Orgs |-> [u \in Users |->
              IF \E m \in members \ members' : m.org = o /\ m.user = u /\ RowOf(o, u)' = {}
              THEN clock ELSE left[o][u]]]

LEMMA StepRows ==
    ASSUME NEW r \in Requests, Step(r)
    PROVE  LeftRule \/ UNCHANGED <<members, left>>
BY DEF Step, ResolveOrg, FillCache, Serve, ReadTarget, CountOthers, DropOrphan, CreateMember,
       ReadMember, CountAdmins, SetRole, DeleteMember, Invalidate, Written, LeftRule

LEMMA NextRows ==
    ASSUME [OrgNext]_orgVars
    PROVE  LeftRule \/ UNCHANGED <<members, left>>
BY StepRows DEF OrgNext, Call, Restart, Tick, orgVars

LEMMA MemberStays ==
    ASSUME OrgTypeOK, [OrgNext]_orgVars, NEW o \in Orgs, NEW u \in Users, NEW t \in Int,
           t <= clock, MemberAt(o, u, t)
    PROVE  MemberAt(o, u, t)'
<1>1. CASE UNCHANGED <<members, left>>
  BY <1>1 DEF MemberAt, RowOf
<1>2. CASE LeftRule
  <2> left'[o][u] = IF \E m \in members \ members' : m.org = o /\ m.user = u /\ RowOf(o, u)' = {}
                    THEN clock ELSE left[o][u]
    BY <1>2 DEF LeftRule
  <2>1. CASE RowOf(o, u)' # {}
    BY <2>1 DEF MemberAt
  <2>2. CASE RowOf(o, u)' = {} /\ RowOf(o, u) # {}
    <3>1. PICK m \in members : m.org = o /\ m.user = u
      BY <2>2 DEF RowOf
    <3>2. m \notin members'
      BY <2>2, <3>1 DEF RowOf
    <3> QED BY <2>2, <3>1, <3>2 DEF MemberAt
  <2>3. CASE RowOf(o, u)' = {} /\ RowOf(o, u) = {}
    BY <2>3 DEF MemberAt, OrgTypeOK
  <2> QED BY <2>1, <2>2, <2>3
<1> QED BY <1>1, <1>2, NextRows

LEMMA MemberEarlier ==
    ASSUME OrgTypeOK, NEW o \in Orgs, NEW u \in Users, NEW t \in Int, NEW s \in Int,
           s <= t, MemberAt(o, u, t)
    PROVE  MemberAt(o, u, s)
<1>1. left[o][u] \in Int
  BY Constants DEF OrgTypeOK
<1> QED BY <1>1 DEF MemberAt

-----------------------------------------------------------------------------
(* What a step does to the request that takes it. *)

SameCall(q, n) ==
    /\ n.org = q.org /\ n.actor = q.actor /\ n.target = q.target /\ n.inst = q.inst
    /\ n.start = q.start /\ n.bound = q.bound

Later(q, n) ==
    \/ n = NoRequest
    \/ /\ SameCall(q, n)
       /\ q.pc \notin {"idle", "resolve"}
       /\ n.pc \notin {"idle", "resolve", "fill"}
       /\ n.pc = "drop" => n.solo \in Orgs

(* Request r becomes n; the others lose their freshness at most. *)
Moves(r, n) ==
    /\ req' \in [Requests -> RequestType]
    /\ req'[r] = n
    /\ \A s \in Requests \ {r} :
         req'[s] = req[s] \/ \E b \in BOOLEAN : req'[s] = [req[s] EXCEPT !.fresh = b]

LEMMA GotoMoves ==
    ASSUME OrgTypeOK, NEW r \in Requests, NEW pc \in Steps, Goto(r, pc)
    PROVE  \E n \in RequestType : Moves(r, n) /\ n = [req[r] EXCEPT !.pc = pc]
<1> DEFINE n == [req[r] EXCEPT !.pc = pc]
<1>1. req[r] \in RequestType /\ req \in [Requests -> RequestType]
  BY DEF OrgTypeOK
<1>2. n \in RequestType
  BY <1>1 DEF RequestType
<1>3. req' = [req EXCEPT ![r] = n]
  BY DEF Goto
<1>4. Moves(r, n)
  BY <1>1, <1>2, <1>3, MoveType DEF Moves
<1> QED BY <1>2, <1>4

LEMMA EndMoves ==
    ASSUME OrgTypeOK, NEW r \in Requests, End(r)
    PROVE  \E n \in RequestType : Moves(r, n) /\ n = NoRequest
BY NoRequestType, MoveType DEF End, Moves, OrgTypeOK

LEMMA WriteMoves ==
    ASSUME OrgTypeOK, NEW r \in Requests, NEW touched, NEW n \in RequestType,
           Written(r, touched, n)
    PROVE  Moves(r, n)
<1>1. req \in [Requests -> RequestType]
  BY DEF OrgTypeOK
<1>2. \A q \in RequestType : \A b \in BOOLEAN : [q EXCEPT !.fresh = b] \in RequestType
  BY DEF RequestType
<1>3. req' = [q \in Requests |->
                IF q = r THEN n
                ELSE [req[q] EXCEPT !.fresh = req[q].fresh /\ ~Overtaken(req[q], touched)]]
  BY DEF Written
<1>4. ASSUME NEW s \in Requests, s # r
      PROVE  \E b \in BOOLEAN : req'[s] = [req[s] EXCEPT !.fresh = b]
  <2> DEFINE b == req[s].fresh /\ ~Overtaken(req[s], touched)
  <2>1. b \in BOOLEAN
    OBVIOUS
  <2>2. req'[s] = [req[s] EXCEPT !.fresh = b]
    BY <1>3, <1>4
  <2> QED BY <2>1, <2>2
<1>5. req'[r] = n
  BY <1>3
<1>6. req' \in [Requests -> RequestType]
  <2>1. ASSUME NEW s \in Requests, s # r PROVE req'[s] \in RequestType
    <3>1. PICK b \in BOOLEAN : req'[s] = [req[s] EXCEPT !.fresh = b]
      BY <1>4, <2>1
    <3>2. req[s] \in RequestType
      BY <1>1
    <3> QED BY <1>2, <3>1, <3>2
  <2> QED BY <1>3, <1>5, <2>1
<1> QED BY <1>4, <1>5, <1>6 DEF Moves

LEMMA LaterSteps ==
    ASSUME OrgInv, NEW r \in Requests, Step(r), ~ResolveOrg(r), ~FillCache(r)
    PROVE  \E n \in RequestType : Moves(r, n) /\ Later(req[r], n)
<1> DEFINE q == req[r]
<1> USE DEF OrgInv
<1>0. q \in RequestType /\ Supplied(q)
  BY DEF OrgTypeOK, Requested
<1>1. ASSUME End(r) PROVE \E n \in RequestType : Moves(r, n) /\ Later(q, n)
  BY <1>1, EndMoves DEF Later
<1>2. ASSUME NEW pc \in Steps \ {"idle", "resolve", "fill", "drop"}, Goto(r, pc),
             q.pc \notin {"idle", "resolve"}
      PROVE  \E n \in RequestType : Moves(r, n) /\ Later(q, n)
  <2>1. PICK n \in RequestType : Moves(r, n) /\ n = [q EXCEPT !.pc = pc]
    BY <1>2, GotoMoves
  <2>2. SameCall(q, n) /\ n.pc = pc
    BY <1>0, <2>1 DEF SameCall, RequestType
  <2> QED BY <1>2, <2>1, <2>2 DEF Later
<1>3. ASSUME NEW touched, Written(r, touched, [q EXCEPT !.pc = "invalidate"]),
             q.pc \notin {"idle", "resolve"}
      PROVE  \E n \in RequestType : Moves(r, n) /\ Later(q, n)
  <2>1. PICK n : n = [q EXCEPT !.pc = "invalidate"]
    OBVIOUS
  <2>2. n \in RequestType
    BY <1>0, <2>1 DEF RequestType, Steps
  <2>3. SameCall(q, n) /\ n.pc = "invalidate"
    BY <1>0, <2>1 DEF SameCall, RequestType
  <2> QED BY <1>3, <2>1, <2>2, <2>3, WriteMoves DEF Later
<1>4. CASE Serve(r)
  BY <1>1, <1>4 DEF Serve
<1>5. CASE ReadTarget(r)
  <2>1. CASE End(r)
    BY <1>1, <2>1
  <2>2. CASE Goto(r, "setRole")
    BY <1>2, <1>5, <2>2 DEF ReadTarget, Steps
  <2>3. CASE ~End(r) /\ ~Goto(r, "setRole")
    <3>1. PICK os, pc : /\ os = OtherOrgs(q) /\ pc \in {"create", "others"}
                        /\ req' = [req EXCEPT ![r].others = os, ![r].pc = pc]
      BY <1>5, <2>3 DEF ReadTarget
    <3>2. PICK n : n = [q EXCEPT !.others = os, !.pc = pc]
      OBVIOUS
    <3>3. os \subseteq Orgs
      BY <3>1 DEF OtherOrgs, MembershipsOf, OrgTypeOK, Row
    <3>4. n \in RequestType
      BY <1>0, <3>1, <3>2, <3>3 DEF RequestType, Steps
    <3>5. req' = [req EXCEPT ![r] = n]
      BY <3>1, <3>2
    <3>6. Moves(r, n)
      BY <3>4, <3>5, MoveType DEF Moves, OrgTypeOK
    <3>7. SameCall(q, n) /\ n.pc = pc
      BY <1>0, <3>2 DEF SameCall, RequestType
    <3> QED BY <1>5, <3>1, <3>4, <3>6, <3>7 DEF Later, ReadTarget
  <2> QED BY <2>1, <2>2, <2>3
<1>6. CASE CountOthers(r)
  <2>1. CASE End(r)
    BY <1>1, <2>1
  <2>2. CASE ~End(r)
    <3>1. PICK o \in q.others : req' = [req EXCEPT ![r].pc = "drop", ![r].solo = o]
      BY <1>6, <2>2 DEF CountOthers
    <3>2. o \in Orgs
      BY <1>0 DEF RequestType
    <3>3. PICK n : n = [q EXCEPT !.pc = "drop", !.solo = o]
      OBVIOUS
    <3>4. n \in RequestType
      BY <1>0, <3>2, <3>3 DEF RequestType, Steps
    <3>5. req' = [req EXCEPT ![r] = n]
      BY <3>1, <3>3
    <3>6. Moves(r, n)
      BY <3>4, <3>5, MoveType DEF Moves, OrgTypeOK
    <3>7. SameCall(q, n) /\ n.pc = "drop" /\ n.solo = o
      BY <1>0, <3>3 DEF SameCall, RequestType
    <3> QED BY <1>6, <3>2, <3>4, <3>6, <3>7 DEF Later, CountOthers
  <2> QED BY <2>1, <2>2
<1>7. CASE DropOrphan(r)
  <2>1. CASE End(r)
    BY <1>1, <2>1
  <2>2. CASE ~End(r)
    <3>1. PICK os, pc, touched :
             /\ os = q.others \ {q.solo} /\ pc \in {"create", "others"}
             /\ Written(r, touched, [q EXCEPT !.others = os, !.solo = NoOrg, !.pc = pc])
      BY <1>7, <2>2 DEF DropOrphan
    <3>2. PICK n : n = [q EXCEPT !.others = os, !.solo = NoOrg, !.pc = pc]
      OBVIOUS
    <3>3. os \subseteq Orgs
      BY <1>0, <3>1 DEF RequestType
    <3>4. n \in RequestType
      <4>1. pc \in Steps
        BY <3>1 DEF Steps
      <4> QED BY <1>0, <3>2, <3>3, <4>1 DEF RequestType
    <3>5. Moves(r, n)
      BY <3>1, <3>2, <3>4, WriteMoves
    <3>6. SameCall(q, n) /\ n.pc = pc
      BY <1>0, <3>2 DEF SameCall, RequestType
    <3> QED BY <1>7, <3>1, <3>4, <3>5, <3>6 DEF Later, DropOrphan
  <2> QED BY <2>1, <2>2
<1>8. CASE CreateMember(r)
  BY <1>1, <1>3, <1>8 DEF CreateMember
<1>9. CASE ReadMember(r)
  <2>1. CASE End(r)
    BY <1>1, <2>1
  <2>2. CASE ~End(r)
    <3>1. PICK pc \in {"count", "delete", "setRole"} : Goto(r, pc)
      BY <1>9, <2>2 DEF ReadMember
    <3> QED BY <1>2, <1>9, <3>1 DEF ReadMember, Steps
  <2> QED BY <2>1, <2>2
<1>10. CASE CountAdmins(r)
  BY <1>1, <1>2, <1>10 DEF CountAdmins, Steps
<1>11. CASE SetRole(r)
  BY <1>1, <1>3, <1>11 DEF SetRole
<1>12. CASE DeleteMember(r)
  BY <1>1, <1>3, <1>12 DEF DeleteMember
<1>13. CASE Invalidate(r)
  BY <1>1, <1>13 DEF Invalidate
<1> QED BY <1>4, <1>5, <1>6, <1>7, <1>8, <1>9, <1>10, <1>11, <1>12, <1>13 DEF Step

-----------------------------------------------------------------------------
(* The requests keep what Requested says of them. *)

LEMMA FieldsStay ==
    ASSUME OrgInv, [OrgNext]_orgVars, clock' = clock, NEW q \in RequestType, NEW n \in RequestType,
           Young(q), Backed(q), Supplied(q), SameCall(q, n),
           n.pc # "idle" => q.pc # "idle",
           n.pc = "fill" <=> q.pc = "fill",
           n.pc = "resolve" <=> q.pc = "resolve",
           n.pc = "drop" => n.solo \in Orgs
    PROVE  Young(n)' /\ Backed(n)' /\ Supplied(n)
<1>1. Young(n)'
  BY DEF Young, SameCall
<1>2. Supplied(n)
  BY DEF Supplied, SameCall
<1>3. ASSUME n.pc # "idle", n.org # NoOrg
      PROVE  /\ MemberAt(n.org, n.actor, n.bound - CacheTTL - Latency)'
             /\ n.pc = "fill" => MemberAt(n.org, n.actor, n.start)'
  <2>1. n.org \in Orgs /\ n.actor \in Users /\ n.bound \in Nat /\ n.start \in Nat
    BY <1>2, <1>3 DEF Supplied, RequestType
  <2>2. /\ MemberAt(n.org, n.actor, n.bound - CacheTTL - Latency)
        /\ n.pc = "fill" => MemberAt(n.org, n.actor, n.start)
    BY <1>3 DEF Backed, SameCall
  <2>3. n.start <= clock /\ n.bound <= clock /\ clock \in Nat
    BY <1>3 DEF Young, SameCall, OrgInv, OrgTypeOK
  <2>4. n.bound - CacheTTL - Latency \in Int /\ n.bound - CacheTTL - Latency <= clock
    BY <2>1, <2>3, Constants
  <2>5. MemberAt(n.org, n.actor, n.bound - CacheTTL - Latency)'
    BY <2>1, <2>2, <2>4, MemberStays DEF OrgInv
  <2>6. n.pc = "fill" => MemberAt(n.org, n.actor, n.start)'
    BY <2>1, <2>2, <2>3, MemberStays DEF OrgInv
  <2> QED BY <2>5, <2>6
<1> QED BY <1>1, <1>2, <1>3 DEF Backed

LEMMA OthersKeep ==
    ASSUME OrgInv, [OrgNext]_orgVars, clock' = clock, NEW s \in Requests,
           req' \in [Requests -> RequestType],
           req'[s] = req[s] \/ \E b \in BOOLEAN : req'[s] = [req[s] EXCEPT !.fresh = b]
    PROVE  (Young(req[s]) /\ Backed(req[s]) /\ Supplied(req[s]))'
<1>1. PICK q, n : q = req[s] /\ n = req'[s]
  OBVIOUS
<1>2. q \in RequestType /\ n \in RequestType
  BY <1>1 DEF OrgInv, OrgTypeOK
<1>3. SameCall(q, n) /\ n.pc = q.pc /\ n.solo = q.solo
  BY <1>1, <1>2 DEF SameCall, RequestType
<1>4. Young(q) /\ Backed(q) /\ Supplied(q)
  BY <1>1 DEF OrgInv, Requested
<1>5. Young(n)' /\ Backed(n)' /\ Supplied(n)
  BY <1>2, <1>3, <1>4, FieldsStay DEF Supplied
<1> QED BY <1>1, <1>5

LEMMA ResolveRequest ==
    ASSUME OrgInv, NEW r \in Requests, ResolveOrg(r)
    PROVE  Requested' /\ req' \in [Requests -> RequestType]
<1> USE DEF OrgInv
<1>0. clock' = clock /\ [OrgNext]_orgVars
  BY DEF ResolveOrg, OrgNext, Step
<1>1. CASE End(r)
  <2>1. PICK n \in RequestType : Moves(r, n) /\ n = NoRequest
    BY <1>1, EndMoves
  <2>2. Young(n)' /\ Backed(n)' /\ Supplied(n)
    BY <2>1, NoRequestType DEF Young, Backed, Supplied
  <2> QED BY <1>0, <2>1, <2>2, OthersKeep DEF Moves, Requested
<1>2. CASE ~End(r)
  <2>1. PICK m \in members : /\ m.user = req[r].actor
                             /\ req' = [req EXCEPT ![r].org = m.org, ![r].pc = "fill"]
    BY <1>2 DEF ResolveOrg, Oldest, MembershipsOf
  <2>2. PICK q, n : q = req[r] /\ n = [q EXCEPT !.org = m.org, !.pc = "fill"]
    OBVIOUS
  <2>3. q \in RequestType /\ m.org \in Orgs
    BY <2>2 DEF OrgTypeOK, Row
  <2>4. n \in RequestType
    BY <2>2, <2>3 DEF RequestType, Steps
  <2>5. /\ n.org = m.org /\ n.pc = "fill" /\ n.actor = q.actor /\ n.target = q.target
        /\ n.inst = q.inst /\ n.start = q.start /\ n.bound = q.bound
    BY <2>2, <2>3 DEF RequestType
  <2>6. req' = [req EXCEPT ![r] = n]
    BY <2>1, <2>2
  <2>7. Moves(r, n)
    BY <2>4, <2>6, MoveType DEF Moves, OrgTypeOK
  <2>8. q.pc = "resolve" /\ Young(q) /\ Supplied(q)
    BY <2>2 DEF ResolveOrg, Requested
  <2>9. Young(n)'
    BY <1>0, <2>5, <2>8 DEF Young
  <2>10. Supplied(n)
    BY <2>3, <2>5, <2>8, Constants DEF Supplied
  <2>11. RowOf(n.org, n.actor) # {} /\ members' = members
    BY <2>1, <2>2, <2>5 DEF RowOf, ResolveOrg
  <2>12. Backed(n)'
    BY <2>11 DEF Backed, MemberAt, RowOf
  <2> QED BY <1>0, <2>7, <2>9, <2>10, <2>12, OthersKeep DEF Moves, Requested
<1> QED BY <1>1, <1>2

LEMMA FillRequest ==
    ASSUME OrgInv, NEW r \in Requests, FillCache(r)
    PROVE  Requested' /\ req' \in [Requests -> RequestType]
<1> USE DEF OrgInv
<1>0. clock' = clock /\ [OrgNext]_orgVars
  BY DEF FillCache, OrgNext, Step
<1>1. PICK q, n : q = req[r] /\ n = [q EXCEPT !.pc = q.op, !.bound = clock]
  OBVIOUS
<1>2. q \in RequestType /\ clock \in Nat
  BY <1>1 DEF OrgTypeOK
<1>3. n \in RequestType /\ n.pc \in Operations
  BY <1>1, <1>2 DEF RequestType, Steps, Operations
<1>4. /\ n.org = q.org /\ n.bound = clock /\ n.actor = q.actor /\ n.target = q.target
      /\ n.inst = q.inst /\ n.start = q.start
  BY <1>1, <1>2 DEF RequestType
<1>5. req' = [req EXCEPT ![r] = n]
  BY <1>1 DEF FillCache
<1>6. Moves(r, n)
  BY <1>3, <1>5, MoveType DEF Moves, OrgTypeOK
<1>7. q.pc = "fill" /\ Young(q) /\ Supplied(q) /\ Backed(q)
  BY <1>1 DEF FillCache, Requested
<1>8. Young(n)'
  BY <1>0, <1>2, <1>4, <1>7 DEF Young
<1>9. Supplied(n)
  BY <1>3, <1>4, <1>7 DEF Supplied, Operations
<1>10. Backed(n)'
  <2>1. n.org \in Orgs /\ n.actor \in Users /\ n.start \in Nat
    BY <1>3, <1>9 DEF Supplied, RequestType, Operations
  <2>2. MemberAt(n.org, n.actor, n.start) /\ n.start <= clock /\ clock <= n.start + Latency
    BY <1>4, <1>7, <2>1, Constants DEF Backed, Young
  <2>3. n.bound - CacheTTL - Latency \in Int /\ n.bound - CacheTTL - Latency <= n.start
    BY <1>2, <1>4, <2>1, <2>2, Constants
  <2>4. MemberAt(n.org, n.actor, n.bound - CacheTTL - Latency)
    BY <2>1, <2>2, <2>3, MemberEarlier
  <2>5. MemberAt(n.org, n.actor, n.bound - CacheTTL - Latency)'
    BY <1>0, <1>2, <1>4, <2>1, <2>2, <2>3, <2>4, MemberStays
  <2> QED BY <1>3, <2>5 DEF Backed, Operations
<1> QED BY <1>0, <1>6, <1>8, <1>9, <1>10, OthersKeep DEF Moves, Requested

LEMMA StepRequests ==
    ASSUME OrgInv, NEW r \in Requests, Step(r)
    PROVE  Requested' /\ req' \in [Requests -> RequestType]
<1>0. clock' = clock /\ [OrgNext]_orgVars
  BY DEF Step, ResolveOrg, FillCache, Serve, ReadTarget, CountOthers, DropOrphan, CreateMember,
         ReadMember, CountAdmins, SetRole, DeleteMember, Invalidate, OrgNext
<1>1. CASE ~ResolveOrg(r) /\ ~FillCache(r)
  <2>1. PICK n \in RequestType : Moves(r, n) /\ Later(req[r], n)
    BY <1>1, LaterSteps
  <2>2. PICK q : q = req[r]
    OBVIOUS
  <2>3. q \in RequestType /\ Young(q) /\ Backed(q) /\ Supplied(q)
    BY <2>2 DEF OrgInv, OrgTypeOK, Requested
  <2>4. Young(n)' /\ Backed(n)' /\ Supplied(n)
    <3>1. CASE n = NoRequest
      BY <3>1, NoRequestType DEF Young, Backed, Supplied
    <3>2. CASE n # NoRequest
      <4>1. /\ SameCall(q, n) /\ n.pc \notin {"idle", "resolve", "fill"}
            /\ n.pc = "drop" => n.solo \in Orgs
            /\ q.pc \notin {"idle", "resolve"}
        BY <2>1, <2>2, <3>2 DEF Later
      <4>2. Young(n)'
        BY <1>0, <2>3, <4>1 DEF Young, SameCall
      <4>3. Supplied(n)
        BY <2>3, <4>1 DEF Supplied, SameCall
      <4>4. ASSUME n.org # NoOrg PROVE MemberAt(n.org, n.actor, n.bound - CacheTTL - Latency)'
        <5>1. MemberAt(n.org, n.actor, n.bound - CacheTTL - Latency)
          BY <2>3, <4>1, <4>4 DEF Backed, SameCall
        <5>2. n.org \in Orgs /\ n.actor \in Users /\ n.bound \in Nat
          BY <4>1, <4>3, <4>4 DEF Supplied, RequestType
        <5>3. n.bound <= clock /\ clock \in Nat
          BY <2>3, <4>1 DEF Young, SameCall, OrgInv, OrgTypeOK
        <5>4. n.bound - CacheTTL - Latency \in Int /\ n.bound - CacheTTL - Latency <= clock
          BY <5>2, <5>3, Constants
        <5> QED BY <1>0, <5>1, <5>2, <5>4, MemberStays DEF OrgInv
      <4>5. Backed(n)'
        BY <4>1, <4>4 DEF Backed
      <4> QED BY <4>2, <4>3, <4>5
    <3> QED BY <3>1, <3>2
  <2> QED BY <1>0, <2>1, <2>4, OthersKeep DEF Moves, Requested
<1> QED BY <1>1, ResolveRequest, FillRequest

LEMMA CallRequests ==
    ASSUME OrgInv, NEW r \in Requests, NEW i \in Instances, NEW c \in Calls, Call(r, i, c)
    PROVE  Requested' /\ req' \in [Requests -> RequestType]
<1> USE DEF OrgInv
<1>0. clock' = clock /\ [OrgNext]_orgVars /\ clock \in Nat
  BY DEF Call, OrgNext, OrgTypeOK
<1>1. c.actor \in Users /\ c.target \in Users /\ c.op \in Operations /\ c.role \in Roles
  BY OrganizationAssumption DEF OrganizationAssumption
<1>2. PICK e : e = cache[i][c.actor]
  OBVIOUS
<1>3. e.org \in Orgs \cup {NoOrg} /\ e.expires \in Nat
  BY <1>1, <1>2 DEF OrgTypeOK
<1>4. PICK pc, o : /\ pc = IF Fresh(e) THEN c.op ELSE "resolve"
                   /\ o = IF Fresh(e) THEN e.org ELSE NoOrg
  OBVIOUS
<1>5. pc \in Steps \ {"idle", "fill", "drop"} /\ o \in Orgs \cup {NoOrg}
  BY <1>1, <1>3, <1>4 DEF Steps, Operations
<1>6. PICK n : n = [pc |-> pc, op |-> c.op, inst |-> i, actor |-> c.actor, target |-> c.target,
                    role |-> c.role, org |-> o, others |-> {}, solo |-> NoOrg,
                    start |-> clock, bound |-> clock, fresh |-> TRUE]
  OBVIOUS
<1>7. n \in RequestType
  BY <1>0, <1>1, <1>5, <1>6 DEF RequestType
<1>8. req' = [req EXCEPT ![r] = n]
  BY <1>2, <1>4, <1>6 DEF Call
<1>9. Moves(r, n)
  BY <1>7, <1>8, MoveType DEF Moves, OrgTypeOK
<1>10. Young(n)'
  BY <1>0, <1>6, Constants DEF Young
<1>11. Supplied(n)
  <2>1. pc = "resolve" <=> o = NoOrg
    BY <1>1, <1>4 DEF Fresh, Operations
  <2> QED BY <1>1, <1>5, <1>6, <2>1 DEF Supplied
<1>12. ASSUME o # NoOrg PROVE MemberAt(o, c.actor, clock - CacheTTL - Latency)'
  <2>1. Fresh(e) /\ o = e.org /\ o \in Orgs
    BY <1>3, <1>4, <1>12
  <2>2. e.expires > clock
    BY <1>0, <1>3, <2>1 DEF Fresh, Expired
  <2>3. MemberAt(o, c.actor, e.expires - CacheTTL - Latency)
    BY <1>1, <1>2, <1>12, <2>1 DEF Entries
  <2>4. /\ e.expires - CacheTTL - Latency \in Int /\ clock - CacheTTL - Latency \in Int
        /\ clock - CacheTTL - Latency <= e.expires - CacheTTL - Latency
        /\ clock - CacheTTL - Latency <= clock
    BY <1>0, <1>3, <2>2, Constants
  <2>5. MemberAt(o, c.actor, clock - CacheTTL - Latency)
    BY <1>1, <2>1, <2>3, <2>4, MemberEarlier
  <2>6. \A t \in Int : t <= clock /\ MemberAt(o, c.actor, t) => MemberAt(o, c.actor, t)'
    BY <1>0, <1>1, <2>1, MemberStays
  <2>7. members' = members /\ left' = left
    BY DEF Call
  <2> QED BY <1>0, <2>5, <2>7 DEF MemberAt, RowOf
<1>13. Backed(n)'
  <2>1. n.pc = pc /\ n.org = o /\ n.actor = c.actor /\ n.bound = clock
    BY <1>6
  <2> QED BY <1>0, <1>5, <1>12, <2>1 DEF Backed
<1> QED BY <1>0, <1>9, <1>10, <1>11, <1>13, OthersKeep DEF Moves, Requested

LEMMA RestartRequests ==
    ASSUME OrgInv, NEW i \in Instances, Restart(i)
    PROVE  Requested' /\ req' \in [Requests -> RequestType]
<1> USE DEF OrgInv
<1>1. clock' = clock /\ members' = members /\ left' = left
  BY DEF Restart
<1>2. \A s \in Requests : req'[s] = req[s] \/ req'[s] = NoRequest
  BY DEF Restart
<1>3. req' \in [Requests -> RequestType]
  BY NoRequestType DEF Restart, OrgTypeOK
<1>4. ASSUME NEW s \in Requests PROVE (Young(req[s]) /\ Backed(req[s]) /\ Supplied(req[s]))'
  <2>1. PICK n : n = req'[s]
    OBVIOUS
  <2>2. Young(n) /\ Backed(n) /\ Supplied(n)
    BY <1>2, <2>1, NoRequestType DEF Requested, Young, Backed, Supplied
  <2>3. Young(n)' /\ Backed(n)'
    BY <1>1, <2>2 DEF Young, Backed, MemberAt, RowOf
  <2> QED BY <2>1, <2>2, <2>3
<1> QED BY <1>3, <1>4 DEF Requested

LEMMA TickRequests ==
    ASSUME OrgInv, Tick
    PROVE  Requested' /\ req' \in [Requests -> RequestType]
<1> USE DEF OrgInv
<1>1. clock' = clock + 1 /\ members' = members /\ left' = left /\ req' = req /\ clock \in Nat
  BY DEF Tick, OrgTypeOK
<1>2. ASSUME NEW s \in Requests PROVE (Young(req[s]) /\ Backed(req[s]) /\ Supplied(req[s]))'
  <2>1. PICK n : n = req[s]
    OBVIOUS
  <2>2. Young(n) /\ Backed(n) /\ Supplied(n) /\ n \in RequestType
    BY <2>1 DEF Requested, OrgTypeOK
  <2>3. n.pc # "idle" => clock < n.start + Latency
    BY <2>1 DEF Tick, Idle
  <2>4. n.start \in Nat /\ n.bound \in Nat
    BY <2>2 DEF RequestType
  <2>5. Young(n)'
    BY <1>1, <2>2, <2>3, <2>4, Constants DEF Young
  <2>6. Backed(n)'
    BY <1>1, <2>2 DEF Backed, MemberAt, RowOf
  <2> QED BY <1>1, <2>1, <2>2, <2>5, <2>6
<1> QED BY <1>1, <1>2 DEF Requested, OrgTypeOK

LEMMA NextRequests ==
    ASSUME OrgInv, [OrgNext]_orgVars
    PROVE  Requested' /\ req' \in [Requests -> RequestType]
<1>1. CASE UNCHANGED orgVars
  BY <1>1 DEF orgVars, OrgInv, OrgTypeOK, Requested, Young, Backed, Supplied, MemberAt, RowOf
<1> QED BY <1>1, StepRequests, CallRequests, RestartRequests, TickRequests DEF OrgNext

-----------------------------------------------------------------------------
(* The caches. *)

LEMMA EntriesKept ==
    ASSUME OrgInv, [OrgNext]_orgVars, cache' = cache, clock' = clock
    PROVE  Entries'
<1> SUFFICES ASSUME NEW i \in Instances, NEW u \in Users, cache[i][u].org # NoOrg
             PROVE  /\ cache[i][u].expires <= clock + CacheTTL
                    /\ MemberAt(cache[i][u].org, u, cache[i][u].expires - CacheTTL - Latency)'
  BY DEF Entries
<1>1. PICK e : e = cache[i][u]
  OBVIOUS
<1>2. e.org \in Orgs /\ e.expires \in Nat /\ clock \in Nat
  BY <1>1 DEF OrgInv, OrgTypeOK
<1>3. e.expires <= clock + CacheTTL /\ MemberAt(e.org, u, e.expires - CacheTTL - Latency)
  BY <1>1 DEF OrgInv, Entries
<1>4. e.expires - CacheTTL - Latency \in Int /\ e.expires - CacheTTL - Latency <= clock
  BY <1>2, <1>3, Constants
<1>5. MemberAt(e.org, u, e.expires - CacheTTL - Latency)'
  BY <1>2, <1>3, <1>4, MemberStays DEF OrgInv
<1> QED BY <1>1, <1>3, <1>5

LEMMA NextEntries ==
    ASSUME OrgInv, [OrgNext]_orgVars
    PROVE  Entries' /\ cache' \in [Instances -> [Users -> [org : Orgs \cup {NoOrg}, expires : Nat]]]
<1> USE DEF OrgInv
<1>0. NoEntry \in [org : Orgs \cup {NoOrg}, expires : Nat] /\ NoEntry.org = NoOrg
  BY DEF NoEntry
<1>1. cache \in [Instances -> [Users -> [org : Orgs \cup {NoOrg}, expires : Nat]]] /\ clock \in Nat
  BY DEF OrgTypeOK
<1>2. CASE cache' = cache /\ clock' = clock
  BY <1>1, <1>2, EntriesKept
<1>3. ASSUME NEW r \in Requests, FillCache(r)
      PROVE  Entries' /\ cache' \in [Instances -> [Users -> [org : Orgs \cup {NoOrg}, expires : Nat]]]
  <2>1. PICK q : q = req[r]
    OBVIOUS
  <2>2. q.pc = "fill" /\ q \in RequestType /\ Young(q) /\ Backed(q) /\ Supplied(q)
    BY <1>3, <2>1 DEF FillCache, Requested, OrgTypeOK
  <2>3. q.inst \in Instances /\ q.actor \in Users /\ q.org \in Orgs /\ q.start \in Nat
    BY <2>2 DEF Supplied, RequestType
  <2>4. PICK e : e = [org |-> q.org, expires |-> clock + CacheTTL]
    OBVIOUS
  <2>5. e \in [org : Orgs \cup {NoOrg}, expires : Nat] /\ e.org = q.org
        /\ e.expires = clock + CacheTTL
    BY <1>1, <2>3, <2>4, Constants
  <2>6. cache' = [cache EXCEPT ![q.inst][q.actor] = e]
    BY <1>3, <2>1, <2>4 DEF FillCache
  <2>7. MemberAt(q.org, q.actor, clock - Latency)
    <3>1. MemberAt(q.org, q.actor, q.start) /\ clock <= q.start + Latency
      BY <2>2, <2>3, Constants DEF Backed, Young
    <3>2. clock - Latency \in Int /\ clock - Latency <= q.start
      BY <1>1, <2>3, <3>1, Constants
    <3> QED BY <2>3, <3>1, <3>2, MemberEarlier
  <2>8. e.expires - CacheTTL - Latency = clock - Latency
    BY <1>1, <2>5, Constants
  <2>9. /\ UNCHANGED <<members, left, clock>>
    BY <1>3 DEF FillCache
  <2>10. cache' \in [Instances -> [Users -> [org : Orgs \cup {NoOrg}, expires : Nat]]]
    BY <1>1, <2>3, <2>5, <2>6
  <2>11. ASSUME NEW i \in Instances, NEW u \in Users, cache'[i][u].org # NoOrg
         PROVE  /\ cache'[i][u].expires <= clock + CacheTTL
                /\ MemberAt(cache'[i][u].org, u, cache'[i][u].expires - CacheTTL - Latency)
    <3>1. CASE i = q.inst /\ u = q.actor
      <4>1. cache'[i][u] = e
        BY <1>1, <2>3, <2>6, <3>1
      <4> QED BY <1>1, <2>5, <2>7, <2>8, <3>1, <4>1, Constants
    <3>2. CASE ~(i = q.inst /\ u = q.actor)
      <4>1. cache'[i][u] = cache[i][u]
        BY <1>1, <2>3, <2>6, <3>2
      <4> QED BY <2>11, <4>1 DEF Entries
    <3> QED BY <3>1, <3>2
  <2>12. Entries'
    BY <2>9, <2>11 DEF Entries, MemberAt, RowOf
  <2> QED BY <2>10, <2>12
<1>4. ASSUME UNCHANGED <<members, left>>, clock' \in Nat, clock <= clock',
             cache' \in [Instances -> [Users -> [org : Orgs \cup {NoOrg}, expires : Nat]]],
             \A i \in Instances, u \in Users :
               cache'[i][u] = cache[i][u] \/ cache'[i][u] = NoEntry
      PROVE  Entries'
  <2>1. ASSUME NEW i \in Instances, NEW u \in Users, cache'[i][u].org # NoOrg
        PROVE  /\ cache'[i][u].expires <= clock' + CacheTTL
               /\ MemberAt(cache'[i][u].org, u, cache'[i][u].expires - CacheTTL - Latency)
    <3>1. cache'[i][u] = cache[i][u]
      BY <1>0, <1>4, <2>1
    <3>2. PICK e : e = cache[i][u]
      OBVIOUS
    <3>3. e.expires \in Nat /\ e.expires <= clock + CacheTTL
      BY <1>1, <2>1, <3>1, <3>2 DEF Entries
    <3>4. e.expires <= clock' + CacheTTL
      BY <1>1, <1>4, <3>3, Constants
    <3> QED BY <2>1, <3>1, <3>2, <3>4 DEF Entries
  <2> QED BY <1>4, <2>1 DEF Entries, MemberAt, RowOf
<1>5. ASSUME NEW r \in Requests, Invalidate(r)
      PROVE  Entries' /\ cache' \in [Instances -> [Users -> [org : Orgs \cup {NoOrg}, expires : Nat]]]
  <2>1. PICK j, t : cache' = [cache EXCEPT ![j][t] = NoEntry]
    BY <1>5 DEF Invalidate
  <2>2. \A i \in Instances, u \in Users : cache'[i][u] = cache[i][u] \/ cache'[i][u] = NoEntry
    BY <1>1, <2>1
  <2>3. cache' \in [Instances -> [Users -> [org : Orgs \cup {NoOrg}, expires : Nat]]]
    BY <1>0, <1>1, <2>1
  <2> QED BY <1>1, <1>4, <1>5, <2>2, <2>3 DEF Invalidate
<1>6. ASSUME NEW i \in Instances, Restart(i)
      PROVE  Entries' /\ cache' \in [Instances -> [Users -> [org : Orgs \cup {NoOrg}, expires : Nat]]]
  BY <1>0, <1>1, <1>4, <1>6 DEF Restart
<1>7. CASE Tick
  <2>1. \A i \in Instances, u \in Users : cache'[i][u] = cache[i][u] \/ cache'[i][u] = NoEntry
    BY <1>1, <1>7 DEF Tick
  <2>2. cache' \in [Instances -> [Users -> [org : Orgs \cup {NoOrg}, expires : Nat]]]
    BY <1>0, <1>1, <1>7 DEF Tick
  <2>3. clock' \in Nat /\ clock <= clock' /\ UNCHANGED <<members, left>>
    BY <1>1, <1>7 DEF Tick
  <2> QED BY <1>4, <2>1, <2>2, <2>3
<1>8. ASSUME NEW r \in Requests, Step(r), ~FillCache(r), ~Invalidate(r)
      PROVE  cache' = cache /\ clock' = clock
  BY <1>8 DEF Step, ResolveOrg, Serve, ReadTarget, CountOthers, DropOrphan, CreateMember,
              ReadMember, CountAdmins, SetRole, DeleteMember
<1>9. ASSUME NEW r \in Requests, Step(r)
      PROVE  Entries' /\ cache' \in [Instances -> [Users -> [org : Orgs \cup {NoOrg}, expires : Nat]]]
  BY <1>2, <1>3, <1>5, <1>8, <1>9
<1>10. ASSUME NEW r \in Requests, NEW i \in Instances, NEW c \in Calls, Call(r, i, c)
       PROVE  cache' = cache /\ clock' = clock
  BY <1>10 DEF Call
<1>11. CASE UNCHANGED orgVars
  BY <1>2, <1>11 DEF orgVars
<1>12. ASSUME NEW r \in Requests, NEW i \in Instances, NEW c \in Calls, Call(r, i, c)
       PROVE  Entries' /\ cache' \in [Instances -> [Users -> [org : Orgs \cup {NoOrg}, expires : Nat]]]
  BY <1>2, <1>10, <1>12
<1> QED BY <1>6, <1>7, <1>9, <1>11, <1>12 DEF OrgNext

-----------------------------------------------------------------------------
(* The table. *)

TableType ==
    /\ orgs \subseteq Orgs
    /\ members \subseteq Row /\ IsFiniteSet(members)
    /\ \A m \in members : m.org \in orgs
    /\ \A m, n \in members : m.org = n.org /\ m.user = n.user => m = n

HistoryType ==
    /\ left \in [Orgs -> [Users -> Nat \cup {Never}]]
    /\ late \subseteq Orgs \cup Users \cup {NoUser}

LEMMA FewerRows ==
    ASSUME TableType, NEW rows, rows \subseteq members, members' = rows,
           orgs' \subseteq orgs, \A m \in rows : m.org \in orgs'
    PROVE  TableType'
<1>1. IsFiniteSet(rows)
  BY FS_Subset DEF TableType
<1> QED BY <1>1 DEF TableType

LEMMA CreateRows ==
    ASSUME OrgInv, NEW r \in Requests, CreateMember(r)
    PROVE  TableType'
<1> USE DEF OrgInv
<1>1. TableType /\ orgs' = orgs
  BY DEF OrgTypeOK, TableType, CreateMember
<1>2. CASE UNCHANGED members
  BY <1>1, <1>2 DEF TableType
<1>3. CASE ~UNCHANGED members
  <2>1. PICK q : q = req[r]
    OBVIOUS
  <2>2. q \in RequestType /\ Supplied(q) /\ q.pc = "create"
    BY <2>1 DEF OrgTypeOK, Requested, CreateMember
  <2>3. q.org \in Orgs /\ q.target \in Users /\ q.role \in Roles
    BY <2>2 DEF Supplied, RequestType
  <2>4. PICK k : k = Cardinality(MembershipsOf(q.target))
    OBVIOUS
  <2>5. k \in Nat
    <3>1. MembershipsOf(q.target) \subseteq members
      BY DEF MembershipsOf
    <3> QED BY <1>1, <2>4, <3>1, FS_Subset, FS_CardinalityType DEF TableType
  <2>6. PICK row : row = [org |-> q.org, user |-> q.target, role |-> q.role, since |-> k]
    OBVIOUS
  <2>7. members' = members \cup {row} /\ Insertable(row)
    BY <1>3, <2>1, <2>4, <2>6 DEF CreateMember
  <2>8. row \in Row
    BY <2>3, <2>5, <2>6 DEF Row
  <2>9. IsFiniteSet(members')
    BY <1>1, <2>7, FS_AddElement DEF TableType
  <2>10. row.org \in orgs /\ \A m \in members : ~(m.org = row.org /\ m.user = row.user)
    BY <2>7 DEF Insertable, RowOf
  <2> QED BY <1>1, <2>7, <2>8, <2>9, <2>10 DEF TableType
<1> QED BY <1>2, <1>3

LEMMA RoleRows ==
    ASSUME OrgInv, NEW r \in Requests, SetRole(r)
    PROVE  TableType'
<1> USE DEF OrgInv
<1>1. TableType /\ orgs' = orgs
  BY DEF OrgTypeOK, TableType, SetRole
<1>2. CASE UNCHANGED members
  BY <1>1, <1>2 DEF TableType
<1>3. CASE ~UNCHANGED members
  <2>1. PICK role : role = req[r].role
    OBVIOUS
  <2>2. role \in Roles
    BY <2>1 DEF OrgTypeOK, RequestType
  <2>3. PICK old : old = RowOf(req[r].org, req[r].target)
    OBVIOUS
  <2>4. PICK new : new = {[m EXCEPT !.role = role] : m \in old}
    OBVIOUS
  <2>5. members' = (members \ old) \cup new
    BY <1>3, <2>1, <2>3, <2>4 DEF SetRole
  <2>6. old \subseteq members /\ \A m \in old : m.org = req[r].org /\ m.user = req[r].target
    BY <2>3 DEF RowOf
  <2>7. \A m \in Row : /\ [m EXCEPT !.role = role] \in Row
                       /\ [m EXCEPT !.role = role].org = m.org
                       /\ [m EXCEPT !.role = role].user = m.user
    BY <2>2 DEF Row
  <2>8. \A n \in new : /\ n \in Row /\ n.org \in orgs
                       /\ n.org = req[r].org /\ n.user = req[r].target
    <3>1. members \subseteq Row /\ \A m \in members : m.org \in orgs
      BY <1>1 DEF TableType
    <3> SUFFICES ASSUME NEW m \in old
                 PROVE  LET n == [m EXCEPT !.role = role]
                        IN /\ n \in Row /\ n.org \in orgs
                           /\ n.org = req[r].org /\ n.user = req[r].target
      BY <2>4
    <3>2. m \in Row /\ m.org \in orgs /\ m.org = req[r].org /\ m.user = req[r].target
      BY <2>6, <3>1
    <3> QED BY <2>7, <3>2
  <2>10. \A m, n \in old : m = n
    BY <1>1, <2>6 DEF TableType
  <2>9. IsFiniteSet(members')
    <3>1. IsFiniteSet(members \ old)
      BY <1>1, FS_Subset DEF TableType
    <3>2. CASE old = {}
      <4>1. new = {}
        BY <2>4, <3>2
      <4> QED BY <2>5, <3>1, <4>1, FS_EmptySet, FS_Union
    <3>3. CASE old # {}
      <4>1. PICK m \in old : TRUE
        BY <3>3
      <4>2. PICK n : n = [m EXCEPT !.role = role]
        OBVIOUS
      <4>3. new = {n}
        BY <2>4, <2>10, <4>1, <4>2
      <4> QED BY <2>5, <3>1, <4>3, FS_Singleton, FS_Union
    <3> QED BY <3>2, <3>3
  <2>11. \A m, n \in new : m = n
    BY <2>4, <2>10
  <2>12. \A m \in members \ old : ~(m.org = req[r].org /\ m.user = req[r].target)
    BY <2>3 DEF RowOf
  <2> QED BY <1>1, <2>5, <2>8, <2>9, <2>11, <2>12 DEF TableType
<1> QED BY <1>2, <1>3

LEMMA NextTable ==
    ASSUME OrgInv, [OrgNext]_orgVars
    PROVE  TableType'
<1>0. TableType
  BY DEF OrgInv, OrgTypeOK, TableType
<1>1. CASE UNCHANGED <<orgs, members>>
  BY <1>0, <1>1 DEF TableType
<1>2. ASSUME NEW r \in Requests, DropOrphan(r) PROVE TableType'
  <2>1. CASE UNCHANGED <<orgs, members>>
    BY <1>1, <2>1
  <2>2. CASE ~UNCHANGED <<orgs, members>>
    <3>1. orgs' = orgs \ {req[r].solo} /\ members' = members \ MembersOf(req[r].solo)
      BY <1>2, <2>2 DEF DropOrphan
    <3>2. \A m \in members' : m.org \in orgs'
      BY <1>0, <3>1 DEF TableType, MembersOf
    <3> QED BY <1>0, <3>1, <3>2, FewerRows
  <2> QED BY <2>1, <2>2
<1>3. ASSUME NEW r \in Requests, DeleteMember(r) PROVE TableType'
  <2>1. orgs' = orgs /\ members' \subseteq members
    BY <1>3 DEF DeleteMember
  <2> QED BY <1>0, <2>1, FewerRows DEF TableType
<1>4. ASSUME NEW r \in Requests, Step(r) PROVE TableType'
  BY <1>1, <1>2, <1>3, <1>4, CreateRows, RoleRows
     DEF Step, ResolveOrg, FillCache, Serve, ReadTarget, CountOthers, ReadMember, CountAdmins, Invalidate
<1> QED BY <1>1, <1>4 DEF OrgNext, Call, Restart, Tick, orgVars

LEMMA NextHistory ==
    ASSUME OrgInv, [OrgNext]_orgVars
    PROVE  HistoryType'
<1> USE DEF OrgInv
<1>0. HistoryType /\ clock \in Nat
  BY DEF OrgTypeOK, HistoryType
<1>1. left' \in [Orgs -> [Users -> Nat \cup {Never}]]
  <2>1. CASE LeftRule
    BY <1>0, <2>1 DEF LeftRule, HistoryType
  <2> QED BY <1>0, <2>1, NextRows DEF HistoryType
<1>2. ASSUME NEW r \in Requests, NEW touched, NEW mine, Written(r, touched, mine),
             touched \subseteq members
      PROVE  late' \subseteq Orgs \cup Users \cup {NoUser}
  <2>1. req[r].target \in Users \cup {NoUser} /\ \A t \in touched : t.org \in Orgs
    BY <1>2 DEF OrgTypeOK, RequestType, Row
  <2> QED BY <1>0, <1>2, <2>1 DEF Written, HistoryType
<1>3. ASSUME NEW r \in Requests, CreateMember(r), ~UNCHANGED late
      PROVE  late' \subseteq Orgs \cup Users \cup {NoUser}
  <2>1. PICK new, mine : Written(r, {new}, mine) /\ new.org = req[r].org /\ new.org \in orgs
    BY <1>3 DEF CreateMember, Insertable
  <2>2. req[r].target \in Users \cup {NoUser} /\ new.org \in Orgs
    BY <2>1 DEF OrgTypeOK, RequestType
  <2> QED BY <1>0, <2>1, <2>2 DEF Written, HistoryType
<1>4. ASSUME NEW r \in Requests, DropOrphan(r) \/ SetRole(r) \/ DeleteMember(r), ~UNCHANGED late
      PROVE  late' \subseteq Orgs \cup Users \cup {NoUser}
  <2>1. MembersOf(req[r].solo) \subseteq members /\ RowOf(req[r].org, req[r].target) \subseteq members
    BY DEF MembersOf, RowOf
  <2>2. CASE DropOrphan(r)
    <3>1. \E mine : Written(r, MembersOf(req[r].solo), mine)
      BY <1>4, <2>2 DEF DropOrphan
    <3> QED BY <1>2, <2>1, <3>1
  <2>3. CASE SetRole(r) \/ DeleteMember(r)
    <3>1. \E mine : Written(r, RowOf(req[r].org, req[r].target), mine)
      BY <1>4, <2>3 DEF SetRole, DeleteMember
    <3> QED BY <1>2, <2>1, <3>1
  <2> QED BY <1>4, <2>2, <2>3
<1>5. CASE UNCHANGED late
  BY <1>0, <1>1, <1>5 DEF HistoryType
<1>6. ASSUME NEW r \in Requests, Step(r) PROVE HistoryType'
  BY <1>1, <1>3, <1>4, <1>5, <1>6
     DEF HistoryType, Step, ResolveOrg, FillCache, Serve, ReadTarget, CountOthers, ReadMember,
         CountAdmins, Invalidate
<1> QED BY <1>5, <1>6 DEF OrgNext, Call, Restart, Tick, orgVars

-----------------------------------------------------------------------------
(* The theorems. *)

LEMMA InitInv == OrgInit => OrgInv
<1> SUFFICES ASSUME OrgInit PROVE OrgInv
  OBVIOUS
<1>1. members \in Seeds /\ orgs = Orgs
  BY DEF OrgInit
<1>2. members \subseteq Row /\ IsFiniteSet(members)
  BY <1>1, OrganizationAssumption DEF OrganizationAssumption
<1>3. \A m, n \in members : m.user = n.user => m = n
  BY <1>1, OrganizationAssumption DEF OrganizationAssumption
<1>4. req \in [Requests -> RequestType] /\ \A r \in Requests : req[r] = NoRequest
  BY NoRequestType DEF OrgInit
<1>5. cache \in [Instances -> [Users -> [org : Orgs \cup {NoOrg}, expires : Nat]]]
  BY DEF OrgInit, NoEntry
<1>6. OrgTypeOK
  BY <1>1, <1>2, <1>3, <1>4, <1>5 DEF OrgTypeOK, OrgInit, Row
<1>7. Entries
  BY DEF Entries, OrgInit, NoEntry
<1>8. Requested
  BY <1>4, NoRequestType DEF Requested, Young, Backed, Supplied
<1> QED BY <1>6, <1>7, <1>8 DEF OrgInv

LEMMA NextInv == OrgInv /\ [OrgNext]_orgVars => OrgInv'
<1> SUFFICES ASSUME OrgInv, [OrgNext]_orgVars PROVE OrgInv'
  OBVIOUS
<1>1. (clock \in Nat /\ uses \in Nat /\ changes \in Nat /\ restarts \in Nat)'
  <2>1. clock \in Nat /\ uses \in Nat /\ changes \in Nat /\ restarts \in Nat
    BY DEF OrgInv, OrgTypeOK
  <2>2. ASSUME NEW r \in Requests, Step(r) PROVE UNCHANGED <<clock, counts>>
    BY <2>2 DEF Step, ResolveOrg, FillCache, Serve, ReadTarget, CountOthers, DropOrphan,
                CreateMember, ReadMember, CountAdmins, SetRole, DeleteMember, Invalidate
  <2> QED BY <2>1, <2>2 DEF OrgNext, Call, Restart, Tick, orgVars, counts
<1>2. OrgTypeOK'
  BY <1>1, NextTable, NextHistory, NextRequests, NextEntries
     DEF OrgTypeOK, TableType, HistoryType
<1> QED BY <1>2, NextRequests, NextEntries DEF OrgInv

(* The organizations, the rows of the table, the caches and the requests have *)
(* the types they should have; there is at most one row for a pair and none   *)
(* of an organization that was deleted.                                       *)
THEOREM OrgTypes == OrgSpec => []OrgTypeOK
<1>1. OrgInv => OrgTypeOK
  BY DEF OrgInv
<1> QED BY <1>1, InitInv, NextInv, PTL DEF OrgSpec

(* No request works in an organization that its caller left longer ago than   *)
(* the life of a cache entry and of a lookup, however many instances there    *)
(* are and whichever of them are told of the removal (requireOrgId).          *)
THEOREM OrgStaleBounded == OrgSpec => []StaleBounded
<1>1. OrgInv => StaleBounded
  BY DEF OrgInv, Requested, Backed, StaleBounded, Idle
<1> QED BY <1>1, InitInv, NextInv, PTL DEF OrgSpec

-----------------------------------------------------------------------------
(***************************************************************************)
(* What a request read is what the table holds, as long as nobody wrote    *)
(* over it.  The orphans of a user are among the organizations he is in,   *)
(* and a role is taken only where another admin stays.                     *)
(***************************************************************************)
OrgsOf(u) == {m.org : m \in MembershipsOf(u)}

Spares(q) ==
    \/ q.pc = "setRole" /\ q.role = "ADMIN"
    \/ \A m \in AdminsOf(q.org) :
         m.user = q.target => \E n \in AdminsOf(q.org) : n.user # q.target

Sound(q) ==
    q.fresh =>
      /\ q.pc \in {"others", "drop", "create"} => q.others = OrgsOf(q.target)
      /\ q.pc = "create" => q.others = {}
      /\ q.pc = "drop" => /\ q.solo \in q.others /\ OwnerOf[q.solo] = q.target
                          /\ \A m \in MembersOf(q.solo) : m.user = q.target
      /\ q.pc \in {"setRole", "delete"} /\ q.op # "add" => Spares(q)

Named(q) ==
    /\ q.pc \in Operations => q.op = q.pc
    /\ q.pc = "delete" => q.op = "remove"

KeptInv ==
    /\ OrgInv /\ MembershipKept
    /\ \A r \in Requests : Sound(req[r]) /\ Named(req[r])

(* Rows come and go only for the pairs that a write touches. *)
Touches(touched) ==
    \A m \in Row :
       (m \in members) # (m \in members') => \E t \in touched : t.org = m.org /\ t.user = m.user

LEMMA Untouched ==
    ASSUME OrgTypeOK, members' \subseteq Row, NEW touched, Touches(touched)
    PROVE  /\ \A o : (\A t \in touched : t.org # o) =>
                        MembersOf(o)' = MembersOf(o) /\ AdminsOf(o)' = AdminsOf(o)
           /\ \A u : (\A t \in touched : t.user # u) =>
                        MembershipsOf(u)' = MembershipsOf(u) /\ OrgsOf(u)' = OrgsOf(u)
<1>1. members \subseteq Row
  BY DEF OrgTypeOK
<1>2. ASSUME NEW o, \A t \in touched : t.org # o
      PROVE  MembersOf(o)' = MembersOf(o) /\ AdminsOf(o)' = AdminsOf(o)
  BY <1>1, <1>2 DEF Touches, MembersOf, AdminsOf
<1>3. ASSUME NEW u, \A t \in touched : t.user # u
      PROVE  MembershipsOf(u)' = MembershipsOf(u) /\ OrgsOf(u)' = OrgsOf(u)
  BY <1>1, <1>3 DEF Touches, MembershipsOf, OrgsOf
<1> QED BY <1>2, <1>3

LEMMA UntouchedSound ==
    ASSUME OrgTypeOK, members' \subseteq Row, NEW touched, Touches(touched),
           NEW q \in RequestType, Sound(q), ~Overtaken(q, touched)
    PROVE  Sound(q)'
<1> SUFFICES ASSUME q.fresh, q.pc \in {"others", "drop", "create", "setRole", "delete"}
             PROVE  Sound(q)'
  BY DEF Sound
<1>1. \A t \in touched : t.org \notin q.others /\ t.org # q.org /\ t.user # q.target
  BY DEF Overtaken
<1>2. OrgsOf(q.target)' = OrgsOf(q.target) /\ AdminsOf(q.org)' = AdminsOf(q.org)
  BY <1>1, Untouched
<1>3. ASSUME q.pc = "drop" PROVE MembersOf(q.solo)' = MembersOf(q.solo)
  BY <1>1, <1>3, Untouched DEF Sound
<1>4. q.others = OrgsOf(q.target) => q.others = OrgsOf(q.target)'
  BY <1>2
<1>5. Spares(q) => Spares(q)'
  BY <1>2 DEF Spares
<1> QED BY <1>2, <1>3, <1>5 DEF Sound

LEMMA NoRequestSound == Sound(NoRequest) /\ Named(NoRequest)
BY DEF NoRequest, Sound, Named, Operations

(* A step that writes nothing: the other requests stay as sound as they were. *)
LEMMA QuietSound ==
    ASSUME KeptInv, UNCHANGED <<orgs, members, late>>, NEW r \in Requests, NEW n \in RequestType,
           req' = [req EXCEPT ![r] = n], Sound(n), Named(n)
    PROVE  /\ MembershipKept'
           /\ \A s \in Requests : (Sound(req[s]) /\ Named(req[s]))'
<1>1. MembershipKept'
  BY DEF KeptInv, MembershipKept, AdminKept, SingleOrg, AdminsOf, MembersOf
<1>2. \A q \in RequestType : Sound(q) => Sound(q)'
  BY DEF Sound, Spares, OrgsOf, MembershipsOf, MembersOf, AdminsOf
<1>3. req \in [Requests -> RequestType]
  BY DEF KeptInv, OrgInv, OrgTypeOK
<1>4. ASSUME NEW s \in Requests PROVE (Sound(req[s]) /\ Named(req[s]))'
  <2>1. PICK q \in RequestType : q = req'[s] /\ Sound(q) /\ Named(q)
    <3>1. CASE s = r
      BY <1>3, <3>1
    <3>2. CASE s # r
      BY <1>3, <3>2 DEF KeptInv
    <3> QED BY <3>1, <3>2
  <2>2. Sound(q)'
    BY <1>2, <2>1
  <2> QED BY <2>1, <2>2
<1> QED BY <1>1, <1>4

(* A step that writes: who had read what it touches is no longer fresh. *)
LEMMA WriteSound ==
    ASSUME KeptInv, members' \subseteq Row, NEW r \in Requests, NEW touched, NEW n \in RequestType,
           Written(r, touched, n), Touches(touched), Sound(n)', Named(n)
    PROVE  \A s \in Requests : (Sound(req[s]) /\ Named(req[s]))'
<1>1. req \in [Requests -> RequestType] /\ OrgTypeOK
  BY DEF KeptInv, OrgInv, OrgTypeOK
<1>2. req' = [q \in Requests |->
                IF q = r THEN n
                ELSE [req[q] EXCEPT !.fresh = req[q].fresh /\ ~Overtaken(req[q], touched)]]
  BY DEF Written
<1>3. CASE TRUE
  <2> SUFFICES ASSUME NEW s \in Requests PROVE (Sound(req[s]) /\ Named(req[s]))'
    OBVIOUS
  <2>1. CASE s = r
    <3>1. req'[s] = n
      BY <1>2, <2>1
    <3>2. Named(req'[s])
      BY <3>1
    <3>3. Sound(n)'
      OBVIOUS
    <3>4. Sound(req[s])'
      BY <3>1, <3>3
    <3> QED BY <3>2, <3>4
  <2>2. CASE s # r
    <3>1. PICK q \in RequestType : q = req[s]
      BY <1>1
    <3>2. PICK m : m = [q EXCEPT !.fresh = q.fresh /\ ~Overtaken(q, touched)]
      OBVIOUS
    <3>3. req'[s] = m
      BY <1>2, <2>2, <3>1, <3>2
    <3>4. Sound(q) /\ Named(q)
      BY <3>1 DEF KeptInv
    <3>5. m.pc = q.pc /\ m.op = q.op /\ m.fresh = (q.fresh /\ ~Overtaken(q, touched))
      BY <3>1, <3>2 DEF RequestType
    <3>6. Named(m)
      BY <3>4, <3>5 DEF Named
    <3>7. Sound(m)'
      <4>1. CASE ~m.fresh
        BY <4>1 DEF Sound
      <4>2. CASE m.fresh
        <5>1. m = q
          BY <3>1, <3>2, <3>5, <4>2 DEF RequestType
        <5>2. ~Overtaken(q, touched)
          BY <3>5, <4>2
        <5>3. Sound(q)'
          BY <1>1, <3>4, <5>2, UntouchedSound
        <5> QED BY <5>1, <5>3
      <4> QED BY <4>1, <4>2
    <3> QED BY <3>3, <3>6, <3>7
  <2> QED BY <2>1, <2>2
<1> QED BY <1>3

-----------------------------------------------------------------------------
(* The steps that write nothing. *)

LEMMA EndSound ==
    ASSUME KeptInv, UNCHANGED <<orgs, members, late>>, NEW r \in Requests, End(r)
    PROVE  /\ MembershipKept'
           /\ \A s \in Requests : (Sound(req[s]) /\ Named(req[s]))'
BY NoRequestType, NoRequestSound, QuietSound DEF End

LEMMA GotoSound ==
    ASSUME KeptInv, UNCHANGED <<orgs, members, late>>, NEW r \in Requests, NEW pc \in Steps,
           Goto(r, pc), Sound([req[r] EXCEPT !.pc = pc]), Named([req[r] EXCEPT !.pc = pc])
    PROVE  /\ MembershipKept'
           /\ \A s \in Requests : (Sound(req[s]) /\ Named(req[s]))'
<1>1. PICK n : n = [req[r] EXCEPT !.pc = pc]
  OBVIOUS
<1>2. req[r] \in RequestType
  BY DEF KeptInv, OrgInv, OrgTypeOK
<1>3. n \in RequestType
  BY <1>1, <1>2 DEF RequestType
<1>4. req' = [req EXCEPT ![r] = n]
  BY <1>1 DEF Goto
<1> QED BY <1>1, <1>3, <1>4, QuietSound

LEMMA ReadTargetSound ==
    ASSUME KeptInv, NEW r \in Requests, ReadTarget(r)
    PROVE  /\ MembershipKept'
           /\ \A s \in Requests : (Sound(req[s]) /\ Named(req[s]))'
<1>0. UNCHANGED <<orgs, members, late>> /\ req[r].pc = "add"
  BY DEF ReadTarget
<1>1. PICK q \in RequestType : q = req[r]
  BY DEF KeptInv, OrgInv, OrgTypeOK
<1>2. q.pc = "add" /\ q.op = "add"
  BY <1>0, <1>1 DEF KeptInv, Named, Operations
<1>3. CASE End(r)
  BY <1>0, <1>3, EndSound
<1>4. CASE Goto(r, "setRole")
  <2>1. PICK n : n = [q EXCEPT !.pc = "setRole"]
    OBVIOUS
  <2>2. n.pc = "setRole" /\ n.op = "add"
    BY <1>1, <1>2, <2>1 DEF RequestType
  <2>3. Sound(n) /\ Named(n)
    BY <2>2 DEF Sound, Named, Operations
  <2>4. "setRole" \in Steps
    BY DEF Steps
  <2> QED BY <1>0, <1>1, <1>4, <2>1, <2>3, <2>4, GotoSound
<1>5. CASE ~End(r) /\ ~Goto(r, "setRole")
  <2>1. PICK os, pc : /\ os = OtherOrgs(q) /\ pc = (IF os = {} THEN "create" ELSE "others")
                      /\ RowOf(q.org, q.target) = {}
                      /\ req' = [req EXCEPT ![r].others = os, ![r].pc = pc]
    BY <1>1, <1>5 DEF ReadTarget
  <2>2. PICK n : n = [q EXCEPT !.others = os, !.pc = pc]
    OBVIOUS
  <2>3. os = OrgsOf(q.target)
    BY <2>1 DEF OtherOrgs, OrgsOf, RowOf, MembershipsOf
  <2>4. os \subseteq Orgs
    BY <2>3 DEF OrgsOf, MembershipsOf, KeptInv, OrgInv, OrgTypeOK, Row
  <2>5. n \in RequestType
    BY <1>1, <2>1, <2>2, <2>4 DEF RequestType, Steps
  <2>6. n.pc = pc /\ n.others = os /\ n.target = q.target
    BY <1>1, <2>2 DEF RequestType
  <2>7. Sound(n) /\ Named(n)
    BY <2>1, <2>3, <2>6 DEF Sound, Named, Operations
  <2>8. req' = [req EXCEPT ![r] = n]
    BY <1>1, <2>1, <2>2
  <2> QED BY <1>0, <2>5, <2>7, <2>8, QuietSound
<1> QED BY <1>3, <1>4, <1>5

LEMMA CountOthersSound ==
    ASSUME KeptInv, NEW r \in Requests, CountOthers(r)
    PROVE  /\ MembershipKept'
           /\ \A s \in Requests : (Sound(req[s]) /\ Named(req[s]))'
<1>0. UNCHANGED <<orgs, members, late>> /\ req[r].pc = "others"
  BY DEF CountOthers
<1>1. PICK q \in RequestType : q = req[r] /\ Sound(q)
  BY DEF KeptInv, OrgInv, OrgTypeOK
<1>3. CASE End(r)
  BY <1>0, <1>3, EndSound
<1>4. CASE ~End(r)
  <2>1. PICK o \in q.others : /\ IsOrphanSoloOrg(o, q.target)
                             /\ req' = [req EXCEPT ![r].pc = "drop", ![r].solo = o]
    BY <1>1, <1>4 DEF CountOthers
  <2>2. PICK n : n = [q EXCEPT !.pc = "drop", !.solo = o]
    OBVIOUS
  <2>3. o \in Orgs
    BY <1>1 DEF RequestType
  <2>4. n \in RequestType
    BY <1>1, <2>2, <2>3 DEF RequestType, Steps
  <2>5. n.pc = "drop" /\ n.solo = o /\ n.others = q.others /\ n.target = q.target /\ n.fresh = q.fresh
    BY <1>1, <2>2 DEF RequestType
  <2>6. ASSUME q.fresh
        PROVE  q.others = OrgsOf(q.target) /\ \A m \in MembersOf(o) : m.user = q.target
    <3>1. q.others = OrgsOf(q.target)
      BY <1>0, <1>1, <2>6 DEF Sound
    <3>2. PICK k \in members : k.org = o /\ k.user = q.target
      BY <3>1 DEF OrgsOf, MembershipsOf
    <3>3. PICK all : all = MembersOf(o)
      OBVIOUS
    <3>4. IsFiniteSet(all)
      <4>1. IsFiniteSet(members) /\ all \subseteq members
        BY <3>3 DEF MembersOf, KeptInv, OrgInv, OrgTypeOK
      <4> QED BY <4>1, FS_Subset
    <3>5. Cardinality(all) = 1
      BY <2>1, <3>3 DEF IsOrphanSoloOrg
    <3>6. PICK x : all = {x}
      BY <3>4, <3>5, FS_Singleton
    <3>7. k \in all
      BY <3>2, <3>3 DEF MembersOf
    <3> QED BY <3>1, <3>2, <3>3, <3>6, <3>7
  <2>7. OwnerOf[o] = q.target
    BY <2>1 DEF IsOrphanSoloOrg
  <2>8. Sound(n) /\ Named(n)
    BY <2>5, <2>6, <2>7 DEF Sound, Named, Operations
  <2>9. req' = [req EXCEPT ![r] = n]
    BY <1>1, <2>1, <2>2
  <2> QED BY <1>0, <2>4, <2>8, <2>9, QuietSound
<1> QED BY <1>3, <1>4

LEMMA ReadMemberSound ==
    ASSUME KeptInv, NEW r \in Requests, ReadMember(r)
    PROVE  /\ MembershipKept'
           /\ \A s \in Requests : (Sound(req[s]) /\ Named(req[s]))'
<1>0. UNCHANGED <<orgs, members, late>> /\ req[r].pc \in {"update", "remove"}
  BY DEF ReadMember
<1>1. PICK q \in RequestType : q = req[r] /\ Named(q)
  BY DEF KeptInv, OrgInv, OrgTypeOK
<1>2. q.op = q.pc /\ q.pc \in {"update", "remove"}
  BY <1>0, <1>1 DEF Named, Operations
<1>3. CASE End(r)
  BY <1>0, <1>3, EndSound
<1>4. CASE ~End(r)
  <2>1. PICK pc \in Steps :
           /\ Goto(r, pc)
           /\ pc = (IF \E m \in RowOf(q.org, q.target) : TakesAdmin(q, m) THEN "count"
                    ELSE IF q.op = "remove" THEN "delete" ELSE "setRole")
    BY <1>1, <1>4 DEF ReadMember, Steps
  <2>2. PICK n : n = [q EXCEPT !.pc = pc]
    OBVIOUS
  <2>3. n.pc = pc /\ n.op = q.op /\ n.org = q.org /\ n.target = q.target /\ n.role = q.role
    BY <1>1, <2>2 DEF RequestType
  <2>4. n.role \in Roles
    BY <2>3 DEF RequestType
  <2>5. ASSUME pc # "count" PROVE Spares(n)
    <3>1. \A m \in RowOf(q.org, q.target) : ~TakesAdmin(q, m)
      BY <2>1, <2>5
    <3>2. CASE \A m \in AdminsOf(q.org) : m.user # q.target
      BY <2>3, <3>2 DEF Spares
    <3>3. CASE \E m \in AdminsOf(q.org) : m.user = q.target
      <4>1. q.op # "remove" /\ q.role = "ADMIN"
        BY <2>3, <2>4, <3>1, <3>3 DEF TakesAdmin, AdminsOf, MembersOf, RowOf, Roles
      <4> QED BY <2>1, <2>3, <2>5, <4>1 DEF Spares
    <3> QED BY <3>2, <3>3
  <2>6. Sound(n)
    BY <2>1, <2>3, <2>5 DEF Sound
  <2>7. Named(n)
    BY <2>1, <2>3 DEF Named, Operations
  <2> QED BY <1>0, <1>1, <2>1, <2>2, <2>6, <2>7, GotoSound
<1> QED BY <1>3, <1>4

LEMMA CountAdminsSound ==
    ASSUME KeptInv, NEW r \in Requests, CountAdmins(r)
    PROVE  /\ MembershipKept'
           /\ \A s \in Requests : (Sound(req[s]) /\ Named(req[s]))'
<1>0. UNCHANGED <<orgs, members, late>>
  BY DEF CountAdmins
<1>1. PICK q \in RequestType : q = req[r]
  BY DEF KeptInv, OrgInv, OrgTypeOK
<1>3. CASE End(r)
  BY <1>0, <1>3, EndSound
<1>4. CASE ~End(r)
  <2>1. PICK pc \in Steps : /\ Goto(r, pc) /\ ~LastAdmin(q.org)
                           /\ pc = (IF q.op = "remove" THEN "delete" ELSE "setRole")
    BY <1>1, <1>4 DEF CountAdmins, Steps
  <2>2. PICK n : n = [q EXCEPT !.pc = pc]
    OBVIOUS
  <2>3. n.pc = pc /\ n.op = q.op /\ n.org = q.org /\ n.target = q.target
    BY <1>1, <2>2 DEF RequestType
  <2>4. \A m \in AdminsOf(q.org) : m.user = q.target => \E x \in AdminsOf(q.org) : x.user # q.target
    <3> SUFFICES ASSUME NEW m \in AdminsOf(q.org), m.user = q.target,
                        \A x \in AdminsOf(q.org) : x.user = q.target
                 PROVE  FALSE
      OBVIOUS
    <3>1. \A x \in AdminsOf(q.org) : x = m
      BY DEF AdminsOf, MembersOf, KeptInv, OrgInv, OrgTypeOK
    <3>2. AdminsOf(q.org) = {m}
      BY <3>1
    <3>3. Cardinality(AdminsOf(q.org)) = 1
      BY <3>2, FS_Singleton
    <3> QED BY <2>1, <3>3 DEF LastAdmin
  <2>5. Sound(n)
    BY <2>1, <2>3, <2>4 DEF Sound, Spares
  <2>6. Named(n)
    BY <2>1, <2>3 DEF Named, Operations
  <2> QED BY <1>0, <1>1, <2>1, <2>2, <2>5, <2>6, GotoSound
<1> QED BY <1>3, <1>4

LEMMA LookupSound ==
    ASSUME KeptInv, NEW r \in Requests, ResolveOrg(r) \/ FillCache(r)
    PROVE  /\ MembershipKept'
           /\ \A s \in Requests : (Sound(req[s]) /\ Named(req[s]))'
<1>0. UNCHANGED <<orgs, members, late>> /\ OrgTypeOK
  BY DEF ResolveOrg, FillCache, KeptInv, OrgInv
<1>1. PICK q \in RequestType : q = req[r]
  BY <1>0 DEF OrgTypeOK
<1>2. CASE ResolveOrg(r) /\ End(r)
  BY <1>0, <1>2, EndSound
<1>3. CASE ResolveOrg(r) /\ ~End(r)
  <2>1. PICK m \in members : req' = [req EXCEPT ![r].org = m.org, ![r].pc = "fill"]
    BY <1>3 DEF ResolveOrg, Oldest, MembershipsOf
  <2>2. PICK n : n = [q EXCEPT !.org = m.org, !.pc = "fill"]
    OBVIOUS
  <2>3. n \in RequestType
    <3>1. q \in RequestType /\ m.org \in Orgs \cup {NoOrg}
      BY <1>0, <1>1 DEF OrgTypeOK, Row
    <3>2. PICK o \in Orgs \cup {NoOrg} : o = m.org
      BY <3>1
    <3>3. n = [q EXCEPT !.org = o, !.pc = "fill"]
      BY <2>2, <3>2
    <3> QED BY <3>1, <3>3 DEF RequestType, Steps
  <2>4. n.pc = "fill"
    BY <1>1, <2>2 DEF RequestType
  <2>5. Sound(n) /\ Named(n)
    BY <2>4 DEF Sound, Named, Operations
  <2>6. req' = [req EXCEPT ![r] = n]
    BY <1>1, <2>1, <2>2
  <2> QED BY <1>0, <2>3, <2>5, <2>6, QuietSound
<1>4. CASE FillCache(r)
  <2>1. PICK n : n = [q EXCEPT !.pc = q.op, !.bound = clock]
    OBVIOUS
  <2>2. n \in RequestType
    <3>1. q \in RequestType /\ clock \in Nat
      BY <1>0, <1>1 DEF OrgTypeOK
    <3> QED BY <2>1, <3>1 DEF RequestType, Steps, Operations
  <2>3. n.pc = q.op /\ n.op = q.op /\ n.pc \in Operations
    BY <1>1, <2>1 DEF RequestType
  <2>4. Sound(n) /\ Named(n)
    BY <2>3 DEF Sound, Named, Operations
  <2>5. req' = [req EXCEPT ![r] = n]
    BY <1>1, <1>4, <2>1 DEF FillCache
  <2> QED BY <1>0, <2>2, <2>4, <2>5, QuietSound
<1> QED BY <1>2, <1>3, <1>4

-----------------------------------------------------------------------------
(* The steps that write. *)

LEMMA DropSound ==
    ASSUME KeptInv, [OrgNext]_orgVars, NEW r \in Requests, DropOrphan(r)
    PROVE  /\ MembershipKept'
           /\ \A s \in Requests : (Sound(req[s]) /\ Named(req[s]))'
<1>0. OrgTypeOK /\ members' \subseteq Row
  BY NextTable DEF KeptInv, OrgInv, TableType
<1>1. PICK q \in RequestType : q = req[r] /\ Sound(q) /\ Named(q)
  BY DEF KeptInv, OrgInv, OrgTypeOK
<1>2. q.pc = "drop"
  BY <1>1 DEF DropOrphan
<1>3. CASE req[r].solo \notin orgs
  BY <1>3, EndSound DEF DropOrphan
<1>4. CASE req[r].solo \in orgs
  <2>1. PICK o, rest, pc, touched :
           /\ o = q.solo /\ rest = q.others \ {o} /\ touched = MembersOf(o)
           /\ pc = (IF rest = {} THEN "create" ELSE "others")
           /\ orgs' = orgs \ {o} /\ members' = members \ touched
           /\ Written(r, touched, [q EXCEPT !.others = rest, !.solo = NoOrg, !.pc = pc])
    BY <1>1, <1>4 DEF DropOrphan
  <2>2. PICK n : n = [q EXCEPT !.others = rest, !.solo = NoOrg, !.pc = pc]
    OBVIOUS
  <2>3. n \in RequestType
    <3>1. pc \in Steps /\ rest \subseteq Orgs
      BY <1>1, <2>1 DEF RequestType, Steps
    <3> QED BY <1>1, <2>2, <3>1 DEF RequestType
  <2>4. n.pc = pc /\ n.others = rest /\ n.target = q.target /\ n.fresh = q.fresh
    BY <1>1, <2>2 DEF RequestType
  <2>5. Touches(touched)
    BY <2>1 DEF Touches, MembersOf
  <2>6. Sound(n)'
    <3>1. ASSUME q.fresh PROVE rest = OrgsOf(q.target)'
      <4>1. q.others = OrgsOf(q.target)
        BY <1>1, <1>2, <3>1 DEF Sound
      <4>2. OrgsOf(q.target)' = OrgsOf(q.target) \ {o}
        BY <2>1 DEF OrgsOf, MembershipsOf, MembersOf
      <4> QED BY <2>1, <4>1, <4>2
    <3> QED BY <2>1, <2>4, <3>1 DEF Sound
  <2>7. Named(n)
    BY <2>1, <2>4 DEF Named, Operations
  <2>8. late \subseteq late'
    BY <2>1 DEF Written
  <2>9. AdminKept'
    <3> SUFFICES ASSUME NEW x \in orgs' \ late' PROVE AdminsOf(x)' # {}
      BY DEF AdminKept
    <3>1. x \in orgs \ late /\ \A t \in touched : t.org # x
      BY <2>1, <2>8 DEF MembersOf
    <3>2. AdminsOf(x)' = AdminsOf(x)
      BY <1>0, <2>5, <3>1, Untouched
    <3> QED BY <3>1, <3>2 DEF KeptInv, MembershipKept, AdminKept
  <2>10. SingleOrg'
    BY <2>1, <2>8 DEF SingleOrg, KeptInv, MembershipKept
  <2>11. \A s \in Requests : (Sound(req[s]) /\ Named(req[s]))'
    BY <1>0, <2>1, <2>2, <2>3, <2>5, <2>6, <2>7, WriteSound
  <2> QED BY <2>9, <2>10, <2>11 DEF MembershipKept
<1> QED BY <1>3, <1>4

(* After the write the request has no more checks to keep. *)
LEMMA InvalidateSound ==
    ASSUME NEW q \in RequestType
    PROVE  \E n \in RequestType : n = [q EXCEPT !.pc = "invalidate"] /\ Sound(n)' /\ Named(n)
<1>1. PICK n : n = [q EXCEPT !.pc = "invalidate"]
  OBVIOUS
<1>2. n \in RequestType /\ n.pc = "invalidate"
  BY <1>1 DEF RequestType, Steps
<1> QED BY <1>1, <1>2 DEF Sound, Named, Operations

LEMMA CreateSound ==
    ASSUME KeptInv, [OrgNext]_orgVars, NEW r \in Requests, CreateMember(r)
    PROVE  /\ MembershipKept'
           /\ \A s \in Requests : (Sound(req[s]) /\ Named(req[s]))'
<1>0. OrgTypeOK /\ members' \subseteq Row /\ orgs' = orgs
  BY NextTable DEF KeptInv, OrgInv, TableType, CreateMember
<1>1. PICK q \in RequestType : q = req[r] /\ Sound(q)
  BY DEF KeptInv, OrgInv, OrgTypeOK
<1>2. q.pc = "create"
  BY <1>1 DEF CreateMember
<1>3. CASE UNCHANGED <<members, late>> /\ End(r)
  BY <1>0, <1>3, EndSound
<1>4. CASE ~(UNCHANGED <<members, late>> /\ End(r))
  <2>1. PICK new : /\ new.org = q.org /\ new.user = q.target
                   /\ members' = members \cup {new}
                   /\ Written(r, {new}, [q EXCEPT !.pc = "invalidate"])
    BY <1>1, <1>4 DEF CreateMember
  <2>2. PICK n \in RequestType : n = [q EXCEPT !.pc = "invalidate"] /\ Sound(n)' /\ Named(n)
    BY InvalidateSound
  <2>3. Touches({new})
    BY <2>1 DEF Touches
  <2>4. late \subseteq late' /\ (~Checked(q) => q.target \in late')
    BY <1>1, <2>1 DEF Written
  <2>5. AdminKept'
    BY <1>0, <2>1, <2>4 DEF AdminKept, AdminsOf, MembersOf, KeptInv, MembershipKept
  <2>6. ASSUME NEW m \in members, m.user = q.target, q.target \notin late' PROVE FALSE
    <3>1. q.fresh
      BY <2>4, <2>6 DEF Checked
    <3>2. OrgsOf(q.target) = {}
      BY <1>1, <1>2, <3>1 DEF Sound
    <3> QED BY <2>6, <3>2 DEF OrgsOf, MembershipsOf
  <2>7. SingleOrg'
    BY <2>1, <2>4, <2>6 DEF SingleOrg, KeptInv, MembershipKept
  <2>8. \A s \in Requests : (Sound(req[s]) /\ Named(req[s]))'
    BY <1>0, <2>1, <2>2, <2>3, WriteSound
  <2> QED BY <2>5, <2>7, <2>8 DEF MembershipKept
<1> QED BY <1>3, <1>4

(* updateMemberRole, removeMember: another admin stays, or the write was late. *)
LEMMA OneAdminStays ==
    ASSUME KeptInv, NEW q \in RequestType, Sound(q), Named(q), q.pc \in {"setRole", "delete"},
           NEW x \in orgs \ late, x = q.org, Checked(q)
    PROVE  (q.pc = "setRole" /\ q.role = "ADMIN") \/ \E n \in AdminsOf(x) : n.user # q.target
<1>1. Spares(q)
  <2>1. q.op # "add"
    BY DEF Checked, Named
  <2>2. q.fresh
    BY DEF Checked
  <2> QED BY <2>1, <2>2 DEF Sound
<1>2. PICK m \in AdminsOf(x) : TRUE
  BY DEF KeptInv, MembershipKept, AdminKept
<1> QED BY <1>1, <1>2 DEF Spares

LEMMA DeleteSound ==
    ASSUME KeptInv, [OrgNext]_orgVars, NEW r \in Requests, DeleteMember(r)
    PROVE  /\ MembershipKept'
           /\ \A s \in Requests : (Sound(req[s]) /\ Named(req[s]))'
<1>0. OrgTypeOK /\ members' \subseteq Row /\ orgs' = orgs
  BY NextTable DEF KeptInv, OrgInv, TableType, DeleteMember
<1>1. PICK q \in RequestType : q = req[r] /\ Sound(q) /\ Named(q)
  BY DEF KeptInv, OrgInv, OrgTypeOK
<1>2. q.pc = "delete"
  BY <1>1 DEF DeleteMember
<1>3. CASE UNCHANGED <<members, late>> /\ End(r)
  BY <1>0, <1>3, EndSound
<1>4. CASE ~(UNCHANGED <<members, late>> /\ End(r))
  <2>1. PICK old : /\ old = RowOf(q.org, q.target) /\ old # {}
                   /\ members' = members \ old
                   /\ Written(r, old, [q EXCEPT !.pc = "invalidate"])
    BY <1>1, <1>4 DEF DeleteMember
  <2>2. PICK n \in RequestType : n = [q EXCEPT !.pc = "invalidate"] /\ Sound(n)' /\ Named(n)
    BY InvalidateSound
  <2>3. Touches(old)
    BY <2>1 DEF Touches, RowOf
  <2>4. late \subseteq late' /\ (~Checked(q) => q.org \in late')
    BY <1>1, <2>1 DEF Written, RowOf
  <2>5. AdminKept'
    <3> SUFFICES ASSUME NEW x \in orgs' \ late' PROVE AdminsOf(x)' # {}
      BY DEF AdminKept
    <3>0. x \in orgs \ late
      BY <1>0, <2>4
    <3>1. CASE x # q.org
      <4>1. AdminsOf(x)' = AdminsOf(x)
        <5>1. \A t \in old : t.org # x
          BY <2>1, <3>1 DEF RowOf
        <5> QED BY <1>0, <2>3, <5>1, Untouched
      <4> QED BY <3>0, <4>1 DEF KeptInv, MembershipKept, AdminKept
    <3>2. CASE x = q.org
      <4>1. PICK k \in AdminsOf(x) : k.user # q.target
        BY <1>1, <1>2, <2>4, <3>0, <3>2, OneAdminStays
      <4> QED BY <2>1, <4>1 DEF AdminsOf, MembersOf, RowOf
    <3> QED BY <3>1, <3>2
  <2>7. SingleOrg'
    BY <2>1, <2>4 DEF SingleOrg, KeptInv, MembershipKept
  <2>8. \A s \in Requests : (Sound(req[s]) /\ Named(req[s]))'
    BY <1>0, <1>1, <2>1, <2>2, <2>3, WriteSound
  <2> QED BY <2>5, <2>7, <2>8 DEF MembershipKept
<1> QED BY <1>3, <1>4

LEMMA RoleSound ==
    ASSUME KeptInv, [OrgNext]_orgVars, NEW r \in Requests, SetRole(r)
    PROVE  /\ MembershipKept'
           /\ \A s \in Requests : (Sound(req[s]) /\ Named(req[s]))'
<1>0. OrgTypeOK /\ members' \subseteq Row /\ orgs' = orgs
  BY NextTable DEF KeptInv, OrgInv, TableType, SetRole
<1>1. PICK q \in RequestType : q = req[r] /\ Sound(q) /\ Named(q)
  BY DEF KeptInv, OrgInv, OrgTypeOK
<1>2. q.pc = "setRole"
  BY <1>1 DEF SetRole
<1>3. CASE UNCHANGED <<members, late>> /\ End(r)
  BY <1>0, <1>3, EndSound
<1>4. CASE ~(UNCHANGED <<members, late>> /\ End(r))
  <2>1. PICK old, role, new :
           /\ old = RowOf(q.org, q.target) /\ old # {} /\ role = q.role
           /\ new = {[m EXCEPT !.role = role] : m \in old}
           /\ members' = (members \ old) \cup new
           /\ Written(r, old, [q EXCEPT !.pc = "invalidate"])
    BY <1>1, <1>4 DEF SetRole
  <2>2. PICK n \in RequestType : n = [q EXCEPT !.pc = "invalidate"] /\ Sound(n)' /\ Named(n)
    BY InvalidateSound
  <2>3. old \subseteq members /\ \A m \in old : m \in Row /\ m.org = q.org /\ m.user = q.target
    BY <1>0, <2>1 DEF RowOf, OrgTypeOK
  <2>4. \A k \in new : k.org = q.org /\ k.user = q.target /\ k.role = role
    <3>1. \A m \in Row : LET k == [m EXCEPT !.role = role]
                         IN k.org = m.org /\ k.user = m.user /\ k.role = role
      BY DEF Row
    <3> QED BY <2>1, <2>3, <3>1
  <2>5. PICK a \in old, b \in new : TRUE
    BY <2>1
  <2>6. Touches(old)
    BY <2>1, <2>3, <2>4, <2>5 DEF Touches
  <2>7. late \subseteq late' /\ (~Checked(q) => q.org \in late')
    BY <1>1, <2>1, <2>3 DEF Written
  <2>8. AdminKept'
    <3> SUFFICES ASSUME NEW x \in orgs' \ late' PROVE AdminsOf(x)' # {}
      BY DEF AdminKept
    <3>0. x \in orgs \ late
      BY <1>0, <2>7
    <3>1. CASE x # q.org
      <4>1. AdminsOf(x)' = AdminsOf(x)
        BY <1>0, <2>3, <2>6, <3>1, Untouched
      <4> QED BY <3>0, <4>1 DEF KeptInv, MembershipKept, AdminKept
    <3>2. CASE x = q.org /\ q.role = "ADMIN"
      <4>1. b \in members' /\ b.org = x /\ b.role = "ADMIN"
        BY <2>1, <2>4, <2>5, <3>2
      <4> QED BY <4>1 DEF AdminsOf, MembersOf
    <3>3. CASE x = q.org /\ q.role # "ADMIN"
      <4>1. PICK k \in AdminsOf(x) : k.user # q.target
        BY <1>1, <1>2, <2>7, <3>0, <3>3, OneAdminStays
      <4>2. k \in members'
        BY <2>1, <2>3, <4>1 DEF AdminsOf, MembersOf
      <4> QED BY <4>1, <4>2 DEF AdminsOf, MembersOf
    <3> QED BY <3>1, <3>2, <3>3
  <2>9. SingleOrg'
    <3>1. \A k \in members' : \E m \in members : m.org = k.org /\ m.user = k.user
      BY <2>1, <2>3, <2>4, <2>5
    <3> QED BY <2>7, <3>1 DEF SingleOrg, KeptInv, MembershipKept
  <2>10. \A s \in Requests : (Sound(req[s]) /\ Named(req[s]))'
    BY <1>0, <1>1, <2>1, <2>2, <2>6, WriteSound
  <2> QED BY <2>8, <2>9, <2>10 DEF MembershipKept
<1> QED BY <1>3, <1>4

-----------------------------------------------------------------------------
(* The invariant and the two theorems. *)

LEMMA CallSound ==
    ASSUME KeptInv, NEW r \in Requests, NEW i \in Instances, NEW c \in Calls, Call(r, i, c)
    PROVE  /\ MembershipKept'
           /\ \A s \in Requests : (Sound(req[s]) /\ Named(req[s]))'
<1>0. UNCHANGED <<orgs, members, late>> /\ c.op \in Operations
  BY OrganizationAssumption DEF Call, OrganizationAssumption
<1>1. PICK n : /\ req' = [req EXCEPT ![r] = n]
               /\ n.pc \in {c.op, "resolve"} /\ n.op = c.op
  <2>1. PICK pc, o, n :
           /\ pc = IF Fresh(cache[i][c.actor]) THEN c.op ELSE "resolve"
           /\ o = IF Fresh(cache[i][c.actor]) THEN cache[i][c.actor].org ELSE NoOrg
           /\ n = [pc |-> pc, op |-> c.op, inst |-> i, actor |-> c.actor, target |-> c.target,
                   role |-> c.role, org |-> o, others |-> {}, solo |-> NoOrg,
                   start |-> clock, bound |-> clock, fresh |-> TRUE]
    OBVIOUS
  <2>2. req' = [req EXCEPT ![r] = n]
    BY <2>1 DEF Call
  <2>3. n.pc \in {c.op, "resolve"} /\ n.op = c.op
    BY <2>1
  <2> QED BY <2>2, <2>3
<1>2. n \in RequestType
  <2>1. req \in [Requests -> RequestType]
    BY DEF KeptInv, OrgInv, OrgTypeOK
  <2>2. req' \in [Requests -> RequestType]
    BY CallRequests DEF KeptInv
  <2> QED BY <1>1, <2>1, <2>2
<1>3. Sound(n) /\ Named(n)
  BY <1>0, <1>1 DEF Sound, Named, Operations
<1> QED BY <1>0, <1>1, <1>2, <1>3, QuietSound

(* A step of several requests that writes nothing: they end or stay as they are. *)
LEMMA StillSound ==
    ASSUME KeptInv, UNCHANGED <<orgs, members, late>>,
           \A s \in Requests : req'[s] = req[s] \/ req'[s] = NoRequest
    PROVE  /\ MembershipKept'
           /\ \A s \in Requests : (Sound(req[s]) /\ Named(req[s]))'
<1>1. MembershipKept'
  BY DEF KeptInv, MembershipKept, AdminKept, SingleOrg, AdminsOf, MembersOf
<1>2. \A q \in RequestType : Sound(q) => Sound(q)'
  BY DEF Sound, Spares, OrgsOf, MembershipsOf, MembersOf, AdminsOf
<1>3. ASSUME NEW s \in Requests PROVE (Sound(req[s]) /\ Named(req[s]))'
  <2>1. PICK q \in RequestType : q = req'[s] /\ Sound(q) /\ Named(q)
    BY NoRequestType, NoRequestSound DEF KeptInv, OrgInv, OrgTypeOK
  <2>2. Sound(q)'
    BY <1>2, <2>1
  <2> QED BY <2>1, <2>2
<1> QED BY <1>1, <1>3

LEMMA InitKept == OrgInit => KeptInv
<1> SUFFICES ASSUME OrgInit PROVE KeptInv
  OBVIOUS
<1>1. members \in Seeds /\ orgs = Orgs
  BY DEF OrgInit
<1>2. \A o \in Orgs : \E m \in members : m.org = o /\ m.user = OwnerOf[o] /\ m.role = "ADMIN"
  BY <1>1, OrganizationAssumption DEF OrganizationAssumption
<1>3. \A m, n \in members : m.user = n.user => m = n
  BY <1>1, OrganizationAssumption DEF OrganizationAssumption
<1>4. AdminKept
  BY <1>1, <1>2 DEF AdminKept, AdminsOf, MembersOf
<1>5. SingleOrg
  BY <1>3 DEF SingleOrg
<1>6. \A r \in Requests : Sound(req[r]) /\ Named(req[r])
  BY NoRequestSound DEF OrgInit
<1> QED BY <1>4, <1>5, <1>6, InitInv DEF KeptInv, MembershipKept

LEMMA NextKept == KeptInv /\ [OrgNext]_orgVars => KeptInv'
<1> SUFFICES ASSUME KeptInv, [OrgNext]_orgVars PROVE KeptInv'
  OBVIOUS
<1> DEFINE Goal == MembershipKept' /\ \A s \in Requests : (Sound(req[s]) /\ Named(req[s]))'
<1>1. OrgInv'
  BY NextInv DEF KeptInv
<1>2. ASSUME NEW r \in Requests, Serve(r) \/ Invalidate(r) PROVE Goal
  BY <1>2, EndSound DEF Serve, Invalidate
<1>3. ASSUME NEW r \in Requests, Step(r) PROVE Goal
  BY <1>2, <1>3, LookupSound, ReadTargetSound, CountOthersSound, DropSound, CreateSound,
     ReadMemberSound, CountAdminsSound, RoleSound, DeleteSound DEF Step
<1>4. ASSUME NEW i \in Instances, Restart(i) PROVE Goal
  BY <1>4, StillSound DEF Restart
<1>5. ASSUME Tick \/ UNCHANGED orgVars PROVE Goal
  BY <1>5, StillSound DEF Tick, orgVars
<1>6. Goal
  BY <1>3, <1>4, <1>5, CallSound DEF OrgNext
<1> QED BY <1>1, <1>6 DEF KeptInv

(* Every organization keeps an admin and nobody is a member of two, but for   *)
(* those that a request wrote to after what it had checked was written over   *)
(* (assertNotLastAdmin, addMember).                                           *)
THEOREM MembersKept == OrgSpec => []MembershipKept
<1>1. KeptInv => MembershipKept
  BY DEF KeptInv
<1> QED BY <1>1, InitKept, NextKept, PTL DEF OrgSpec

(* Only an organization that nobody but its founder is in is deleted, unless  *)
(* its members changed after they were counted (addMember).                   *)
THEOREM OrphansDropped == OrgSpec => OnlyOrphansDropped
<1> DEFINE Orphans ==
      \A o \in orgs \ orgs' : o \in late' \/ \A m \in MembersOf(o) : m.user = OwnerOf[o]
<1>1. KeptInv /\ [OrgNext]_orgVars => [Orphans]_orgVars
  <2> SUFFICES ASSUME KeptInv, [OrgNext]_orgVars, NEW o \in orgs \ orgs'
               PROVE  o \in late' \/ \A m \in MembersOf(o) : m.user = OwnerOf[o]
    OBVIOUS
  <2>1. PICK r \in Requests : DropOrphan(r)
    <3>1. ASSUME NEW r \in Requests, Step(r), ~DropOrphan(r) PROVE FALSE
      BY <3>1 DEF Step, ResolveOrg, FillCache, Serve, ReadTarget, CountOthers, CreateMember,
                  ReadMember, CountAdmins, SetRole, DeleteMember, Invalidate
    <3> QED BY <3>1 DEF OrgNext, Call, Restart, Tick, orgVars
  <2>2. PICK q \in RequestType : q = req[r] /\ Sound(q)
    BY DEF KeptInv, OrgInv, OrgTypeOK
  <2>3. q.pc = "drop" /\ o = q.solo
    BY <2>1, <2>2 DEF DropOrphan
  <2>4. ~q.fresh => \A m \in MembersOf(o) : o \in late'
    BY <2>1, <2>2, <2>3 DEF DropOrphan, Written, Checked, MembersOf
  <2>5. q.fresh => \A m \in MembersOf(o) : m.user = OwnerOf[o]
    BY <2>2, <2>3 DEF Sound
  <2> QED BY <2>4, <2>5
<1> QED BY <1>1, InitKept, NextKept, PTL DEF OrgSpec, OnlyOrphansDropped
=============================================================================
