------------------------------ MODULE Gateway ------------------------------
(***************************************************************************)
(* A request on its way through the gateway: the web application offers a  *)
(* page or a button, the request passes the rate limit, the token check,   *)
(* the roles of its route and the proof of a sensitive action, and then    *)
(* the operations it leads to, each of which checks token and roles again. *)
(*                                                                         *)
(* A token holds the roles its user had at the login; there is no          *)
(* revocation.  `lost` is history: when a user last lost a role; `typed`:  *)
(* when a user last confirmed a sensitive action.  The tables of roles and *)
(* paths are constants; Routes holds their values.                         *)
(***************************************************************************)
EXTENDS Integers, Sequences, FiniteSets

CONSTANTS Users, RealmRoles, \* the roles of the identity provider
          OfficerRole, OfficerAlias, \* compliance_officer, also known as co
          AnyRole, NoCheck,  \* the values of a table that ask for no role, for no token
          Requests,          \* requests that may be in flight together
          GateRoles,         \* route |-> roles that may call it
          ServiceRoles,      \* operation |-> roles it is served to
          PathsOf,           \* route |-> ways through the services
          Writes, Swallowed, \* operations that change records, that may fail unnoticed
          ActionFor,         \* sensitive route |-> the action to confirm
          ProofRoute,        \* the route that issues proofs
          Offered,           \* what the web application offers
          Life, Tolerance,   \* of a token, in ticks
          ProofLife, MaxAge, \* PROOF_TTL_MS, and how recent a login has to be
          Latency,           \* the longest a request takes, in ticks
          LimitOf,           \* route |-> requests in a window
          Budgets,           \* what may happen in a behaviour
          NoUser, NoRoute

Routes == DOMAIN GateRoles
Ops == DOMAIN ServiceRoles
Actions == {ActionFor[a] : a \in DOMAIN ActionFor}

BudgetType ==
    [who : SUBSET Users, slots : SUBSET Requests, crews : SUBSET SUBSET RealmRoles,
     routes : SUBSET Routes, sends : Nat, logins : Nat, moves : Nat, ticks : Nat,
     faults : Nat, windows : Nat, recent : BOOLEAN]

ASSUME GatewayAssumption ==
    /\ NoUser \notin Users /\ NoRoute \notin Routes
    /\ \A n \in {Life, Tolerance, ProofLife, MaxAge, Latency} : n \in Nat
    /\ GateRoles \in [Routes -> SUBSET (RealmRoles \cup AnyRole)]
    /\ ServiceRoles \in [Ops -> SUBSET (RealmRoles \cup AnyRole \cup NoCheck)]
    /\ PathsOf \in [Routes -> SUBSET Seq(SUBSET Ops)]
    /\ DOMAIN ActionFor \subseteq Routes
    /\ LimitOf \in [Routes -> Nat]
    /\ OfficerRole \in RealmRoles
    /\ Budgets \subseteq BudgetType

(* What the tables promise each other.  Whoever may call a route is served     *)
(* what it leads to, unless that may fail unnoticed.                           *)
RolesAgree ==
    \A route \in Routes : \A path \in PathsOf[route] : \A i \in DOMAIN path :
      \A op \in path[i] \ Swallowed :
        \/ ServiceRoles[op] \in {AnyRole, NoCheck}
        \/ GateRoles[route] # AnyRole /\ GateRoles[route] \subseteq ServiceRoles[op]

(* What is still to be done when a record was changed asks for nothing, or may *)
(* fail unnoticed.                                                             *)
WritesLast ==
    \A route \in Routes : \A path \in PathsOf[route] : \A i, j \in DOMAIN path :
      \A op \in path[i] \cap Writes, next \in path[j] :
        i < j \/ (i = j /\ next # op) => next \in Swallowed \/ ServiceRoles[next] = NoCheck

(* A proof is issued by the gateway itself; a sensitive action is done behind it. *)
ProofsHere ==
    /\ ProofRoute \in Routes \ DOMAIN ActionFor /\ << >> \in PathsOf[ProofRoute]
    /\ \A route \in DOMAIN ActionFor : << >> \notin PathsOf[route]

(* The web application offers a route to nobody who may not call it.           *)
OffersAgree ==
    \A o \in Offered : \A route \in o.routes :
      GateRoles[route] = AnyRole \/ o.roles \subseteq GateRoles[route]

ASSUME TablesAssumption == RolesAgree /\ WritesLast /\ ProofsHere /\ OffersAgree

VARIABLES roles, token, proofs, req, hits, clock, lost, typed, budget

gatewayVars == <<roles, token, proofs, req, hits, clock, lost, typed, budget>>

Never == -1 - Life - Tolerance - ProofLife - MaxAge - Latency

Token == [user : Users, roles : SUBSET RealmRoles, login : Int, expires : Int]
Proof == [actor : Users, action : Actions, expires : Int]

Answers == {"none", "ok", "throttled", "unauthorized", "forbidden", "error"}

RequestType ==
    [pc : {"idle", "sent", "audit", "hop", "answered"}, user : Users \cup {NoUser},
     token : SUBSET Token, route : Routes \cup {NoRoute}, proof : SUBSET Proof,
     offered : BOOLEAN, todo : Seq(SUBSET Ops), done : SUBSET Ops,
     answer : Answers, late : BOOLEAN, start : Int]

NoRequest == [pc |-> "idle", user |-> NoUser, token |-> {}, route |-> NoRoute, proof |-> {},
              offered |-> FALSE, todo |-> << >>, done |-> {}, answer |-> "none",
              late |-> FALSE, start |-> 0]

InFlight(r) == req[r].pc \in {"sent", "audit", "hop"}

Spend(part) == budget[part] > 0 /\ budget' = [budget EXCEPT ![part] = @ - 1]

-----------------------------------------------------------------------------
(* Tokens and roles. *)

(* The shorthand `co` counts as the full name of the role. *)
Normalized(rs) == rs \cup (IF OfficerAlias \in rs THEN {OfficerRole} ELSE {})

Valid(t, now) == t.expires + Tolerance >= now

Holds(t, allowed) == allowed = AnyRole \/ Normalized(t.roles) \cap allowed # {}

(* A login issues a token with the roles of the moment. *)
Login(u) ==
    /\ Spend("logins")
    /\ token' = [token EXCEPT ![u] =
         {[user |-> u, roles |-> roles[u], login |-> clock, expires |-> clock + Life]}]
    /\ UNCHANGED <<roles, proofs, req, hits, clock, lost, typed>>

ChangeRoles(u) ==
    /\ Spend("moves")
    /\ \E rs \in budget.crews :
         /\ roles' = [roles EXCEPT ![u] = rs]
         /\ lost' = [lost EXCEPT ![u] = [role \in RealmRoles |->
              IF role \in Normalized(roles[u]) \ Normalized(rs) THEN clock ELSE lost[u][role]]]
    /\ UNCHANGED <<token, proofs, req, hits, clock, typed>>

-----------------------------------------------------------------------------
(* A request. *)

(* The web application shows what the roles of the session allow, and asks   *)
(* for a proof of its own before it calls a sensitive route.                 *)
IsOffered(t, route, proof) ==
    /\ \E o \in Offered : route \in o.routes /\ Normalized(t.roles) \cap o.roles # {}
    /\ route \in DOMAIN ActionFor =>
         \E p \in proof : p.actor = t.user /\ p.action = ActionFor[route]

Send(r, u) ==
    /\ req[r].pc = "idle"
    /\ Spend("sends")
    /\ \E t \in token[u], route \in budget.routes,
          proof \in {{}} \cup {{p} : p \in proofs} :
         /\ route \notin DOMAIN ActionFor => proof = {}
         /\ req' = [req EXCEPT ![r] =
              [NoRequest EXCEPT !.pc = "sent", !.user = u, !.token = {t}, !.route = route,
                                !.proof = proof, !.offered = IsOffered(t, route, proof),
                                !.start = clock]]
    /\ UNCHANGED <<roles, token, proofs, hits, clock, lost, typed>>

Reply(r, answer) ==
    req' = [req EXCEPT ![r].pc = "answered", ![r].answer = answer]

(* Mutant: a proof serves whoever presents it. *)
ProvesAnyone(p, u, action) == p.action = action /\ p.expires > clock

(* assertProof: the proof is the actor's, for the action, and not expired.    *)
(* It is not used up.                                                         *)
Proves(p, u, action) == p.actor = u /\ p.action = action /\ p.expires > clock

ProofAccepted(q) ==
    q.route \in DOMAIN ActionFor =>
        \E p \in q.proof : Proves(p, q.user, ActionFor[q.route])

(* getRecentAuthStatus, when recent authentication is required. *)
RecentLogin(t) == budget.recent => clock - t.login <= MaxAge

(* issueProof: the phrase has to be typed; the audit event is awaited.        *)
IssueProof(r, t) ==
    \E action \in Actions, phrase \in BOOLEAN :
      IF phrase /\ RecentLogin(t)
      THEN /\ proofs' = proofs \cup
                {[actor |-> t.user, action |-> action, expires |-> clock + ProofLife]}
           /\ typed' = [typed EXCEPT ![t.user][action] = clock]
           /\ req' = [req EXCEPT ![r].pc = "audit"]
      ELSE Reply(r, "error") /\ UNCHANGED <<proofs, typed>>

(* The rate limit comes first and counts by address, which all users of the   *)
(* web application share; then the token, the roles, the proof.               *)
Throttled(route) == Len(hits[route]) >= LimitOf[route]

Gate(r) ==
    /\ req[r].pc = "sent"
    /\ LET q == req[r] IN
       IF Throttled(q.route)
       THEN Reply(r, "throttled") /\ UNCHANGED <<proofs, typed, hits>>
       ELSE /\ hits' = [hits EXCEPT ![q.route] = Append(@, q.user)]
            /\ \E t \in q.token :
                 IF ~Valid(t, clock)
                 THEN Reply(r, "unauthorized") /\ UNCHANGED <<proofs, typed>>
                 ELSE IF ~Holds(t, GateRoles[q.route]) \/ ~ProofAccepted(q)
                 THEN Reply(r, "forbidden") /\ UNCHANGED <<proofs, typed>>
                 ELSE IF q.route = ProofRoute
                 THEN IssueProof(r, t)
                 ELSE /\ \E path \in PathsOf[q.route] :
                           req' = [req EXCEPT
                             ![r].pc = IF q.route \in DOMAIN ActionFor THEN "audit"
                                       ELSE IF path = << >> THEN "answered" ELSE "hop",
                             ![r].todo = path,
                             ![r].answer = IF path = << >> THEN "ok" ELSE @]
                      /\ UNCHANGED <<proofs, typed>>
    /\ UNCHANGED <<roles, token, clock, lost, budget>>

(* The audit event of a proof was sent, or could not be: it does not matter.  *)
Audited(r) ==
    /\ req[r].pc = "audit"
    /\ IF req[r].route = ProofRoute THEN Reply(r, "ok")
       ELSE req' = [req EXCEPT ![r].pc = "hop"]
    /\ UNCHANGED <<roles, token, proofs, hits, clock, lost, typed, budget>>

(* One operation of the current step is over; the last one of the last step   *)
(* ends the request.                                                          *)
Rest(todo, op) ==
    IF Head(todo) = {op} THEN Tail(todo) ELSE << Head(todo) \ {op} >> \o Tail(todo)

Proceed(r, op, done) ==
    LET rest == Rest(req[r].todo, op) IN
    req' = [req EXCEPT ![r].todo = rest, ![r].done = done,
                       ![r].pc = IF rest = << >> THEN "answered" ELSE "hop",
                       ![r].answer = IF rest = << >> THEN "ok" ELSE "none"]

(* Mutant: whatever fails on the way is an error of the request. *)
NothingPassedOver(op) == FALSE

PassedOver(op) == op \in Swallowed

(* Mutant: the services do not know the shorthand of a role.                  *)
ServesFullNames(t, op) ==
    \/ ServiceRoles[op] = NoCheck
    \/ Valid(t, clock) /\ (ServiceRoles[op] = AnyRole \/ t.roles \cap ServiceRoles[op] # {})

Serves(t, op) ==
    \/ ServiceRoles[op] = NoCheck
    \/ Valid(t, clock) /\ Holds(t, ServiceRoles[op])

(* The token is forwarded and checked again by the service of the operation.  *)
(* Its refusal is passed on.                                                  *)
Hop(r, op) ==
    /\ req[r].pc = "hop" /\ op \in Head(req[r].todo)
    /\ \E t \in req[r].token :
         IF Serves(t, op) THEN Proceed(r, op, req[r].done \cup {op})
         ELSE IF PassedOver(op) THEN Proceed(r, op, req[r].done)
         ELSE req' = [req EXCEPT ![r].pc = "answered", ![r].late = TRUE,
                        ![r].answer = IF Valid(t, clock) THEN "forbidden" ELSE "unauthorized"]
    /\ UNCHANGED <<roles, token, proofs, hits, clock, lost, typed, budget>>

(* An operation fails, or is done and its answer is lost. *)
Fail(r, op) ==
    /\ Spend("faults")
    /\ req[r].pc = "hop" /\ op \in Head(req[r].todo)
    /\ \E t \in req[r].token : Serves(t, op)
    /\ \E done \in {req[r].done, req[r].done \cup {op}} :
         IF PassedOver(op) THEN Proceed(r, op, done)
         ELSE req' = [req EXCEPT ![r].pc = "answered", ![r].answer = "error", ![r].done = done]
    /\ UNCHANGED <<roles, token, proofs, hits, clock, lost, typed>>

Receive(r) ==
    /\ req[r].pc = "answered"
    /\ req' = [req EXCEPT ![r] = NoRequest]
    /\ UNCHANGED <<roles, token, proofs, hits, clock, lost, typed, budget>>

Tick ==
    /\ Spend("ticks")
    /\ \A r \in Requests : InFlight(r) => clock < req[r].start + Latency
    /\ clock' = clock + 1
    /\ UNCHANGED <<roles, token, proofs, req, hits, lost, typed>>

(* The window of a route's counter ends. *)
WindowEnds(route) ==
    /\ Spend("windows")
    /\ hits' = [hits EXCEPT ![route] = << >>]
    /\ UNCHANGED <<roles, token, proofs, req, clock, lost, typed>>

GatewayInit ==
    /\ budget \in Budgets
    /\ roles \in [Users -> budget.crews]
    /\ token = [u \in Users |-> {}]
    /\ proofs = {}
    /\ req = [r \in Requests |-> NoRequest]
    /\ hits = [route \in Routes |-> << >>]
    /\ clock = 0
    /\ lost = [u \in Users |-> [role \in RealmRoles |-> Never]]
    /\ typed = [u \in Users |-> [a \in Actions |-> Never]]

Work(r) == Gate(r) \/ Audited(r) \/ \E op \in Ops : Hop(r, op)

GatewayNext ==
    \/ \E u \in budget.who : Login(u) \/ ChangeRoles(u) \/ \E r \in budget.slots : Send(r, u)
    \/ \E r \in Requests : Work(r) \/ Receive(r) \/ \E op \in Ops : Fail(r, op)
    \/ Tick
    \/ \E route \in budget.routes : WindowEnds(route)

(* A request that arrived is worked on, and every call of it is answered or   *)
(* fails.                                                                     *)
GatewaySpec ==
    GatewayInit /\ [][GatewayNext]_gatewayVars /\ \A r \in Requests : WF_gatewayVars(Work(r))

-----------------------------------------------------------------------------
(* Properties. *)

(* Tokens, proofs and requests are well-formed, and an answer is there when    *)
(* and only when the request is over (proxy.service.ts, JwtStrategy).          *)
GatewayTypeOK ==
    /\ roles \in [Users -> SUBSET RealmRoles]
    /\ token \in [Users -> SUBSET Token]
    /\ proofs \subseteq Proof
    /\ req \in [Requests -> RequestType]
    /\ hits \in [Routes -> Seq(Users)]
    /\ clock \in Nat
    /\ lost \in [Users -> [RealmRoles -> Int]]
    /\ typed \in [Users -> [Actions -> Int]]
    /\ \A r \in Requests : (req[r].pc = "answered") = (req[r].answer # "none")

(* What the web application offers a user is never refused for his roles, by   *)
(* the gateway or by any service behind it; only a proof may have run out          *)
(* (permissions.ts and nav.ts agree with the @Roles of gateway and services).  *)
OfferedIsServed ==
    \A r \in Requests :
        req[r].offered /\ req[r].answer = "forbidden" =>
            \E p \in req[r].proof : p.expires <= clock

(* Once the gateway let a request in, no service refuses it for its roles;     *)
(* one that is refused on the way has a token that ran out on the way.         *)
GateDecides ==
    \A r \in Requests : req[r].late =>
        /\ req[r].answer = "unauthorized"
        /\ \A t \in req[r].token : req[r].start <= t.expires + Tolerance /\ ~Valid(t, clock)

(* The answer tells what happened: after `ok` every operation of some way      *)
(* through the services was done but for those that may fail unnoticed; after  *)
(* a refusal no record was changed.                                            *)
AnswersTell ==
    \A r \in Requests :
        /\ req[r].answer = "ok" =>
             \E path \in PathsOf[req[r].route] :
               \A i \in DOMAIN path : path[i] \subseteq req[r].done \cup Swallowed
        /\ req[r].answer \in {"throttled", "unauthorized", "forbidden"} =>
             req[r].done \cap Writes = {}

Ran(r) == req'[r].done \ req[r].done

HeldUntil(u, role) == IF role \in Normalized(roles[u]) THEN clock ELSE lost[u][role]

(* An operation that asks for roles is done only for a user who held one of    *)
(* them no longer ago than a token lives: roles taken away stay in force for   *)
(* that long, and not longer (validate, RolesGuard).                           *)
RolesNotOlder ==
    [][\A r \in Requests : \A op \in Ran(r) :
         ServiceRoles[op] \in {AnyRole, NoCheck}
         \/ \E role \in ServiceRoles[op] \cap RealmRoles :
              clock - HeldUntil(req[r].user, role) <= Life + Tolerance]_gatewayVars

(* A sensitive operation is done only if its user typed the phrase for it no   *)
(* longer ago than a proof lives and a request takes and, where that is asked  *)
(* for, logged in recently before that (SensitiveActionProofService).          *)
SensitiveFresh ==
    [][\A r \in Requests : req[r].route \in DOMAIN ActionFor /\ Ran(r) # {} =>
         /\ clock - typed[req[r].user][ActionFor[req[r].route]] < ProofLife + Latency
         /\ budget.recent => \E t \in token[req[r].user] :
              clock - t.login < MaxAge + ProofLife + Latency]_gatewayVars

(* Every request is answered. *)
RequestsAnswered == \A r \in Requests : InFlight(r) ~> req[r].pc = "answered"

(* libs/throttler/src/throttler.constants.ts:6 "Gateway: max requests per user *)
(* per TTL window": who is refused by the limit has reached it himself.        *)
LimitPerUser ==
    \A r \in Requests : req[r].answer = "throttled" =>
        Cardinality({i \in DOMAIN hits[req[r].route] : hits[req[r].route][i] = req[r].user})
            >= LimitOf[req[r].route]
=============================================================================
