---------------------------- MODULE Notifications ----------------------------
(***************************************************************************)
(* How the people concerned by an operation on a document are told: the    *)
(* directory of approvers (metadata-service approvers/), the senders       *)
(* (workflow-service, uploads and comments), and notification-service,     *)
(* which stores one record per recipient, prunes and sends e-mail.         *)
(*                                                                         *)
(* A request in `req` is an operation that has succeeded and now awaits    *)
(* its notification; each await ends a step.  The directory is Keycloak,   *)
(* asked for the two roles by two parallel queries, and for the address of *)
(* each recipient.  `since`, `heldTo` and `lackedTo` are history: when the *)
(* present role of a user began, the last moment an earlier role was held, *)
(* and the last moment without an address.  `budget` says how the service  *)
(* is configured and bounds a behaviour: what is left of operations,       *)
(* faults, changes of roles and addresses, and ticks.                      *)
(***************************************************************************)
EXTENDS Integers, FiniteSets

CONSTANTS Users,        \* subs of Keycloak users
          Usernames,    \* what a mention names
          Requests,     \* operations whose senders may be in flight together
          Operations,   \* the operations: kind, actor, owner, next, named, flagged
          DirectoryTTL, \* APPROVER_CACHE_TTL_MS, in ticks
          AddressTTL,   \* UserEmailResolver.TTL_MS, in ticks
          Cap,          \* MAX_PER_RECIPIENT
          MailTypes,    \* emailTriggerTypes()
          Budgets       \* what a behaviour starts with: roles, operations, and their number

Kinds == {"SUBMITTED", "STEP_APPROVED", "APPROVED", "REJECTED", "ARCHIVED", "DELETED",
          "MENTIONED", "VERSION_UPLOADED", "DLP_DETECTED"}
Operation == [kind : Kinds \ {"DLP_DETECTED"}, actor : Users, owner : Users, next : Users,
              named : SUBSET Usernames, flagged : BOOLEAN]
Recipients == Users \cup Usernames
Roles == {"none", "approver", "admin"}
BudgetType == [may : SUBSET Operations, crews : SUBSET [Users -> Roles],
               mailboxes : SUBSET SUBSET Users, config : SUBSET {"email", "lookup"}, operations : Nat,
               faults : Nat, moves : Nat, ticks : Nat, clicks : Nat, fetches : Nat, bells : Nat]

ASSUME NotificationsAssumption ==
    /\ IsFiniteSet(Requests)
    /\ Operations \subseteq Operation /\ Operations # {}
    /\ Budgets \subseteq BudgetType
    /\ Users \cap Usernames = {}
    /\ DirectoryTTL \in Nat \ {0}
    /\ AddressTTL \in Nat \ {0}
    /\ Cap \in Nat \ {0}
    /\ MailTypes \subseteq Kinds

VARIABLES role, directory, req, store, nextId, unpruned, mails, address, mailbox,
          clock, since, heldTo, lackedTo, failedAt, budget

people == <<role, since, heldTo>>
records == <<store, nextId, unpruned>>
accounts == <<mailbox, lackedTo>>
post == <<mails, address, failedAt, accounts>>
serverVars == <<people, directory, req, records, post, clock, budget>>

Steps == {"idle", "ask", "roles", "post", "create", "count", "find", "delete"}
Record == [id : Nat, to : Recipients, read : BOOLEAN]
Mail == [id : Nat, to : Recipients, pc : {"resolve", "fetch", "send"}]
Query == {"approver", "admin"}

RequestType ==
    [pc : Steps, op : Operations, type : Kinds, to : SUBSET Recipients, left : SUBSET Recipients,
     cur : SUBSET Recipients, stale : SUBSET Nat, asked : Int, found : SUBSET Users,
     answers : SUBSET Query]

AnyOperation == CHOOSE op \in Operations : TRUE
NoRequest == [pc |-> "idle", op |-> AnyOperation, type |-> AnyOperation.kind, to |-> {}, left |-> {},
              cur |-> {}, stale |-> {}, asked |-> 0, found |-> {}, answers |-> {}]

Spend(what) == budget[what] > 0 /\ budget' = [budget EXCEPT ![what] = @ - 1]

Goto(r, step) == req' = [req EXCEPT ![r].pc = step]

-----------------------------------------------------------------------------
(* The directory of approvers. *)

Holders(k) == {u \in Users : role[u] = k}

Never == -1 - DirectoryTTL - AddressTTL

ChangeRole(u, k) ==
    /\ k # role[u]
    /\ Spend("moves")
    /\ role' = [role EXCEPT ![u] = k]
    /\ since' = [since EXCEPT ![u] = clock]
    /\ heldTo' = [heldTo EXCEPT ![u] = IF role[u] = "none" THEN @ ELSE clock]
    /\ UNCHANGED <<directory, req, records, post, clock>>

(* A user gets an e-mail address in Keycloak, or loses it.                   *)
ChangeEmail(u) ==
    /\ Spend("moves")
    /\ mailbox' = IF u \in mailbox THEN mailbox \ {u} ELSE mailbox \cup {u}
    /\ lackedTo' = [lackedTo EXCEPT ![u] = IF u \in mailbox THEN @ ELSE clock]
    /\ UNCHANGED <<people, directory, req, records, mails, address, failedAt, clock>>

Tick == /\ Spend("ticks")
        /\ clock' = clock + 1
        /\ UNCHANGED <<people, directory, req, records, post>>

(* Whom the operation itself names: the next in the chain, the owner of the  *)
(* document, its own actor, or the names that the comment mentions.          *)
Named(op) ==
    CASE op.kind = "STEP_APPROVED"           -> {op.next}
      [] op.kind \in {"APPROVED", "REJECTED"} -> {op.owner}
      [] op.kind \in {"ARCHIVED", "DELETED"}  -> {op.actor}
      [] OTHER                                -> op.named \ {op.actor}

AsksDirectory(op) == op.kind \in {"SUBMITTED", "VERSION_UPLOADED"}

Operate(r, op) ==
    /\ req[r].pc = "idle" /\ op \in budget.may
    /\ Spend("operations")
    /\ LET to == IF AsksDirectory(op) THEN {} ELSE Named(op) IN
       /\ op.kind = "MENTIONED" => to # {}
       /\ req' = [req EXCEPT ![r] =
            [NoRequest EXCEPT !.op = op, !.type = op.kind, !.to = to, !.left = to,
                              !.pc = IF AsksDirectory(op) THEN "ask" ELSE "post"]]
    /\ UNCHANGED <<people, directory, records, post, clock>>

(* What the sender does with the list: a submission posts it as it is, an    *)
(* upload leaves out the uploader and posts nothing to nobody.               *)
Listed(r, ids) ==
    LET op == req[r].op
        to == IF op.kind = "VERSION_UPLOADED" THEN ids \ {op.actor} ELSE ids
    IN req' = [req EXCEPT ![r] =
         IF op.kind = "VERSION_UPLOADED" /\ to = {} THEN NoRequest
         ELSE [@ EXCEPT !.pc = "post", !.to = to, !.left = to]]

DirectoryFresh(now) == directory.expires > now

(* getApprovers: the cached list, or the two queries with the time of now. *)
Ask(r) ==
    /\ req[r].pc = "ask"
    /\ IF DirectoryFresh(clock) THEN Listed(r, directory.ids)
       ELSE req' = [req EXCEPT ![r].pc = "roles", ![r].asked = clock]
    /\ UNCHANGED <<people, directory, records, post, clock, budget>>

Answer(r, k) ==
    /\ req[r].pc = "roles" /\ k \notin req[r].answers
    /\ req' = [req EXCEPT ![r].found = @ \cup Holders(k), ![r].answers = @ \cup {k}]
    /\ UNCHANGED <<people, directory, records, post, clock, budget>>

(* The entry expires a time to live after the question, not the answer. *)
Learn(r) ==
    /\ req[r].pc = "roles" /\ req[r].answers = Query
    /\ directory' = [ids |-> req[r].found, expires |-> req[r].asked + DirectoryTTL]
    /\ Listed(r, req[r].found)
    /\ UNCHANGED <<people, records, post, clock, budget>>

(* Keycloak, or metadata-service for a submission, does not answer: nobody is *)
(* told, and nothing is cached.                                               *)
AskFails(r) ==
    /\ \/ req[r].pc = "roles"
       \/ req[r].pc = "ask" /\ req[r].op.kind = "SUBMITTED"
    /\ Spend("faults")
    /\ Listed(r, {})
    /\ UNCHANGED <<people, directory, records, post, clock>>

-----------------------------------------------------------------------------
(* notification-service: notify and pruneRecipient. *)

Of(u) == {n \in store : n.to = u}
Newer(n) == {m \in Of(n.to) : m.id > n.id}

(* An upload that DLP flagged posts a second notification to the same people. *)
Finished(r) ==
    IF req[r].type = "VERSION_UPLOADED" /\ req[r].op.flagged
    THEN [req[r] EXCEPT !.pc = "post", !.type = "DLP_DETECTED", !.left = req[r].to, !.cur = {}, !.stale = {}]
    ELSE NoRequest

Finish(r) == req' = [req EXCEPT ![r] = Finished(r)]

(* The client swallows a request that does not arrive. *)
Lose(r) ==
    /\ req[r].pc = "post"
    /\ Spend("faults")
    /\ Finish(r)
    /\ UNCHANGED <<people, directory, records, post, clock>>

Post(r) ==
    /\ req[r].pc = "post"
    /\ Goto(r, "create")
    /\ UNCHANGED <<people, directory, records, post, clock, budget>>

Create(r, u) ==
    /\ req[r].pc = "create" /\ u \in req[r].left
    /\ store' = store \cup {[id |-> nextId, to |-> u, read |-> FALSE]}
    /\ nextId' = nextId + 1
    /\ req' = [req EXCEPT ![r].pc = "count", ![r].cur = {u}, ![r].left = @ \ {u}]
    /\ UNCHANGED <<people, directory, unpruned, post, clock, budget>>

Pruned(r) == req' = [req EXCEPT ![r].pc = "create", ![r].cur = {}, ![r].stale = {}]

WithinCap(u) == Cardinality(Of(u)) <= Cap

Count(r) ==
    /\ req[r].pc = "count"
    /\ IF \A u \in req[r].cur : WithinCap(u) THEN Pruned(r) ELSE Goto(r, "find")
    /\ UNCHANGED <<people, directory, records, post, clock, budget>>

(* Mutant: sorted from the oldest. *)
AllButOldest(u) == {n.id : n \in {m \in Of(u) : Cardinality(Of(u)) - Cardinality(Newer(m)) > Cap}}

(* Sorted from the newest, all but the first Cap. *)
Stale(u) == {n.id : n \in {m \in Of(u) : Cardinality(Newer(m)) >= Cap}}

FindStale(r) ==
    /\ req[r].pc = "find"
    /\ req' = [req EXCEPT ![r].pc = "delete", ![r].stale = UNION {Stale(u) : u \in req[r].cur}]
    /\ UNCHANGED <<people, directory, records, post, clock, budget>>

DeleteStale(r) ==
    /\ req[r].pc = "delete"
    /\ store' = {n \in store : n.id \notin req[r].stale}
    /\ Pruned(r)
    /\ UNCHANGED <<people, directory, nextId, unpruned, post, clock, budget>>

(* The database fails: the call ends with what it has stored, no e-mail is   *)
(* sent and the client swallows the error.                                   *)
StoreFails(r) ==
    /\ req[r].pc \in {"create", "count", "find", "delete"}
    /\ req[r].pc = "create" => req[r].left # {}
    /\ Spend("faults")
    /\ unpruned' = unpruned + Cardinality(req[r].cur)
    /\ Finish(r)
    /\ UNCHANGED <<people, directory, store, nextId, post, clock>>

(* All are stored: the e-mails go out behind the answer, if a transport is   *)
(* configured.                                                               *)
Stored(r) ==
    /\ req[r].pc = "create" /\ req[r].left = {}
    /\ mails' = mails \cup (IF req[r].type \notin MailTypes \/ "email" \notin budget.config THEN {}
                            ELSE {[id |-> nextId, to |-> u, pc |-> "resolve"] : u \in req[r].to})
    /\ nextId' = nextId + 1
    /\ Finish(r)
    /\ UNCHANGED <<people, directory, store, unpruned, address, accounts, clock, failedAt, budget>>

-----------------------------------------------------------------------------
(* E-mail: resolveEmail and send. *)

(* Mutant: what is cached is believed for ever. *)
AddressKept(u, now) == address[u].known # "unknown"

AddressFresh(u, now) == address[u].known # "unknown" /\ address[u].expires > now

Step(m, pc) == mails' = (mails \ {m}) \cup {[m EXCEPT !.pc = pc]}
Drop(m) == mails' = mails \ {m}

ResolveEmail(m) ==
    /\ m.pc = "resolve"
    /\ IF "lookup" \notin budget.config THEN Drop(m)
       ELSE IF ~AddressFresh(m.to, clock) THEN Step(m, "fetch")
       ELSE IF address[m.to].known = "address" THEN Step(m, "send") ELSE Drop(m)
    /\ UNCHANGED <<people, directory, req, records, address, accounts, clock, failedAt, budget>>

Remember(m, known) ==
    address' = [address EXCEPT ![m.to] = [known |-> known, expires |-> clock + AddressTTL]]

(* A user without an address and a name that is not a sub are remembered,    *)
(* too.                                                                      *)
FetchEmail(m) ==
    /\ m.pc = "fetch"
    /\ IF m.to \in mailbox THEN Remember(m, "address") /\ Step(m, "send")
       ELSE Remember(m, "nothing") /\ Drop(m)
    /\ UNCHANGED <<people, directory, req, records, accounts, clock, failedAt, budget>>

(* A lookup that fails is remembered as a user without an address. *)
FetchFails(m) ==
    /\ m.pc = "fetch"
    /\ Spend("faults")
    /\ Remember(m, "nothing")
    /\ failedAt' = [failedAt EXCEPT ![m.to] = clock]
    /\ Drop(m)
    /\ UNCHANGED <<people, directory, req, records, accounts, clock>>

(* The provider takes the e-mail ... *)
SendEmail(m) ==
    /\ m.pc = "send"
    /\ Drop(m)
    /\ UNCHANGED <<people, directory, req, records, address, accounts, clock, failedAt, budget>>

(* ... or refuses it, which is logged: nobody sends it again.                *)
SendFails(m) ==
    /\ m.pc = "send"
    /\ Spend("faults")
    /\ Drop(m)
    /\ UNCHANGED <<people, directory, req, records, address, accounts, clock, failedAt>>

-----------------------------------------------------------------------------
ServerInit ==
    /\ budget \in Budgets
    /\ role \in budget.crews
    /\ mailbox \in budget.mailboxes
    /\ directory = [ids |-> {}, expires |-> 0]
    /\ req = [r \in Requests |-> NoRequest]
    /\ store = {}
    /\ nextId = 0
    /\ unpruned = 0
    /\ mails = {}
    /\ address = [u \in Recipients |-> [known |-> "unknown", expires |-> 0]]
    /\ clock = 0
    /\ since = [u \in Users |-> Never]
    /\ heldTo = [u \in Users |-> Never]
    /\ lackedTo = [u \in Users |-> Never]
    /\ failedAt = [u \in Recipients |-> Never]

Sending(r) ==
    \/ Ask(r) \/ Learn(r) \/ AskFails(r) \/ Lose(r) \/ Post(r)
    \/ \E k \in Query : Answer(r, k)
    \/ \E u \in Recipients : Create(r, u)
    \/ Count(r) \/ FindStale(r) \/ DeleteStale(r) \/ StoreFails(r) \/ Stored(r)

Mailing(m) == ResolveEmail(m) \/ FetchEmail(m) \/ FetchFails(m) \/ SendEmail(m) \/ SendFails(m)

ServerNext ==
    \/ Tick
    \/ \E u \in Users, k \in Roles : ChangeRole(u, k)
    \/ \E u \in Users : ChangeEmail(u)
    \/ \E r \in Requests, op \in Operations : Operate(r, op)
    \/ \E r \in Requests : Sending(r)
    \/ \E m \in mails : Mailing(m)

-----------------------------------------------------------------------------
(* Every variable of the server side has its type. *)
ServerTypeOK ==
    /\ role \in [Users -> Roles]
    /\ directory \in [ids : SUBSET Users, expires : Int]
    /\ req \in [Requests -> RequestType]
    /\ store \subseteq Record
    /\ nextId \in Nat
    /\ unpruned \in Nat
    /\ mails \subseteq Mail
    /\ address \in [Recipients -> [known : {"unknown", "address", "nothing"}, expires : Int]]
    /\ clock \in Nat
    /\ since \in [Users -> Int]
    /\ heldTo \in [Users -> Int]
    /\ mailbox \subseteq Users
    /\ lackedTo \in [Users -> Int]
    /\ failedAt \in [Recipients -> Int]

(* Pruning never takes a record that is among the newest of its recipient,   *)
(* however the prunes of several senders interleave.                         *)
KeepsNewest ==
    \A n \in store :
      (\A m \in store' : m.id # n.id)
      => Cardinality({m \in store' : m.to = n.to /\ m.id > n.id}) >= Cap
PruneKeepsNewest == [][KeepsNewest]_store

(* A recipient has no more records than the cap, but for the calls that are  *)
(* between a record and its prune and for the prunes that failed.            *)
CapHeld ==
    \A u \in Recipients :
      Cardinality(Of(u)) <= Cap + Cardinality({r \in Requests : u \in req[r].cur}) + unpruned

(* Whom a submission or an upload tells: nobody who held no role during the  *)
(* time to live of the list, and, unless Keycloak did not answer, everybody  *)
(* (but the uploader) whose role is older than that.                         *)
AsOf(r) == IF req[r].pc = "ask" THEN clock - DirectoryTTL + 1 ELSE req[r].asked
HeldSince(u, t) == role[u] # "none" \/ heldTo[u] >= t
TellsHolders(r) ==
    (req[r].pc \in {"ask", "roles"} /\ req'[r].pc = "post")
    => /\ \A u \in req'[r].to : HeldSince(u, AsOf(r))
       /\ budget' = budget =>
            \A u \in Users :
              role[u] # "none" /\ since[u] < AsOf(r) /\ (req[r].type = "SUBMITTED" \/ u # req[r].op.actor)
              => u \in req'[r].to
DirectoryExact == [][\A r \in Requests : TellsHolders(r)]_serverVars

(* No e-mail is withheld from the provider for an answer that has expired:   *)
(* whoever has had an address for AddressTTL gets it, unless the lookup is   *)
(* not configured or has failed within that time.                            *)
Withheld(m) ==
    m \notin mails' /\ m.pc \in {"resolve", "fetch"} /\ \A n \in mails' : n.id # m.id \/ n.to # m.to
Within(t) == t > clock - AddressTTL
MailExplained ==
    [][\A m \in mails : Withheld(m) =>
          \/ m.to \notin mailbox
          \/ Within(lackedTo[m.to])
          \/ "lookup" \notin budget.config
          \/ Within(failedAt'[m.to])]_serverVars

(* Every operation is answered: nothing in the chain of calls behind it      *)
(* waits for ever.                                                           *)
SendersEnd == \A r \in Requests : req[r].pc # "idle" ~> req[r].pc = "idle"

(* Stated of the code and refuted (README): the owner of a document is told  *)
(* that it was archived; what is stored is addressed to a sub; everybody who *)
(* holds one of the two roles all along is told.                             *)
OwnerTold == \A r \in Requests :
    (req[r].pc = "post" /\ req[r].type = "ARCHIVED") => req[r].op.owner \in req[r].to
StoredBySub == \A n \in store : n.to \in Users
=============================================================================
