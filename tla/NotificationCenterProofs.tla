---------------------- MODULE NotificationCenterProofs ----------------------
(***************************************************************************)
(* Proofs about Notifications and NotificationCenter, for any users,       *)
(* requests, operations, caps, times to live and budgets.                  *)
(*                                                                         *)
(* Each property gets the invariant it needs.                              *)
(*   StoreInv      an id is given once, in order, and a browser changes no *)
(*                 record but that it is read.                             *)
(*   PageInv       what the page has, fetched or remembered for a rollback *)
(*                 is the reader's for ever; what a rollback would bring   *)
(*                 back is behind only when the mutations overlapped.      *)
(*   MailInv       an address is believed missing no longer than the last  *)
(*                 failed lookup, or the last moment without one, explains.*)
(*   StaleInv      what a prune is about to delete has Cap newer records   *)
(*                 still, whatever other prunes have deleted meanwhile.    *)
(*   CapInv        whichever of the prunes under way delete what they      *)
(*                 found, no more is left than the other calls explain.    *)
(*   DirectoryInv  the list of approvers, and each of the two answers of a *)
(*                 request under way, has who held the role all along and  *)
(*                 nobody who did not hold one since the question.         *)
(*                                                                         *)
(* Induction over sizes is by the least number (LeastNumber): Greatest     *)
(* finds the newest Cap records, FreshAreFew counts what a prune leaves.   *)
(***************************************************************************)
EXTENDS NotificationCenter, FiniteSetTheorems, WellFoundedInduction, TLAPS

(* What is known of a sender at each stage.                                   *)
Shaped(q) ==
    /\ q.cur = {} \/ \E u \in Recipients : q.cur = {u}
    /\ q.pc \notin {"count", "find", "delete"} => q.cur = {}
    /\ q.pc # "delete" => q.stale = {}
    /\ q.pc \in {"ask", "roles"} => q.type = q.op.kind /\ AsksDirectory(q.op)

TypeInv ==
    /\ NotifyTypeOK /\ budget \in BudgetType
    /\ \A r \in Requests : Shaped(req[r])

-----------------------------------------------------------------------------
(* What a step can do to which part of the state. *)

LEMMA Constants ==
    /\ DirectoryTTL \in Nat \ {0} /\ AddressTTL \in Nat \ {0} /\ Cap \in Nat \ {0}
    /\ Never \in Int /\ IsFiniteSet(Requests) /\ Users \cap Usernames = {}
BY NotificationsAssumption DEF NotificationsAssumption, Never

LEMMA Spent ==
    ASSUME budget \in BudgetType,
           NEW part \in {"operations", "faults", "moves", "ticks", "clicks", "fetches", "bells"},
           Spend(part)
    PROVE  budget' \in BudgetType /\ budget' # budget
<1>1. budget[part] \in Nat /\ budget[part] - 1 \in Nat
    BY DEF BudgetType, Spend
<1>2. budget' = [budget EXCEPT ![part] = budget[part] - 1]
    BY DEF Spend
<1>3. budget' \in BudgetType
    BY <1>1, <1>2 DEF BudgetType
<1>4. budget'[part] = budget[part] - 1
    BY <1>1, <1>2 DEF BudgetType
<1> QED
    BY <1>1, <1>3, <1>4

(* A browser changes no more of the servers than that records are read.       *)
Marks ==
    \/ store' = store
    \/ \E id \in Nat : store' = ReadOne(store, id)
    \/ store' = (store \ Of(Reader)) \cup ReadAll(Of(Reader))

LEMMA WebLeaves ==
    ASSUME TypeInv, PageNext \/ BellNext
    PROVE  /\ UNCHANGED <<people, directory, req, nextId, unpruned, post, clock>>
           /\ budget' \in BudgetType
           /\ Marks
<1>1. budget \in BudgetType /\ one.id \in Nat /\ bell.sent \subseteq Nat
    BY DEF TypeInv, NotifyTypeOK
<1>2. CASE PageNext
  <2>1. CASE Refetch
    BY <2>1, <1>1, Spent DEF Refetch, records, post, Marks
  <2>2. CASE ServeList \/ ListArrives \/ OneDone \/ AllDone
    BY <2>2, <1>1 DEF ServeList, ListArrives, OneDone, AllDone, serverVars, people, records, post, Marks
  <2>3. CASE (\E n \in page.shown : MarkOne(n)) \/ MarkAll
    BY <2>3, <1>1, Spent DEF MarkOne, MarkAll, records, post, Marks
  <2>4. CASE ApplyOne
    BY <2>4, <1>1 DEF ApplyOne, Serve, records, post, Marks
  <2>5. CASE ApplyAll
    BY <2>5, <1>1 DEF ApplyAll, Serve, records, post, Marks
  <2>6. CASE OneFails \/ AllFails
    BY <2>6, <1>1, Spent DEF OneFails, AllFails, records, post, Marks
  <2> QED
    BY <1>2, <2>1, <2>2, <2>3, <2>4, <2>5, <2>6 DEF PageNext
<1>3. CASE BellNext
  <2>1. CASE PollBadge \/ OpenBell
    BY <2>1, <1>1, Spent DEF PollBadge, OpenBell, records, post, Marks
  <2>2. CASE BellReadAll
    BY <2>2, <1>1 DEF BellReadAll, Serve, records, post, Marks
  <2>3. CASE \E n \in bell.list : BellRead(n)
    BY <2>3, <1>1, Spent DEF BellRead, records, post, Marks
  <2>4. ASSUME NEW id \in bell.sent, BellReadApplied(id) \/ BellReadFails(id)
        PROVE  /\ UNCHANGED <<people, directory, req, nextId, unpruned, post, clock>>
               /\ budget' \in BudgetType
               /\ Marks
    <3>1. CASE BellReadApplied(id)
      BY <3>1, <1>1, <2>4 DEF BellReadApplied, Serve, records, post, Marks
    <3>2. CASE BellReadFails(id)
      BY <3>2, <1>1, <2>4, Spent DEF BellReadFails, records, post, Marks
    <3> QED
      BY <2>4, <3>1, <3>2
  <2> QED
    BY <1>3, <2>1, <2>2, <2>3, <2>4 DEF BellNext
<1> QED
    BY <1>2, <1>3

(* Every step is one of a server, of a browser, or a stutter.                 *)
LEMMA WhoSteps ==
    ASSUME [Next]_vars
    PROVE  \/ ServerNext /\ UNCHANGED webVars
           \/ PageNext \/ BellNext
           \/ UNCHANGED vars
<1>1. Next \/ UNCHANGED vars
    OBVIOUS
<1> QED
    BY <1>1 DEF Next

-----------------------------------------------------------------------------
(* Types. *)

LEMMA NoRequestType == NoRequest \in RequestType /\ Shaped(NoRequest)
<1>1. AnyOperation \in Operations
    BY NotificationsAssumption DEF NotificationsAssumption, AnyOperation
<1>2. AnyOperation.kind \in Kinds
    BY <1>1, NotificationsAssumption DEF NotificationsAssumption, Operation
<1> QED
    BY <1>1, <1>2 DEF NoRequest, RequestType, Steps, Shaped

LEMMA NamedType ==
    ASSUME NEW op \in Operations
    PROVE  op.kind \in Kinds /\ op.actor \in Users /\ Named(op) \subseteq Recipients
<1>1. op \in Operation
    BY NotificationsAssumption DEF NotificationsAssumption
<1> QED
    BY <1>1 DEF Operation, Named, Recipients

(* The next request of a sender, whose directory has answered with ids.       *)
ListedAs(q, ids) ==
    LET to == IF q.op.kind = "VERSION_UPLOADED" THEN ids \ {q.op.actor} ELSE ids
    IN IF q.op.kind = "VERSION_UPLOADED" /\ to = {} THEN NoRequest
       ELSE [q EXCEPT !.pc = "post", !.to = to, !.left = to]

LEMMA ListedType ==
    ASSUME NEW q \in RequestType, Shaped(q), q.pc \in {"ask", "roles"}, NEW ids \in SUBSET Users
    PROVE  ListedAs(q, ids) \in RequestType /\ Shaped(ListedAs(q, ids))
<1> DEFINE to == IF q.op.kind = "VERSION_UPLOADED" THEN ids \ {q.op.actor} ELSE ids
<1>1. CASE q.op.kind = "VERSION_UPLOADED" /\ to = {}
    BY <1>1, NoRequestType DEF ListedAs
<1>2. CASE ~(q.op.kind = "VERSION_UPLOADED" /\ to = {})
  <2>1. ListedAs(q, ids) = [q EXCEPT !.pc = "post", !.to = to, !.left = to]
    BY <1>2 DEF ListedAs
  <2>2. to \in SUBSET Recipients
    BY DEF Recipients
  <2> HIDE DEF to
  <2> QED
    BY <2>1, <2>2 DEF RequestType, Steps, Shaped
<1> QED
    BY <1>1, <1>2

FinishedAs(q) ==
    IF q.type = "VERSION_UPLOADED" /\ q.op.flagged
    THEN [q EXCEPT !.pc = "post", !.type = "DLP_DETECTED", !.left = q.to, !.cur = {}, !.stale = {}]
    ELSE NoRequest

LEMMA FinishedType ==
    ASSUME NEW q \in RequestType, Shaped(q)
    PROVE  /\ FinishedAs(q) \in RequestType /\ Shaped(FinishedAs(q))
           /\ FinishedAs(q).pc \in {"idle", "post"} /\ FinishedAs(q).cur = {}
<1>1. CASE q.type = "VERSION_UPLOADED" /\ q.op.flagged
    BY <1>1 DEF FinishedAs, RequestType, Steps, Kinds, Shaped
<1>2. CASE ~(q.type = "VERSION_UPLOADED" /\ q.op.flagged)
    BY <1>2, NoRequestType DEF FinishedAs, NoRequest
<1> QED
    BY <1>1, <1>2

Becomes(r, n) == req' = [req EXCEPT ![r] = n]

LEMMA ListedIs ==
    ASSUME NEW r \in Requests, NEW ids, Listed(r, ids), req \in [Requests -> RequestType]
    PROVE  Becomes(r, ListedAs(req[r], ids))
BY DEF Listed, ListedAs, Becomes

LEMMA FinishIs ==
    ASSUME NEW r \in Requests, Finish(r)
    PROVE  Becomes(r, FinishedAs(req[r]))
BY DEF Finish, Finished, FinishedAs, Becomes

LEMMA SenderType ==
    ASSUME TypeInv, NEW r \in Requests, Sending(r)
    PROVE  \E n \in RequestType : Shaped(n) /\ Becomes(r, n)
<1> DEFINE Goal == \E n \in RequestType : Shaped(n) /\ Becomes(r, n)
<1> SUFFICES Goal
    OBVIOUS
<1> DEFINE Fits(n) == n \in RequestType /\ Shaped(n) /\ Becomes(r, n)
<1>1. PICK q \in RequestType : q = req[r]
    BY DEF TypeInv, NotifyTypeOK, ServerTypeOK
<1>2. /\ Shaped(q) /\ directory.ids \in SUBSET Users /\ clock \in Nat
      /\ req \in [Requests -> RequestType] /\ store \subseteq Record
    BY <1>1 DEF TypeInv, NotifyTypeOK, ServerTypeOK
<1>3. ASSUME NEW n, Fits(n) PROVE Goal
    BY <1>3
<1>4. ASSUME NEW ids \in SUBSET Users, q.pc \in {"ask", "roles"}, Listed(r, ids) PROVE Goal
  <2>1. Fits(ListedAs(q, ids))
    BY <1>1, <1>2, <1>4, ListedIs, ListedType
  <2> QED
    BY <1>3, <2>1
<1>5. ASSUME Finish(r) PROVE Goal
  <2>1. Fits(FinishedAs(q))
    BY <1>1, <1>2, <1>5, FinishIs, FinishedType
  <2> QED
    BY <1>3, <2>1
<1> HIDE DEF Goal
<1>6. CASE Ask(r)
  <2>1. CASE DirectoryFresh(clock)
    BY <1>1, <1>2, <1>4, <1>6, <2>1 DEF Ask
  <2>2. CASE ~DirectoryFresh(clock)
    <3> DEFINE n == [q EXCEPT !.pc = "roles", !.asked = clock]
    <3>1. Becomes(r, n)
      BY <1>1, <1>2, <1>6, <2>2 DEF Ask, Becomes
    <3>2. q.pc = "ask"
      BY <1>1, <1>6 DEF Ask
    <3>3. n \in RequestType
      <4>1. clock \in Int /\ "roles" \in Steps
        BY <1>2 DEF Steps
      <4> QED
        BY <4>1 DEF RequestType
    <3>4. Shaped(n)
      <4>1. /\ n.cur = q.cur /\ n.stale = q.stale /\ n.type = q.type /\ n.op = q.op
            /\ n.pc = "roles"
        BY DEF RequestType
      <4> QED
        BY <1>2, <3>2, <4>1 DEF Shaped
    <3> QED
      BY <1>3, <3>1, <3>3, <3>4
  <2> QED
    BY <2>1, <2>2
<1>7. CASE Learn(r)
  <2>1. q.found \in SUBSET Users
    BY DEF RequestType
  <2> QED
    BY <1>1, <1>4, <1>7, <2>1 DEF Learn
<1>8. CASE AskFails(r)
    BY <1>1, <1>4, <1>8 DEF AskFails
<1>9. CASE Lose(r) \/ StoreFails(r) \/ Stored(r)
    BY <1>5, <1>9 DEF Lose, StoreFails, Stored
<1>10. CASE Post(r)
  <2> DEFINE n == [q EXCEPT !.pc = "create"]
  <2>1. Becomes(r, n) /\ q.pc = "post"
    BY <1>1, <1>10 DEF Post, Goto, Becomes
  <2>2. n \in RequestType /\ Shaped(n)
    BY <1>2, <2>1 DEF RequestType, Steps, Shaped
  <2> QED
    BY <1>3, <2>1, <2>2
<1>11. ASSUME NEW k \in Query, Answer(r, k) PROVE Goal
  <2> DEFINE n == [q EXCEPT !.found = @ \cup Holders(k), !.answers = @ \cup {k}]
  <2>1. Becomes(r, n) /\ q.pc = "roles"
    BY <1>1, <1>11 DEF Answer, Becomes
  <2>2. Holders(k) \subseteq Users
    BY DEF Holders
  <2>3. n \in RequestType /\ Shaped(n)
    BY <1>2, <2>1, <2>2 DEF RequestType, Shaped
  <2> QED
    BY <1>3, <2>1, <2>3
<1>12. ASSUME NEW u \in Recipients, Create(r, u) PROVE Goal
  <2> DEFINE n == [q EXCEPT !.pc = "count", !.cur = {u}, !.left = @ \ {u}]
  <2>1. Becomes(r, n) /\ q.pc = "create"
    BY <1>1, <1>12 DEF Create, Becomes
  <2>2. n \in RequestType
    BY <1>2, <2>1 DEF RequestType, Steps
  <2>3. Shaped(n)
    BY <1>2, <2>1 DEF RequestType, Shaped
  <2> QED
    BY <1>3, <2>1, <2>2, <2>3
<1>13. ASSUME Pruned(r) PROVE Goal
  <2> DEFINE n == [q EXCEPT !.pc = "create", !.cur = {}, !.stale = {}]
  <2>1. Becomes(r, n)
    BY <1>1, <1>13 DEF Pruned, Becomes
  <2>2. n \in RequestType /\ Shaped(n)
    BY DEF RequestType, Steps, Shaped
  <2> QED
    BY <1>3, <2>1, <2>2
<1>14. CASE Count(r)
  <2>1. CASE Pruned(r)
    BY <1>13, <2>1
  <2>2. CASE Goto(r, "find")
    <3> DEFINE n == [q EXCEPT !.pc = "find"]
    <3>1. Becomes(r, n) /\ q.pc = "count"
      BY <1>1, <1>14, <2>2 DEF Count, Goto, Becomes
    <3>2. n \in RequestType /\ Shaped(n)
      BY <1>2, <3>1 DEF RequestType, Steps, Shaped
    <3> QED
      BY <1>3, <3>1, <3>2
  <2> QED
    BY <1>14, <2>1, <2>2 DEF Count
<1>15. CASE FindStale(r)
  <2> DEFINE ids == UNION {Stale(u) : u \in q.cur}
             n == [q EXCEPT !.pc = "delete", !.stale = ids]
  <2>1. Becomes(r, n) /\ q.pc = "find"
    BY <1>1, <1>15 DEF FindStale, Becomes
  <2>2. \A u : Stale(u) \subseteq Nat
    BY <1>2 DEF Stale, Of, Record
  <2>3. ids \subseteq Nat
    BY <2>2
  <2>4. n \in RequestType /\ Shaped(n)
    <3> HIDE DEF ids
    <3> QED
      BY <1>2, <2>1, <2>3 DEF RequestType, Steps, Shaped
  <2> QED
    BY <1>3, <2>1, <2>4
<1>16. CASE DeleteStale(r)
    BY <1>13, <1>16 DEF DeleteStale
<1> QED
    BY <1>6, <1>7, <1>8, <1>9, <1>10, <1>11, <1>12, <1>14, <1>15, <1>16 DEF Sending

LEMMA OperateType ==
    ASSUME TypeInv, NEW r \in Requests, NEW op \in Operations, Operate(r, op)
    PROVE  \E n \in RequestType :
             /\ Shaped(n) /\ Becomes(r, n)
             /\ n.pc \in {"ask", "post"} /\ n.cur = {} /\ n.stale = {}
             /\ n.found = {} /\ n.answers = {}
<1> DEFINE to == IF AsksDirectory(op) THEN {} ELSE Named(op)
           n == [NoRequest EXCEPT !.op = op, !.type = op.kind, !.to = to, !.left = to,
                                  !.pc = IF AsksDirectory(op) THEN "ask" ELSE "post"]
<1>1. Becomes(r, n)
    BY DEF Operate, Becomes
<1>2. op.kind \in Kinds /\ to \in SUBSET Recipients
    BY NamedType
<1>3. n \in RequestType
  <2> HIDE DEF to
  <2> QED
    BY <1>2, NoRequestType DEF RequestType, Steps
<1>4. /\ n.op = op /\ n.type = op.kind /\ n.cur = {} /\ n.stale = {}
      /\ n.found = {} /\ n.answers = {}
      /\ n.pc = IF AsksDirectory(op) THEN "ask" ELSE "post"
  <2> HIDE DEF to
  <2> QED
    BY DEF NoRequest
<1>5. Shaped(n)
  <2> HIDE DEF n
  <2> QED
    BY <1>4 DEF Shaped
<1> QED
    BY <1>1, <1>3, <1>4, <1>5

(* The requests keep their types.                                             *)
LEMMA RequestTypes ==
    ASSUME TypeInv, ServerNext
    PROVE  req' \in [Requests -> RequestType] /\ \A r \in Requests : Shaped(req'[r])
<1> DEFINE Goal == req' \in [Requests -> RequestType] /\ \A r \in Requests : Shaped(req'[r])
<1> SUFFICES Goal
    OBVIOUS
<1>1. req \in [Requests -> RequestType] /\ \A r \in Requests : Shaped(req[r])
    BY DEF TypeInv, NotifyTypeOK, ServerTypeOK
<1>2. ASSUME req' = req PROVE Goal
    BY <1>1, <1>2
<1>3. ASSUME NEW r \in Requests, NEW n \in RequestType, Shaped(n), Becomes(r, n) PROVE Goal
    BY <1>1, <1>3 DEF Becomes
<1> HIDE DEF Goal
<1>4. CASE Tick
    BY <1>2, <1>4 DEF Tick
<1>5. ASSUME NEW u \in Users, NEW k \in Roles, ChangeRole(u, k) PROVE Goal
    BY <1>2, <1>5 DEF ChangeRole
<1>9. ASSUME NEW u \in Users, ChangeEmail(u) PROVE Goal
    BY <1>2, <1>9 DEF ChangeEmail
<1>6. ASSUME NEW r \in Requests, NEW op \in Operations, Operate(r, op) PROVE Goal
    BY <1>3, <1>6, OperateType
<1>7. ASSUME NEW r \in Requests, Sending(r) PROVE Goal
    BY <1>3, <1>7, SenderType
<1>8. ASSUME NEW m \in mails, Mailing(m) PROVE Goal
    BY <1>2, <1>8 DEF Mailing, ResolveEmail, FetchEmail, FetchFails, SendEmail, SendFails
<1> QED
    BY <1>4, <1>5, <1>6, <1>7, <1>8, <1>9 DEF ServerNext

LEMMA CurSize ==
    ASSUME NEW q \in RequestType, Shaped(q)
    PROVE  /\ IsFiniteSet(q.cur) /\ Cardinality(q.cur) \in Nat
           /\ \A u \in q.cur : Cardinality(q.cur) = 1
<1>1. CASE q.cur = {}
    BY <1>1, FS_EmptySet
<1>2. ASSUME NEW u \in Recipients, q.cur = {u} PROVE IsFiniteSet(q.cur) /\ Cardinality(q.cur) = 1
    BY <1>2, FS_Singleton
<1> QED
    BY <1>1, <1>2 DEF Shaped

(* What a step of the servers can do to the records.                          *)
LEMMA StoreMoves ==
    ASSUME TypeInv, ServerNext
    PROVE  \/ store' = store /\ nextId' \in {nextId, nextId + 1}
           \/ \E r \in Requests, u \in Recipients : Create(r, u)
           \/ \E r \in Requests : DeleteStale(r)
<1> DEFINE Same == store' = store /\ nextId' \in {nextId, nextId + 1}
<1>1. CASE Tick
    BY <1>1 DEF Tick, records
<1>2. ASSUME NEW u \in Users, NEW k \in Roles, ChangeRole(u, k) PROVE Same
    BY <1>2 DEF ChangeRole, records
<1>6. ASSUME NEW u \in Users, ChangeEmail(u) PROVE Same
    BY <1>6 DEF ChangeEmail, records
<1>3. ASSUME NEW r \in Requests, NEW op \in Operations, Operate(r, op) PROVE Same
    BY <1>3 DEF Operate, records
<1>4. ASSUME NEW m \in mails, Mailing(m) PROVE Same
    BY <1>4 DEF Mailing, ResolveEmail, FetchEmail, FetchFails, SendEmail, SendFails, records
<1>5. ASSUME NEW r \in Requests, Sending(r)
      PROVE  Same \/ (\E u \in Recipients : Create(r, u)) \/ DeleteStale(r)
  <2>1. CASE Ask(r) \/ Learn(r) \/ AskFails(r) \/ Lose(r) \/ Post(r) \/ Count(r) \/ FindStale(r)
    BY <2>1 DEF Ask, Learn, AskFails, Lose, Post, Count, FindStale, records
  <2>2. CASE (\E k \in Query : Answer(r, k)) \/ StoreFails(r) \/ Stored(r)
    BY <2>2 DEF Answer, StoreFails, Stored, records
  <2> QED
    BY <1>5, <2>1, <2>2 DEF Sending
<1> QED
    BY <1>1, <1>2, <1>3, <1>4, <1>5, <1>6 DEF ServerNext

LEMMA RecordTypes ==
    ASSUME TypeInv, ServerNext
    PROVE  store' \subseteq Record /\ nextId' \in Nat
<1>1. store \subseteq Record /\ nextId \in Nat
    BY DEF TypeInv, NotifyTypeOK, ServerTypeOK
<1>2. ASSUME NEW r \in Requests, NEW u \in Recipients, Create(r, u)
      PROVE  store' \subseteq Record /\ nextId' \in Nat
  <2>1. [id |-> nextId, to |-> u, read |-> FALSE] \in Record
    BY <1>1 DEF Record
  <2>2. store' = store \cup {[id |-> nextId, to |-> u, read |-> FALSE]} /\ nextId' = nextId + 1
    BY <1>2 DEF Create
  <2>3. store' \subseteq Record
    BY <1>1, <2>1, <2>2, Zenon
  <2> QED
    BY <1>1, <2>2, <2>3
<1>3. ASSUME NEW r \in Requests, DeleteStale(r)
      PROVE  store' \subseteq Record /\ nextId' \in Nat
    BY <1>1, <1>3 DEF DeleteStale, records
<1> QED
    BY <1>1, <1>2, <1>3, StoreMoves

LEMMA UnprunedType ==
    ASSUME TypeInv, ServerNext
    PROVE  unpruned' \in Nat
<1>1. unpruned \in Nat
    BY DEF TypeInv, NotifyTypeOK, ServerTypeOK
<1>2. ASSUME NEW r \in Requests, StoreFails(r) PROVE unpruned' \in Nat
  <2>1. Cardinality(req[r].cur) \in Nat
    BY CurSize DEF TypeInv, NotifyTypeOK, ServerTypeOK
  <2> QED
    BY <1>1, <1>2, <2>1 DEF StoreFails
<1>3. ASSUME NEW r \in Requests, Sending(r) PROVE unpruned' = unpruned \/ StoreFails(r)
  <2>1. CASE Ask(r) \/ Learn(r) \/ AskFails(r) \/ Lose(r) \/ Post(r) \/ Count(r) \/ FindStale(r)
    BY <2>1 DEF Ask, Learn, AskFails, Lose, Post, Count, FindStale, records
  <2>2. CASE (\E k \in Query : Answer(r, k)) \/ (\E u \in Recipients : Create(r, u))
             \/ DeleteStale(r) \/ Stored(r)
    BY <2>2 DEF Answer, Create, DeleteStale, Stored, records
  <2> QED
    BY <1>3, <2>1, <2>2 DEF Sending
<1>4. CASE Tick \/ (\E u \in Users, k \in Roles : ChangeRole(u, k)) \/ (\E u \in Users : ChangeEmail(u))
    BY <1>1, <1>4 DEF Tick, ChangeRole, ChangeEmail, records
<1>5. ASSUME NEW r \in Requests, NEW op \in Operations, Operate(r, op) PROVE unpruned' = unpruned
    BY <1>5 DEF Operate, records
<1>6. ASSUME NEW m \in mails, Mailing(m) PROVE unpruned' = unpruned
    BY <1>6 DEF Mailing, ResolveEmail, FetchEmail, FetchFails, SendEmail, SendFails, records
<1> QED
    BY <1>1, <1>2, <1>3, <1>4, <1>5, <1>6 DEF ServerNext

(* What it can do to roles, clock and directory.                              *)
LEMMA PeopleMoves ==
    ASSUME TypeInv, ServerNext
    PROVE  /\ UNCHANGED people \/ \E u \in Users, k \in Roles : ChangeRole(u, k)
           /\ clock' \in {clock, clock + 1}
           /\ directory' = directory \/ \E r \in Requests : Learn(r)
           /\ budget' \in BudgetType
<1> DEFINE Goal == /\ UNCHANGED people \/ \E u \in Users, k \in Roles : ChangeRole(u, k)
                   /\ clock' \in {clock, clock + 1}
                   /\ directory' = directory \/ \E r \in Requests : Learn(r)
                   /\ budget' \in BudgetType
<1>1. budget \in BudgetType
    BY DEF TypeInv
<1>2. CASE Tick
    BY <1>1, <1>2, Spent DEF Tick, people
<1>3. ASSUME NEW u \in Users, NEW k \in Roles, ChangeRole(u, k) PROVE Goal
    BY <1>1, <1>3, Spent DEF ChangeRole
<1>7. ASSUME NEW u \in Users, ChangeEmail(u) PROVE Goal
    BY <1>1, <1>7, Spent DEF ChangeEmail, people
<1>4. ASSUME NEW r \in Requests, NEW op \in Operations, Operate(r, op) PROVE Goal
    BY <1>1, <1>4, Spent DEF Operate, people
<1>5. ASSUME NEW m \in mails, Mailing(m) PROVE Goal
  <2>1. CASE FetchFails(m) \/ SendFails(m)
    BY <1>1, <2>1, Spent DEF FetchFails, SendFails, people
  <2>2. CASE ResolveEmail(m) \/ FetchEmail(m) \/ SendEmail(m)
    BY <1>1, <2>2 DEF ResolveEmail, FetchEmail, SendEmail, people
  <2> QED
    BY <1>5, <2>1, <2>2 DEF Mailing
<1>6. ASSUME NEW r \in Requests, Sending(r) PROVE Goal
  <2>1. CASE Ask(r) \/ Post(r) \/ Count(r) \/ FindStale(r) \/ (\E k \in Query : Answer(r, k))
    BY <1>1, <2>1 DEF Ask, Post, Count, FindStale, Answer, people
  <2>2. CASE AskFails(r) \/ Lose(r) \/ StoreFails(r)
    BY <1>1, <2>2, Spent DEF AskFails, Lose, StoreFails, people
  <2>3. CASE (\E u \in Recipients : Create(r, u)) \/ DeleteStale(r) \/ Stored(r)
    BY <1>1, <2>3 DEF Create, DeleteStale, Stored, people
  <2>4. CASE Learn(r)
    BY <1>1, <2>4 DEF Learn, people
  <2> QED
    BY <1>6, <2>1, <2>2, <2>3, <2>4 DEF Sending
<1> QED
    BY <1>2, <1>3, <1>4, <1>5, <1>6, <1>7 DEF ServerNext

LEMMA PeopleTypes ==
    ASSUME TypeInv, ServerNext
    PROVE  /\ role' \in [Users -> Roles] /\ since' \in [Users -> Int] /\ heldTo' \in [Users -> Int]
           /\ clock' \in Nat
           /\ directory' \in [ids : SUBSET Users, expires : Int]
<1>1. /\ role \in [Users -> Roles] /\ since \in [Users -> Int] /\ heldTo \in [Users -> Int]
      /\ clock \in Nat /\ directory \in [ids : SUBSET Users, expires : Int]
      /\ req \in [Requests -> RequestType]
    BY DEF TypeInv, NotifyTypeOK, ServerTypeOK
<1>2. clock' \in Nat /\ clock \in Int
    BY <1>1, PeopleMoves
<1>3. role' \in [Users -> Roles] /\ since' \in [Users -> Int] /\ heldTo' \in [Users -> Int]
  <2>1. CASE UNCHANGED people
    BY <1>1, <2>1 DEF people
  <2>2. ASSUME NEW u \in Users, NEW k \in Roles, ChangeRole(u, k)
        PROVE  role' \in [Users -> Roles] /\ since' \in [Users -> Int] /\ heldTo' \in [Users -> Int]
    <3>1. role' \in [Users -> Roles]
      BY <1>1, <2>2 DEF ChangeRole
    <3>2. since' \in [Users -> Int]
      BY <1>1, <1>2, <2>2 DEF ChangeRole
    <3>3. heldTo' \in [Users -> Int]
      <4>1. PICK t : t = IF role[u] = "none" THEN heldTo[u] ELSE clock
        OBVIOUS
      <4>2. t \in Int
        BY <1>1, <1>2, <4>1
      <4>3. heldTo' = [heldTo EXCEPT ![u] = t]
        BY <2>2, <4>1 DEF ChangeRole
      <4> QED
        BY <1>1, <4>2, <4>3
    <3> QED
      BY <3>1, <3>2, <3>3
  <2> QED
    BY <2>1, <2>2, PeopleMoves
<1>4. directory' \in [ids : SUBSET Users, expires : Int]
  <2>1. ASSUME NEW r \in Requests, Learn(r) PROVE directory' \in [ids : SUBSET Users, expires : Int]
    <3>1. req[r].found \in SUBSET Users /\ req[r].asked + DirectoryTTL \in Int
      BY <1>1, Constants DEF RequestType
    <3> QED
      BY <2>1, <3>1 DEF Learn
  <2> QED
    BY <1>1, <2>1, PeopleMoves
<1> QED
    BY <1>2, <1>3, <1>4

(* What it can do to the e-mails.                                             *)
LEMMA PostMoves ==
    ASSUME TypeInv, ServerNext
    PROVE  \/ UNCHANGED post
           \/ \E u \in Users : ChangeEmail(u)
           \/ \E r \in Requests : Stored(r)
           \/ \E m \in mails : Mailing(m)
<1>1. CASE Tick \/ \E u \in Users, k \in Roles : ChangeRole(u, k)
    BY <1>1 DEF Tick, ChangeRole
<1>2. CASE \E r \in Requests, op \in Operations : Operate(r, op)
    BY <1>2 DEF Operate
<1>3. ASSUME NEW r \in Requests, Sending(r) PROVE UNCHANGED post \/ Stored(r)
  <2>1. CASE Ask(r) \/ Learn(r) \/ AskFails(r) \/ Lose(r) \/ Post(r) \/ Count(r) \/ FindStale(r)
    BY <2>1 DEF Ask, Learn, AskFails, Lose, Post, Count, FindStale
  <2>2. CASE (\E k \in Query : Answer(r, k)) \/ (\E u \in Recipients : Create(r, u))
             \/ DeleteStale(r) \/ StoreFails(r)
    BY <2>2 DEF Answer, Create, DeleteStale, StoreFails
  <2> QED
    BY <1>3, <2>1, <2>2 DEF Sending
<1> QED
    BY <1>1, <1>2, <1>3 DEF ServerNext

AddressType == [known : {"unknown", "address", "nothing"}, expires : Int]

LEMMA RememberType ==
    ASSUME TypeInv, NEW m \in mails, NEW known \in {"address", "nothing"}, Remember(m, known)
    PROVE  address' \in [Recipients -> AddressType]
<1>1. address \in [Recipients -> AddressType] /\ m.to \in Recipients /\ clock + AddressTTL \in Int
    BY Constants DEF TypeInv, NotifyTypeOK, ServerTypeOK, AddressType, Mail
<1>2. [known |-> known, expires |-> clock + AddressTTL] \in AddressType
    BY <1>1 DEF AddressType
<1> QED
    BY <1>1, <1>2 DEF Remember

LEMMA PostTypes ==
    ASSUME TypeInv, ServerNext
    PROVE  /\ mails' \subseteq Mail
           /\ address' \in [Recipients -> AddressType]
           /\ failedAt' \in [Recipients -> Int]
           /\ mailbox' \subseteq Users
           /\ lackedTo' \in [Users -> Int]
<1> DEFINE Goal == /\ mails' \subseteq Mail
                   /\ address' \in [Recipients -> AddressType]
                   /\ failedAt' \in [Recipients -> Int]
                   /\ mailbox' \subseteq Users
                   /\ lackedTo' \in [Users -> Int]
<1>1. /\ mails \subseteq Mail /\ address \in [Recipients -> AddressType]
      /\ failedAt \in [Recipients -> Int] /\ clock \in Int /\ nextId \in Nat
      /\ mailbox \subseteq Users /\ lackedTo \in [Users -> Int]
    BY DEF TypeInv, NotifyTypeOK, ServerTypeOK, AddressType
<1>2. ASSUME UNCHANGED post PROVE Goal
    BY <1>1, <1>2 DEF post, accounts
<1>5. ASSUME NEW u \in Users, ChangeEmail(u) PROVE Goal
  <2>1. mailbox' \subseteq Users
    BY <1>1, <1>5 DEF ChangeEmail
  <2>2. lackedTo' \in [Users -> Int]
    <3>1. PICK t : t = IF u \in mailbox THEN lackedTo[u] ELSE clock
      OBVIOUS
    <3>2. t \in Int
      BY <1>1, <3>1
    <3>3. lackedTo' = [lackedTo EXCEPT ![u] = t]
      BY <1>5, <3>1 DEF ChangeEmail
    <3> QED
      BY <1>1, <3>2, <3>3
  <2> QED
    BY <1>1, <1>5, <2>1, <2>2 DEF ChangeEmail
<1>3. ASSUME NEW r \in Requests, Stored(r) PROVE Goal
  <2>0. mailbox' = mailbox /\ lackedTo' = lackedTo
    BY <1>3 DEF Stored, accounts
  <2>1. \A u \in req[r].to : [id |-> nextId, to |-> u, pc |-> "resolve"] \in Mail
    <3>1. req[r].to \subseteq Recipients
      BY DEF TypeInv, NotifyTypeOK, ServerTypeOK, RequestType
    <3> QED
      BY <1>1, <3>1 DEF Mail
  <2>2. mails' \subseteq Mail
    BY <1>1, <1>3, <2>1 DEF Stored
  <2> QED
    BY <1>1, <1>3, <2>0, <2>2 DEF Stored
<1>4. ASSUME NEW m \in mails, Mailing(m) PROVE Goal
  <2>1. \A s \in {"fetch", "send"} : Step(m, s) => mails' \subseteq Mail
    <3>1. \A s \in {"fetch", "send"} : [m EXCEPT !.pc = s] \in Mail
      BY <1>1 DEF Mail
    <3> QED
      BY <1>1, <3>1 DEF Step
  <2>2. Drop(m) => mails' \subseteq Mail
    BY <1>1 DEF Drop
  <2>0. mailbox' = mailbox /\ lackedTo' = lackedTo
    BY <1>4 DEF Mailing, ResolveEmail, FetchEmail, FetchFails, SendEmail, SendFails, accounts
  <2>3. CASE ResolveEmail(m)
    BY <1>1, <2>0, <2>1, <2>2, <2>3 DEF ResolveEmail
  <2>4. CASE SendEmail(m) \/ SendFails(m)
    BY <1>1, <2>0, <2>2, <2>4 DEF SendEmail, SendFails
  <2>5. CASE FetchEmail(m)
    BY <1>1, <2>0, <2>1, <2>2, <2>5, RememberType DEF FetchEmail
  <2>6. CASE FetchFails(m)
    BY <1>1, <2>0, <2>2, <2>6, RememberType DEF FetchFails
  <2> HIDE DEF Goal
  <2> QED
    BY <1>4, <2>3, <2>4, <2>5, <2>6 DEF Mailing
<1> HIDE DEF Goal
<1>6. Goal
    BY <1>2, <1>3, <1>4, <1>5, PostMoves
<1> QED
    BY <1>6 DEF Goal

LEMMA ServerTypes ==
    ASSUME TypeInv, ServerNext, UNCHANGED webVars
    PROVE  TypeInv'
<1>1. /\ ServerTypeOK' /\ budget' \in BudgetType
      /\ \A r \in Requests : Shaped(req'[r])
    BY RequestTypes, RecordTypes, UnprunedType, PeopleMoves, PeopleTypes, PostTypes
    DEF ServerTypeOK, AddressType
<1>2. /\ page \in [shown : Shown, fetch : Fetch, got : Shown]
      /\ one \in [pc : Progress, id : Nat, previous : Shown]
      /\ all \in [pc : Progress, previous : Shown]
      /\ overlapped \in BOOLEAN
      /\ bell \in [badge : Nat, list : Shown, sent : SUBSET Nat]
    BY DEF TypeInv, NotifyTypeOK
<1> QED
    BY <1>1, <1>2 DEF TypeInv, NotifyTypeOK, webVars

LEMMA ReadTypes ==
    ASSUME NEW list \in Shown, NEW id
    PROVE  ReadOne(list, id) \in Shown /\ ReadAll(list) \in Shown
<1>1. \A n \in list : [n EXCEPT !.read = TRUE] \in Record
    BY DEF Shown, Record
<1>2. ReadAll(list) \subseteq Record
    BY <1>1 DEF ReadAll
<1>3. \A n \in list : (IF n.id = id THEN [n EXCEPT !.read = TRUE] ELSE n) \in Record
    BY <1>1 DEF Shown
<1>4. ReadOne(list, id) \subseteq Record
    BY <1>3 DEF ReadOne
<1> QED
    BY <1>2, <1>4 DEF Shown

LEMMA WebTypes ==
    ASSUME TypeInv, PageNext \/ BellNext
    PROVE  /\ page' \in [shown : Shown, fetch : Fetch, got : Shown]
           /\ one' \in [pc : Progress, id : Nat, previous : Shown]
           /\ all' \in [pc : Progress, previous : Shown]
           /\ overlapped' \in BOOLEAN
           /\ bell' \in [badge : Nat, list : Shown, sent : SUBSET Nat]
<1> DEFINE PageType == [shown : Shown, fetch : Fetch, got : Shown]
           OneType == [pc : Progress, id : Nat, previous : Shown]
           AllType == [pc : Progress, previous : Shown]
           BellType == [badge : Nat, list : Shown, sent : SUBSET Nat]
           Goal == /\ page' \in PageType /\ one' \in OneType /\ all' \in AllType
                   /\ overlapped' \in BOOLEAN /\ bell' \in BellType
<1> SUFFICES Goal
    OBVIOUS
<1>1. /\ page \in PageType /\ one \in OneType /\ all \in AllType
      /\ overlapped \in BOOLEAN /\ bell \in BellType
    BY DEF TypeInv, NotifyTypeOK
<1>2. FirstPage \in Shown /\ {} \in Shown
    BY DEF TypeInv, NotifyTypeOK, ServerTypeOK, FirstPage, Of, Shown
<1>3. NoOne \in OneType /\ NoAll \in AllType
    BY <1>2 DEF NoOne, NoAll, Progress
<1>4. CASE Refetch \/ ServeList \/ ListArrives
  <2>1. one' = one /\ all' = all /\ bell' = bell /\ overlapped' \in BOOLEAN
    BY <1>1, <1>4 DEF Refetch, ServeList, ListArrives
  <2>2. page' \in PageType
    <3>1. CASE Refetch
      BY <1>1, <3>1 DEF Refetch, Fetch
    <3>2. CASE ServeList
      BY <1>1, <1>2, <3>2 DEF ServeList, Fetch
    <3>3. CASE ListArrives
      BY <1>1, <1>2, <3>3 DEF ListArrives, Fetch
    <3> QED
      BY <1>4, <3>1, <3>2, <3>3
  <2> QED
    BY <1>1, <2>1, <2>2
<1>5. ASSUME NEW n \in page.shown, MarkOne(n) PROVE Goal
  <2>1. all' = all /\ bell' = bell /\ overlapped' \in BOOLEAN
    BY <1>1, <1>5 DEF MarkOne
  <2>2. ReadOne(page.shown, n.id) \in Shown /\ n.id \in Nat
    BY <1>1, ReadTypes DEF Shown, Record
  <2>3. page' \in PageType /\ one' \in OneType
    BY <1>1, <1>2, <1>5, <2>2 DEF MarkOne, Optimistic, Fetch, Progress
  <2> QED
    BY <1>1, <2>1, <2>3
<1>6. CASE MarkAll
  <2>1. one' = one /\ bell' = bell /\ overlapped' \in BOOLEAN
    BY <1>1, <1>6 DEF MarkAll
  <2>2. ReadAll(page.shown) \in Shown
    BY <1>1, ReadTypes
  <2>3. page' \in PageType /\ all' \in AllType
    BY <1>1, <1>2, <1>6, <2>2 DEF MarkAll, Optimistic, Fetch, Progress
  <2> QED
    BY <1>1, <2>1, <2>3
<1>7. CASE ApplyOne \/ ApplyAll
    BY <1>1, <1>7 DEF ApplyOne, ApplyAll, Progress
<1>8. CASE OneDone \/ AllDone
    BY <1>1, <1>3, <1>8 DEF OneDone, AllDone
<1>9. CASE OneFails \/ AllFails
    BY <1>1, <1>3, <1>9 DEF OneFails, AllFails, Rollback
<1>10. CASE PollBadge \/ OpenBell
    BY <1>1, <1>2, <1>10 DEF PollBadge, OpenBell, UnreadCount
<1>11. CASE BellReadAll
  <2>1. ReadAll(bell.list) \in Shown
    BY <1>1, ReadTypes
  <2>2. bell' = [bell EXCEPT !.badge = 0, !.list = ReadAll(bell.list)]
    BY <1>11 DEF BellReadAll
  <2>3. bell' \in BellType
    <3> HIDE DEF Goal
    <3> QED
      BY <1>1, <2>1, <2>2
  <2> QED
    BY <1>1, <1>11, <2>3 DEF BellReadAll
<1>12. ASSUME NEW n \in bell.list, BellRead(n) PROVE Goal
  <2>1. ReadOne(bell.list, n.id) \in Shown /\ n.id \in Nat
    BY <1>1, ReadTypes DEF Shown, Record
  <2>2. Decremented(bell.badge) \in Nat
    BY <1>1 DEF Decremented
  <2>3. bell.sent \cup {n.id} \in SUBSET Nat
    BY <1>1, <2>1
  <2>4. bell' \in BellType
    BY <1>12, <2>1, <2>2, <2>3 DEF BellRead
  <2>5. UNCHANGED <<page, one, all, overlapped>>
    BY <1>12 DEF BellRead
  <2> QED
    BY <1>1, <2>4, <2>5
<1>13. ASSUME NEW id \in bell.sent, BellReadApplied(id) \/ BellReadFails(id) PROVE Goal
  <2>1. UNCHANGED <<page, one, all, overlapped>>
    BY <1>13 DEF BellReadApplied, BellReadFails
  <2>2. bell.sent \ {id} \in SUBSET Nat /\ bell.badge + 1 \in Nat
    BY <1>1
  <2>3. CASE BellReadApplied(id)
    BY <1>1, <2>2, <2>3 DEF BellReadApplied
  <2>4. CASE BellReadFails(id)
    BY <1>1, <2>2, <2>4 DEF BellReadFails
  <2>5. bell' \in BellType
    BY <1>13, <2>3, <2>4
  <2> QED
    BY <1>1, <2>1, <2>5
<1> QED
    BY <1>4, <1>5, <1>6, <1>7, <1>8, <1>9, <1>10, <1>11, <1>12, <1>13 DEF PageNext, BellNext

LEMMA MarkTypes ==
    ASSUME TypeInv, Marks
    PROVE  store' \subseteq Record
<1>1. store \in Shown /\ Of(Reader) \in Shown
    BY DEF TypeInv, NotifyTypeOK, ServerTypeOK, Shown, Of
<1>2. ReadAll(Of(Reader)) \in Shown /\ \A id : ReadOne(store, id) \in Shown
    BY <1>1, ReadTypes
<1> QED
    BY <1>1, <1>2 DEF Marks, Shown

LEMMA TypesInit ==
    ASSUME Init
    PROVE  TypeInv
<1>1. /\ budget \in BudgetType /\ role \in [Users -> Roles] /\ mailbox \subseteq Users
    BY NotificationsAssumption DEF NotificationsAssumption, Init, ServerInit, BudgetType
<1>2. req \in [Requests -> RequestType] /\ \A r \in Requests : Shaped(req[r])
    BY NoRequestType DEF Init, ServerInit
<1>3. ServerTypeOK
    BY <1>1, <1>2, Constants DEF Init, ServerInit, ServerTypeOK
<1>4. NotifyTypeOK
    BY <1>3 DEF Init, WebInit, NotifyTypeOK, NoOne, NoAll, Shown, Fetch, Progress
<1> QED
    BY <1>1, <1>2, <1>4 DEF TypeInv

LEMMA TypesStep ==
    ASSUME TypeInv, [Next]_vars
    PROVE  TypeInv'
<1>1. CASE ServerNext /\ UNCHANGED webVars
    BY <1>1, ServerTypes
<1>2. CASE PageNext \/ BellNext
  <2>1. ServerTypeOK /\ \A r \in Requests : Shaped(req[r])
    BY DEF TypeInv, NotifyTypeOK
  <2>2. ServerTypeOK'
    BY <1>2, <2>1, WebLeaves, MarkTypes DEF ServerTypeOK, people, post, accounts
  <2>3. budget' \in BudgetType /\ \A r \in Requests : Shaped(req'[r])
    BY <1>2, <2>1, WebLeaves
  <2> QED
    BY <1>2, <2>2, <2>3, WebTypes DEF TypeInv, NotifyTypeOK
<1>3. CASE UNCHANGED vars
    BY <1>3 DEF vars, serverVars, webVars, people, records, post, accounts, TypeInv, NotifyTypeOK, ServerTypeOK
<1> QED
    BY <1>1, <1>2, <1>3, WhoSteps

(* Every variable has its type.                                               *)
THEOREM NotifyTypes == NotifySpec => []NotifyTypeOK
<1>1. Init => TypeInv
    BY TypesInit
<1>2. TypeInv /\ [Next]_vars => TypeInv'
    BY TypesStep
<1>3. TypeInv => NotifyTypeOK
    BY DEF TypeInv
<1> QED
    BY <1>1, <1>2, <1>3, PTL DEF NotifySpec

-----------------------------------------------------------------------------
(* The records: numbered as they are created, each number once.               *)

StoreInv ==
    /\ TypeInv
    /\ IsFiniteSet(store)
    /\ \A n \in store : n.id < nextId /\ \A m \in store : m.id = n.id => m = n

Ids(u) == {n.id : n \in Of(u)}

(* A browser only marks: every record stays the record it was.                *)
MarkIf(n, marked) == IF marked THEN [n EXCEPT !.read = TRUE] ELSE n

LEMMA MarksOnly ==
    ASSUME TypeInv, Marks
    PROVE  \E S \in SUBSET store : store' = {MarkIf(n, n \in S) : n \in store}
<1>1. CASE store' = store
  <2>1. store' = {MarkIf(n, n \in {}) : n \in store}
    BY <1>1 DEF MarkIf
  <2> QED
    BY <2>1
<1>2. ASSUME NEW id \in Nat, store' = ReadOne(store, id)
      PROVE  \E S \in SUBSET store : store' = {MarkIf(n, n \in S) : n \in store}
  <2> DEFINE S == {n \in store : n.id = id}
  <2>1. store' = {MarkIf(n, n \in S) : n \in store}
    BY <1>2 DEF ReadOne, MarkIf
  <2> QED
    BY <2>1
<1>3. CASE store' = (store \ Of(Reader)) \cup ReadAll(Of(Reader))
  <2>1. store' = {MarkIf(n, n \in Of(Reader)) : n \in store}
    BY <1>3 DEF ReadAll, MarkIf, Of
  <2>2. Of(Reader) \in SUBSET store
    BY DEF Of
  <2> QED
    BY <2>1, <2>2
<1> QED
    BY <1>1, <1>2, <1>3 DEF Marks

LEMMA MarksKeep ==
    ASSUME StoreInv, Marks, nextId' = nextId
    PROVE  /\ IsFiniteSet(store')
           /\ \A n \in store' : n.id < nextId /\ \A m \in store' : m.id = n.id => m = n
           /\ \A u : Ids(u)' = Ids(u)
           /\ \A n \in store : \E m \in store' : m.id = n.id
<1>1. store \subseteq Record
    BY DEF StoreInv, TypeInv, NotifyTypeOK, ServerTypeOK
<1>2. PICK S \in SUBSET store : store' = {MarkIf(n, n \in S) : n \in store}
    BY MarksOnly DEF StoreInv
<1> DEFINE f == [n \in store |-> MarkIf(n, n \in S)]
<1>3. \A n \in store : MarkIf(n, n \in S).id = n.id /\ MarkIf(n, n \in S).to = n.to
    BY <1>1 DEF MarkIf, Record
<1>4. f \in Surjection(store, store')
    BY <1>2 DEF Surjection
<1>5. IsFiniteSet(store')
  <2> HIDE DEF f
  <2> QED
    BY <1>4, FS_Surjection DEF StoreInv
<1>6. \A n \in store' : n.id < nextId /\ \A m \in store' : m.id = n.id => m = n
    BY <1>2, <1>3 DEF StoreInv
<1>7. \A n \in store : \E m \in store' : m.id = n.id /\ m.to = n.to
    BY <1>2, <1>3
<1>8. \A m \in store' : \E n \in store : m.id = n.id /\ m.to = n.to
    BY <1>2, <1>3
<1>9. \A u : Ids(u)' = Ids(u)
  <2> SUFFICES ASSUME NEW u PROVE Ids(u)' = Ids(u)
    OBVIOUS
  <2>1. Ids(u) = {n.id : n \in {m \in store : m.to = u}}
    BY DEF Ids, Of
  <2>2. Ids(u)' = {n.id : n \in {m \in store' : m.to = u}}
    BY DEF Ids, Of
  <2> QED
    BY <1>7, <1>8, <2>1, <2>2
<1> QED
    BY <1>5, <1>6, <1>7, <1>9

LEMMA StoreInit ==
    ASSUME Init
    PROVE  StoreInv
BY TypesInit, FS_EmptySet DEF Init, ServerInit, StoreInv

LEMMA StoreStep ==
    ASSUME StoreInv, [Next]_vars
    PROVE  StoreInv'
<1>1. TypeInv /\ TypeInv'
    BY TypesStep DEF StoreInv
<1>2. store \subseteq Record /\ nextId \in Nat
    BY <1>1 DEF TypeInv, NotifyTypeOK, ServerTypeOK
<1> DEFINE Goal == /\ IsFiniteSet(store')
                   /\ \A n \in store' : n.id < nextId' /\ \A m \in store' : m.id = n.id => m = n
<1>6. Goal => StoreInv'
    BY <1>1 DEF StoreInv
<1>3. ASSUME ServerNext PROVE Goal
  <2>1. ASSUME NEW r \in Requests, NEW u \in Recipients, Create(r, u) PROVE Goal
    <3> DEFINE new == [id |-> nextId, to |-> u, read |-> FALSE]
    <3>1. store' = store \cup {new} /\ nextId' = nextId + 1
      BY <2>1 DEF Create
    <3>2. new.id = nextId /\ \A n \in store : n.id < nextId /\ n.id \in Nat
      BY <1>2 DEF StoreInv, Record
    <3>3. IsFiniteSet(store')
      BY <3>1, FS_AddElement DEF StoreInv
    <3> HIDE DEF new
    <3>4. \A n \in store' : n.id < nextId' /\ \A m \in store' : m.id = n.id => m = n
      BY <1>2, <3>1, <3>2 DEF StoreInv
    <3> QED
      BY <3>3, <3>4
  <2>2. ASSUME NEW r \in Requests, DeleteStale(r) PROVE Goal
    <3>1. store' \subseteq store /\ nextId' = nextId
      BY <2>2 DEF DeleteStale
    <3> QED
      BY <3>1, FS_Subset DEF StoreInv
  <2>3. ASSUME store' = store /\ nextId' \in {nextId, nextId + 1} PROVE Goal
    <3>1. \A n \in store : n.id \in Nat
      BY <1>2 DEF Record
    <3> QED
      BY <1>2, <2>3, <3>1 DEF StoreInv
  <2> QED
    BY <1>1, <1>3, <2>1, <2>2, <2>3, StoreMoves
<1>4. ASSUME PageNext \/ BellNext PROVE Goal
  <2>1. Marks /\ nextId' = nextId
    BY <1>1, <1>4, WebLeaves
  <2> QED
    BY <2>1, MarksKeep
<1>5. ASSUME UNCHANGED vars PROVE Goal
    BY <1>5 DEF vars, serverVars, records, StoreInv
<1> HIDE DEF Goal
<1> QED
    BY <1>3, <1>4, <1>5, <1>6, WhoSteps

-----------------------------------------------------------------------------
(* What the page shows.  Of(Reader) holds the records that browsers mark.     *)

(* A record that the page has seen: whoever has its id is the reader's, and   *)
(* no record will be given that id again.                                     *)
Seen(n) == n.id < nextId /\ \A m \in store : m.id = n.id => m.to = Reader
Behind(n) == n.read /\ ~StoredRead(n)

PageInv ==
    /\ StoreInv
    /\ \A n \in page.shown \cup page.got \cup one.previous \cup all.previous : Seen(n)
    /\ \A n \in page.got : ~Behind(n)
    /\ \A n \in one.previous \cup all.previous : Behind(n) => overlapped
    /\ one.pc = "idle" => one.previous = {}
    /\ all.pc = "idle" => all.previous = {}
    /\ PageTruth

(* Records only become read, are deleted, or are new.                         *)
LEMMA StoreGrows ==
    ASSUME TypeInv, [Next]_vars
    PROVE  /\ nextId' \in Nat /\ nextId <= nextId'
           /\ \A m \in store' : \/ m.id = nextId
                                \/ \E k \in store : k.id = m.id /\ k.to = m.to /\ (k.read => m.read)
<1> DEFINE Old(m) == \E k \in store : k.id = m.id /\ k.to = m.to /\ (k.read => m.read)
<1>1. store \subseteq Record /\ nextId \in Nat
    BY DEF TypeInv, NotifyTypeOK, ServerTypeOK
<1>2. \A m \in store : Old(m)
    OBVIOUS
<1>3. CASE ServerNext
  <2>1. ASSUME NEW r \in Requests, NEW u \in Recipients, Create(r, u)
        PROVE  nextId' = nextId + 1 /\ \A m \in store' : m.id = nextId \/ m \in store
    BY <2>1 DEF Create
  <2>2. ASSUME NEW r \in Requests, DeleteStale(r)
        PROVE  nextId' = nextId /\ store' \subseteq store
    BY <2>2 DEF DeleteStale
  <2>3. nextId' \in {nextId, nextId + 1} /\ \A m \in store' : m.id = nextId \/ m \in store
    BY <1>3, <2>1, <2>2, StoreMoves
  <2> QED
    BY <1>1, <1>2, <2>3
<1>4. ASSUME Marks PROVE \A m \in store' : Old(m)
  <2>1. \A k \in store : LET n == [k EXCEPT !.read = TRUE]
                         IN n.id = k.id /\ n.to = k.to /\ n.read
    BY <1>1 DEF Record
  <2>2. ASSUME NEW id \in Nat, store' = ReadOne(store, id), NEW m \in store' PROVE Old(m)
    BY <2>1, <2>2 DEF ReadOne
  <2>3. ASSUME store' = (store \ Of(Reader)) \cup ReadAll(Of(Reader)), NEW m \in store' PROVE Old(m)
    BY <2>1, <2>3 DEF ReadAll, Of
  <2> QED
    BY <1>2, <1>4, <2>2, <2>3 DEF Marks
<1>5. CASE PageNext \/ BellNext
    BY <1>1, <1>4, <1>5, WebLeaves
<1>6. CASE UNCHANGED vars
    BY <1>1, <1>2, <1>6 DEF vars, serverVars, records
<1> QED
    BY <1>3, <1>5, <1>6, WhoSteps

LEMMA SeenStays ==
    ASSUME TypeInv, [Next]_vars, NEW n \in Record, Seen(n)
    PROVE  Seen(n)' /\ (Behind(n)' => Behind(n))
<1>1. n.id \in Nat /\ nextId \in Nat
    BY DEF Record, TypeInv, NotifyTypeOK, ServerTypeOK
<1>2. \A m \in store' : m.id = n.id => \E k \in store : k.id = m.id /\ k.to = m.to /\ (k.read => m.read)
    BY <1>1, StoreGrows DEF Seen
<1>3. n.id < nextId'
    BY <1>1, StoreGrows DEF Seen
<1> QED
    BY <1>2, <1>3 DEF Seen, Behind, StoredRead

LEMMA PageInit ==
    ASSUME Init
    PROVE  PageInv
<1>1. /\ page.shown = {} /\ page.got = {} /\ one.previous = {} /\ all.previous = {}
    BY DEF Init, WebInit, NoOne, NoAll
<1>2. page.shown \cup page.got \cup one.previous \cup all.previous = {} /\ one.previous \cup all.previous = {}
    BY <1>1
<1>3. PageTruth
    BY <1>1 DEF PageTruth
<1> QED
    BY <1>1, <1>2, <1>3, StoreInit DEF PageInv

LEMMA MarkedIds ==
    ASSUME NEW list \in Shown
    PROVE  /\ \A id : \A n \in ReadOne(list, id) :
                (n.id = id /\ \E k \in list : k.id = id) \/ n \in list
           /\ \A n \in ReadAll(list) : \E k \in list : n.id = k.id
<1>1. \A k \in list : [k EXCEPT !.read = TRUE].id = k.id
    BY DEF Shown, Record
<1>2. ASSUME NEW id, NEW n \in ReadOne(list, id)
      PROVE  (n.id = id /\ \E k \in list : k.id = id) \/ n \in list
  <2>1. PICK k \in list : n = IF k.id = id THEN [k EXCEPT !.read = TRUE] ELSE k
    BY <1>2 DEF ReadOne
  <2> QED
    BY <1>1, <2>1
<1> QED
    BY <1>1, <1>2 DEF ReadAll

LEMMA PageStep ==
    ASSUME PageInv, [Next]_vars
    PROVE  PageInv'
<1> DEFINE Lists == page.shown \cup page.got \cup one.previous \cup all.previous
           Excused(n) == (one.pc = "sent" /\ one.id = n.id) \/ all.pc = "sent" \/ overlapped
           Seens == \A n \in page'.shown \cup page'.got \cup one'.previous \cup all'.previous : Seen(n)'
           Gots == \A n \in page'.got : ~Behind(n)'
           Backs == /\ \A n \in one'.previous \cup all'.previous : Behind(n)' => overlapped'
                    /\ one'.pc = "idle" => one'.previous = {}
                    /\ all'.pc = "idle" => all'.previous = {}
           Truth == \A n \in page'.shown : Behind(n)' =>
                      (one'.pc = "sent" /\ one'.id = n.id) \/ all'.pc = "sent" \/ overlapped'
           Goal == Seens /\ Gots /\ Backs /\ Truth
<1>1. TypeInv /\ StoreInv'
    BY StoreStep DEF PageInv, StoreInv
<1>2. /\ page \in [shown : Shown, fetch : Fetch, got : Shown]
      /\ one \in [pc : Progress, id : Nat, previous : Shown]
      /\ all \in [pc : Progress, previous : Shown]
      /\ overlapped \in BOOLEAN
    BY <1>1 DEF TypeInv, NotifyTypeOK
<1>3. Lists \subseteq Record /\ \A n \in Lists : Seen(n)' /\ (Behind(n)' => Behind(n))
  <2>1. Lists \subseteq Record
    BY <1>2 DEF Shown
  <2> QED
    BY <1>1, <2>1, SeenStays DEF PageInv
<1>4. /\ \A n \in page.got : ~Behind(n)
      /\ \A n \in one.previous \cup all.previous : Behind(n) => overlapped
      /\ one.pc = "idle" => one.previous = {}
      /\ all.pc = "idle" => all.previous = {}
      /\ \A n \in page.shown : Behind(n) => Excused(n)
    BY DEF PageInv, PageTruth, Behind
<1>5. Goal => PageInv'
    BY <1>1 DEF PageInv, PageTruth, Behind
<1>6. ASSUME page'.shown = page.shown, page'.got = page.got, UNCHANGED <<one, all, overlapped>>
      PROVE  Goal
    BY <1>3, <1>4, <1>6
<1>7. ASSUME ServeList PROVE Goal
  <2>1. page'.shown = page.shown /\ page'.got = FirstPage /\ UNCHANGED <<one, all, overlapped>>
        /\ UNCHANGED <<store, nextId>>
    BY <1>2, <1>7 DEF ServeList, serverVars, records
  <2>2. \A n \in FirstPage : Seen(n)' /\ ~Behind(n)'
    BY <2>1 DEF PageInv, StoreInv, FirstPage, Of, Seen, Behind, StoredRead
  <2>3. Seens /\ Gots
    BY <1>3, <2>1, <2>2
  <2> QED
    BY <1>3, <1>4, <2>1, <2>3
<1>8. ASSUME ListArrives PROVE Goal
  <2>1. /\ page'.shown = page.got /\ page'.got = {} /\ UNCHANGED <<one, all>>
        /\ overlapped' = (overlapped /\ (one.pc # "idle" \/ all.pc # "idle"))
    BY <1>8 DEF ListArrives
  <2> QED
    BY <1>3, <1>4, <2>1
<1>9. ASSUME NEW n \in page.shown, MarkOne(n) PROVE Goal
  <2>1. /\ page'.shown = ReadOne(page.shown, n.id) /\ page'.got = {} /\ all' = all
        /\ one'.pc = "sent" /\ one'.id = n.id /\ one'.previous = page.shown
        /\ one.pc = "idle" /\ overlapped' = (overlapped \/ all.pc # "idle")
    BY <1>9 DEF MarkOne, Optimistic
  <2>2. \A k \in page'.shown : k.id = n.id \/ k \in page.shown
    BY <1>2, <2>1, MarkedIds
  <2>3. \A k \in page'.shown : k.id = n.id => Seen(k)'
    BY <1>3 DEF Seen
  <2> QED
    BY <1>3, <1>4, <2>1, <2>2, <2>3
<1>10. ASSUME MarkAll PROVE Goal
  <2>1. /\ page'.shown = ReadAll(page.shown) /\ page'.got = {} /\ one' = one
        /\ all'.pc = "sent" /\ all'.previous = page.shown
        /\ all.pc = "idle" /\ overlapped' = (overlapped \/ one.pc # "idle")
    BY <1>10 DEF MarkAll, Optimistic
  <2>2. \A k \in page'.shown : \E n \in page.shown : k.id = n.id
    BY <1>2, <2>1, MarkedIds
  <2>3. \A k \in page'.shown : Seen(k)'
    BY <1>3, <2>2 DEF Seen
  <2> QED
    BY <1>3, <1>4, <2>1, <2>3
<1>11. ASSUME ApplyOne PROVE Goal
  <2>1. /\ UNCHANGED <<page, all, overlapped>> /\ one'.pc = "applied"
        /\ one'.previous = one.previous /\ one'.id = one.id
        /\ store' = ReadOne(store, one.id)
    BY <1>2, <1>11 DEF ApplyOne, Serve
  <2>2. \A n \in page.shown : n.id = one.id => ~Behind(n)'
    <3>1. store \in Shown
      BY <1>1 DEF TypeInv, NotifyTypeOK, ServerTypeOK, Shown
    <3>2. \A m \in store' : m.id = one.id => m.read
      <4>1. \A k \in store : [k EXCEPT !.read = TRUE].read
        BY <3>1 DEF Shown, Record
      <4> QED
        BY <2>1, <4>1 DEF ReadOne
    <3> QED
      BY <3>2 DEF Behind, StoredRead
  <2> QED
    BY <1>3, <1>4, <2>1, <2>2
<1>12. ASSUME ApplyAll PROVE Goal
  <2>1. /\ UNCHANGED <<page, one, overlapped>> /\ all'.pc = "applied"
        /\ all'.previous = all.previous
        /\ store' = (store \ Of(Reader)) \cup ReadAll(Of(Reader))
    BY <1>2, <1>12 DEF ApplyAll, Serve
  <2>2. \A m \in store' : m.to = Reader => m.read
    <3>1. \A k \in Of(Reader) : [k EXCEPT !.read = TRUE].read
      BY <1>1 DEF TypeInv, NotifyTypeOK, ServerTypeOK, Of, Record
    <3> QED
      BY <2>1, <3>1 DEF ReadAll, Of
  <2>3. \A n \in page.shown : ~Behind(n)'
    BY <1>3, <2>2 DEF Seen, Behind, StoredRead
  <2> QED
    BY <1>3, <1>4, <2>1, <2>3
<1>13. ASSUME OneDone PROVE Goal
  <2>1. UNCHANGED <<page, all, overlapped>> /\ one.pc = "applied" /\ one' = NoOne
    BY <1>13 DEF OneDone
  <2> QED
    BY <1>3, <1>4, <2>1 DEF NoOne
<1>14. ASSUME AllDone PROVE Goal
  <2>1. UNCHANGED <<page, one, overlapped>> /\ all.pc = "applied" /\ all' = NoAll
    BY <1>14 DEF AllDone
  <2> QED
    BY <1>3, <1>4, <2>1 DEF NoAll
<1>15. ASSUME OneFails PROVE Goal
  <2>1. /\ page'.shown = one.previous /\ page'.got = page.got
        /\ UNCHANGED <<all, overlapped>> /\ one' = NoOne
    BY <1>2, <1>15 DEF OneFails, Rollback
  <2> QED
    BY <1>3, <1>4, <2>1 DEF NoOne
<1>16. ASSUME AllFails PROVE Goal
  <2>1. /\ page'.shown = all.previous /\ page'.got = page.got
        /\ UNCHANGED <<one, overlapped>> /\ all' = NoAll
    BY <1>2, <1>16 DEF AllFails, Rollback
  <2> QED
    BY <1>3, <1>4, <2>1 DEF NoAll
<1>17. ASSUME Refetch PROVE Goal
    BY <1>2, <1>6, <1>17 DEF Refetch
<1>18. ASSUME BellNext PROVE Goal
    BY <1>6, <1>18 DEF BellNext, PollBadge, OpenBell, BellReadAll, BellRead, BellReadApplied, BellReadFails
<1>19. ASSUME UNCHANGED webVars PROVE Goal
    BY <1>6, <1>19 DEF webVars
<1>20. UNCHANGED vars => UNCHANGED webVars
    BY DEF vars, webVars
<1> HIDE DEF Goal
<1> QED
    BY <1>5, <1>7, <1>8, <1>9, <1>10, <1>11, <1>12, <1>13, <1>14, <1>15, <1>16, <1>17, <1>18,
       <1>19, <1>20, WhoSteps DEF PageNext

(* What the page shows as read is read, is being read, or the mutations       *)
(* overlapped.                                                                *)
THEOREM PageTellsTruth == NotifySpec => []PageTruth
<1>1. PageInv /\ [Next]_vars => PageInv'
    BY PageStep
<1>2. PageInv => PageTruth
    BY DEF PageInv
<1> QED
    BY PageInit, <1>1, <1>2, PTL DEF NotifySpec

-----------------------------------------------------------------------------
(* The e-mails. *)

(* That a user has no address is believed no longer than for the lookup that  *)
(* failed, or for the last moment at which there was none.                    *)
Justified(u) ==
    \/ u \notin mailbox
    \/ address[u].expires <= lackedTo[u] + AddressTTL
    \/ address[u].expires <= failedAt[u] + AddressTTL

MailInv ==
    /\ TypeInv
    /\ \A u \in Users : address[u].known = "nothing" => Justified(u)
    /\ \A u \in Users : address[u].expires <= clock + AddressTTL

LEMMA PostIsTyped ==
    ASSUME TypeInv
    PROVE  /\ Users \subseteq Recipients /\ clock \in Nat /\ AddressTTL \in Nat \ {0}
           /\ address \in [Recipients -> AddressType] /\ failedAt \in [Recipients -> Int]
           /\ mailbox \subseteq Users /\ lackedTo \in [Users -> Int]
           /\ \A m \in mails : m \in Mail /\ m.to \in Recipients
BY Constants DEF TypeInv, NotifyTypeOK, ServerTypeOK, AddressType, Mail, Recipients

LEMMA MailInit ==
    ASSUME Init
    PROVE  MailInv
<1>1. TypeInv /\ clock = 0 /\ \A u \in Users : address[u].known = "unknown" /\ address[u].expires = 0
    BY TypesInit DEF Init, ServerInit, Recipients
<1> QED
    BY <1>1, Constants DEF MailInv

(* What is remembered of the addresses that a step leaves alone stays so.     *)
LEMMA MailKeeps ==
    ASSUME MailInv, NEW u \in Users, address'[u] = address[u], failedAt'[u] = failedAt[u],
           UNCHANGED accounts, clock' \in {clock, clock + 1}
    PROVE  /\ address'[u].known = "nothing" => Justified(u)'
           /\ address'[u].expires <= clock' + AddressTTL
<1>1. address[u].expires \in Int /\ clock \in Nat /\ AddressTTL \in Nat
    BY PostIsTyped DEF MailInv, AddressType
<1>2. address[u].expires <= clock' + AddressTTL
    BY <1>1 DEF MailInv
<1>3. address[u].known = "nothing" => Justified(u)
    BY DEF MailInv
<1> QED
    BY <1>2, <1>3 DEF Justified, accounts

LEMMA MailStep ==
    ASSUME MailInv, [Next]_vars
    PROVE  MailInv'
<1> DEFINE Holds(u) == /\ address'[u].known = "nothing" => Justified(u)'
                       /\ address'[u].expires <= clock' + AddressTTL
           Goal == \A u \in Users : Holds(u)
<1>1. TypeInv /\ TypeInv'
    BY TypesStep DEF MailInv
<1>2. /\ Users \subseteq Recipients /\ clock \in Nat /\ AddressTTL \in Nat \ {0}
      /\ address \in [Recipients -> AddressType] /\ failedAt \in [Recipients -> Int]
      /\ mailbox \subseteq Users /\ lackedTo \in [Users -> Int]
      /\ \A m \in mails : m.to \in Recipients
    BY <1>1, PostIsTyped
<1>3. ASSUME UNCHANGED <<address, failedAt>>, UNCHANGED accounts, clock' \in {clock, clock + 1} PROVE Goal
    BY <1>3, MailKeeps
<1>4. ASSUME NEW m \in mails, NEW known, Remember(m, known), UNCHANGED accounts, clock' = clock,
             \A u \in Users : u # m.to => failedAt'[u] = failedAt[u],
             known = "nothing" => m.to \notin mailbox \/ failedAt'[m.to] = clock
      PROVE  Goal
  <2> SUFFICES ASSUME NEW u \in Users PROVE Holds(u)
    OBVIOUS
  <2>1. CASE u = m.to
    <3>1. address'[u] = [known |-> known, expires |-> clock + AddressTTL]
      BY <1>2, <1>4, <2>1 DEF Remember
    <3>2. address'[u].known = known /\ address'[u].expires = clock + AddressTTL
      BY <3>1
    <3>3. mailbox' = mailbox
      BY <1>4 DEF accounts
    <3>4. known = "nothing" => Justified(u)'
      BY <1>2, <1>4, <2>1, <3>2, <3>3 DEF Justified
    <3> QED
      BY <1>2, <1>4, <3>2, <3>4
  <2>2. CASE u # m.to
    <3>1. address'[u] = address[u]
      BY <1>2, <1>4, <2>2 DEF Remember
    <3> QED
      BY <1>4, <2>2, <3>1, MailKeeps
  <2> QED
    BY <2>1, <2>2
<1>5. ASSUME NEW v \in Users, ChangeEmail(v) PROVE Goal
  <2>1. /\ address' = address /\ failedAt' = failedAt /\ clock' = clock
        /\ mailbox' = IF v \in mailbox THEN mailbox \ {v} ELSE mailbox \cup {v}
        /\ lackedTo' = [lackedTo EXCEPT ![v] = IF v \in mailbox THEN lackedTo[v] ELSE clock]
    BY <1>5 DEF ChangeEmail
  <2> SUFFICES ASSUME NEW u \in Users PROVE Holds(u)
    OBVIOUS
  <2>2. address[u].expires <= clock + AddressTTL /\ (address[u].known = "nothing" => Justified(u))
    BY DEF MailInv
  <2>3. CASE u # v
    <3>1. (u \in mailbox' <=> u \in mailbox) /\ lackedTo'[u] = lackedTo[u]
      BY <1>2, <2>1, <2>3
    <3> QED
      BY <2>1, <2>2, <3>1 DEF Justified
  <2>4. CASE u = v /\ u \in mailbox
    <3>1. u \notin mailbox'
      BY <2>1, <2>4
    <3> QED
      BY <2>1, <2>2, <3>1 DEF Justified
  <2>5. CASE u = v /\ u \notin mailbox
    <3>1. lackedTo'[u] = clock
      BY <1>2, <2>1, <2>5
    <3> QED
      BY <2>1, <2>2, <3>1 DEF Justified
  <2> QED
    BY <2>3, <2>4, <2>5
<1> HIDE DEF Goal
<1>6. ASSUME NEW m \in mails, Mailing(m) PROVE Goal
  <2>1. clock' = clock /\ UNCHANGED accounts
    BY <1>6 DEF Mailing, ResolveEmail, FetchEmail, FetchFails, SendEmail, SendFails
  <2>2. CASE ResolveEmail(m) \/ SendEmail(m) \/ SendFails(m)
    BY <1>3, <2>1, <2>2 DEF ResolveEmail, SendEmail, SendFails
  <2>3. CASE FetchEmail(m)
    <3>1. failedAt' = failedAt
      BY <2>3 DEF FetchEmail
    <3>2. CASE m.to \in mailbox
      <4>1. Remember(m, "address")
        BY <2>3, <3>2 DEF FetchEmail
      <4> QED
        BY <1>4, <2>1, <3>1, <4>1
    <3>3. CASE m.to \notin mailbox
      <4>1. Remember(m, "nothing")
        BY <2>3, <3>3 DEF FetchEmail
      <4> QED
        BY <1>4, <2>1, <3>1, <3>3, <4>1
    <3> QED
      BY <3>2, <3>3
  <2>4. CASE FetchFails(m)
    <3>1. Remember(m, "nothing") /\ failedAt' = [failedAt EXCEPT ![m.to] = clock]
      BY <2>4 DEF FetchFails
    <3>2. failedAt'[m.to] = clock /\ \A u \in Users : u # m.to => failedAt'[u] = failedAt[u]
      BY <1>2, <3>1
    <3> QED
      BY <1>4, <2>1, <3>1, <3>2
  <2> QED
    BY <1>6, <2>2, <2>3, <2>4 DEF Mailing
<1>7. ASSUME ServerNext PROVE Goal
  <2>1. clock' \in {clock, clock + 1}
    BY <1>1, <1>7, PeopleMoves
  <2>2. \A r \in Requests : Stored(r) => UNCHANGED <<address, failedAt>> /\ UNCHANGED accounts
    BY DEF Stored
  <2>3. UNCHANGED post => UNCHANGED <<address, failedAt>> /\ UNCHANGED accounts
    BY DEF post
  <2> QED
    BY <1>1, <1>3, <1>5, <1>6, <1>7, <2>1, <2>2, <2>3, PostMoves
<1>8. ASSUME PageNext \/ BellNext PROVE Goal
    BY <1>1, <1>3, <1>8, WebLeaves DEF post
<1>9. ASSUME UNCHANGED vars PROVE Goal
    BY <1>3, <1>9 DEF vars, serverVars, post
<1>10. Goal
    BY <1>7, <1>8, <1>9, WhoSteps
<1> QED
    BY <1>1, <1>10 DEF MailInv, Goal

Explained(m) ==
    \/ m.to \notin mailbox
    \/ Within(lackedTo[m.to])
    \/ "lookup" \notin budget.config
    \/ Within(failedAt'[m.to])

(* An e-mail that moves on is still there.                                    *)
LEMMA StepSends ==
    ASSUME TypeInv, NEW m \in mails, NEW s, Step(m, s)
    PROVE  \A n \in mails : ~Withheld(n)
<1>1. [m EXCEPT !.pc = s] \in mails' /\ \A n \in mails : n # m => n \in mails'
    BY DEF Step
<1>2. [m EXCEPT !.pc = s].id = m.id /\ [m EXCEPT !.pc = s].to = m.to
    BY PostIsTyped DEF Mail
<1> QED
    BY <1>1, <1>2 DEF Withheld

LEMMA MailingExplains ==
    ASSUME MailInv, NEW m \in mails, Mailing(m), NEW k \in mails, Withheld(k)
    PROVE  Explained(k)
<1>1. TypeInv /\ clock \in Nat /\ AddressTTL \in Nat \ {0} /\ m.to \in Recipients
    BY PostIsTyped DEF MailInv
<1>2. \A s : ~Step(m, s)
    BY <1>1, StepSends
<1>3. Drop(m) => k = m
    BY DEF Drop, Withheld
<1>4. CASE ResolveEmail(m) /\ "lookup" \notin budget.config
    BY <1>3, <1>4 DEF ResolveEmail, Explained
<1>5. CASE ResolveEmail(m) /\ "lookup" \in budget.config
  <2>1. AddressFresh(m.to, clock) /\ address[m.to].known # "address" /\ Drop(m)
    BY <1>2, <1>5 DEF ResolveEmail
  <2>2. address[m.to].known \in {"unknown", "address", "nothing"} /\ address[m.to].expires \in Int
    BY <1>1, PostIsTyped DEF AddressType
  <2>3. address[m.to].known = "nothing" /\ address[m.to].expires > clock
    BY <2>1, <2>2 DEF AddressFresh
  <2>4. failedAt' = failedAt /\ failedAt[m.to] \in Int /\ mailbox \subseteq Users
    BY <1>1, <1>5, PostIsTyped DEF ResolveEmail
  <2>5. m.to \in Users => Justified(m.to) /\ lackedTo[m.to] \in Int
    BY <1>1, <2>3, PostIsTyped DEF MailInv
  <2>6. Explained(m)
    BY <1>1, <2>2, <2>3, <2>4, <2>5 DEF Explained, Justified, Within
  <2> QED
    BY <1>3, <2>1, <2>6
<1>6. CASE FetchEmail(m)
    BY <1>2, <1>3, <1>6 DEF FetchEmail, Explained
<1>7. CASE FetchFails(m)
  <2>1. failedAt'[m.to] = clock
    BY <1>1, <1>7, PostIsTyped DEF FetchFails
  <2>2. Within(clock)
    BY <1>1 DEF Within
  <2> QED
    BY <1>3, <1>7, <2>1, <2>2 DEF FetchFails, Explained
<1>8. CASE SendEmail(m) \/ SendFails(m)
    BY <1>3, <1>8 DEF SendEmail, SendFails, Withheld
<1> QED
    BY <1>4, <1>5, <1>6, <1>7, <1>8 DEF Mailing

(* No e-mail is withheld from the provider for an answer that has expired:    *)
(* its recipient has no address or has had none for less than the time that   *)
(* an address is remembered, a lookup failed within that time, or lookups are *)
(* not configured.                                                            *)
THEOREM MailsExplained == NotifySpec => MailExplained
<1>1. MailInv /\ [Next]_vars => MailInv'
    BY MailStep
<1>2. MailInv /\ [Next]_vars => [\A m \in mails : Withheld(m) => Explained(m)]_serverVars
  <2> SUFFICES ASSUME MailInv, [Next]_vars, NEW k \in mails, Withheld(k) PROVE Explained(k)
    OBVIOUS
  <2>1. TypeInv
    BY DEF MailInv
  <2>2. mails' # mails
    BY DEF Withheld
  <2>3. CASE ServerNext
    <3>1. ASSUME NEW r \in Requests, Stored(r) PROVE mails \subseteq mails'
      BY <3>1 DEF Stored
    <3>2. (\A r \in Requests : ~Stored(r)) /\ (\A u \in Users : ~ChangeEmail(u))
      BY <2>2, <3>1 DEF Withheld, ChangeEmail
    <3>3. PICK m \in mails : Mailing(m)
      BY <2>1, <2>2, <2>3, <3>2, PostMoves DEF post
    <3> QED
      BY <3>3, MailingExplains
  <2>4. CASE PageNext \/ BellNext
    BY <2>1, <2>2, <2>4, WebLeaves DEF post
  <2>5. CASE UNCHANGED vars
    BY <2>2, <2>5 DEF vars, serverVars, post
  <2> QED
    BY <2>3, <2>4, <2>5, WhoSteps
<1>3. MailInv /\ [Next]_vars =>
        [\A m \in mails : Withheld(m) =>
           \/ m.to \notin mailbox
           \/ Within(lackedTo[m.to])
           \/ "lookup" \notin budget.config
           \/ Within(failedAt'[m.to])]_serverVars
    BY <1>2, Zenon DEF Explained
<1> QED
    BY MailInit, <1>1, <1>3, PTL DEF NotifySpec, MailExplained

-----------------------------------------------------------------------------
(* What the steps of the servers and of the browsers mean for pruning: they   *)
(* leave the ids alone, or are one of the five of notification-service.       *)

(* A request moves, not by pruning.                                           *)
Quiet(r) ==
    /\ UNCHANGED <<store, unpruned>>
    /\ req[r].pc # "delete"
    /\ \E n \in RequestType : Becomes(r, n) /\ n.pc # "delete" /\ n.cur = req[r].cur

(* The cap holds: nothing to prune.                                           *)
Passes(r) == Count(r) /\ Pruned(r) /\ \A u \in req[r].cur : WithinCap(u)

LEMMA QuietMoves ==
    ASSUME TypeInv, NEW r \in Requests, Sending(r)
    PROVE  \/ Quiet(r)
           \/ FindStale(r) \/ DeleteStale(r) \/ StoreFails(r) \/ Passes(r)
           \/ \E u \in Recipients : Create(r, u)
<1>1. PICK q \in RequestType : q = req[r]
    BY DEF TypeInv, NotifyTypeOK, ServerTypeOK
<1>2. /\ Shaped(q) /\ directory.ids \in SUBSET Users /\ clock \in Int
      /\ req \in [Requests -> RequestType]
    BY <1>1 DEF TypeInv, NotifyTypeOK, ServerTypeOK
<1>3. PICK n \in RequestType : Becomes(r, n) /\ Shaped(n)
    BY SenderType
<1>4. n = req'[r]
    BY <1>2, <1>3 DEF Becomes
<1>5. ASSUME UNCHANGED <<store, unpruned>>, q.pc # "delete", n.pc # "delete", n.cur = q.cur
      PROVE  Quiet(r)
    BY <1>1, <1>3, <1>5 DEF Quiet
<1>6. NoRequest.pc = "idle" /\ NoRequest.cur = {}
    BY DEF NoRequest
<1>7. ASSUME NEW ids \in SUBSET Users, q.pc \in {"ask", "roles"}, Listed(r, ids)
      PROVE  n.pc # "delete" /\ n.cur = q.cur
  <2>1. n = ListedAs(q, ids)
    BY <1>1, <1>2, <1>4, <1>7, ListedIs DEF Becomes
  <2>2. n.pc \in {"idle", "post"}
    BY <1>6, <2>1 DEF ListedAs, RequestType
  <2> QED
    BY <1>2, <1>3, <1>7, <2>2 DEF Shaped
<1>8. Finish(r) => n.pc # "delete" /\ n.cur = {}
  <2>1. Finish(r) => n = FinishedAs(q)
    BY <1>1, <1>2, <1>4, FinishIs DEF Becomes
  <2> QED
    BY <1>2, <2>1, FinishedType
<1>9. CASE Ask(r)
  <2>1. n.pc # "delete" /\ n.cur = q.cur
    <3>1. CASE DirectoryFresh(clock)
      BY <1>1, <1>2, <1>7, <1>9, <3>1 DEF Ask
    <3>2. CASE ~DirectoryFresh(clock)
      <4>1. n = [q EXCEPT !.pc = "roles", !.asked = clock]
        BY <1>1, <1>2, <1>4, <1>9, <3>2 DEF Ask
      <4> QED
        BY <4>1 DEF RequestType
    <3> QED
      BY <3>1, <3>2
  <2> QED
    BY <1>1, <1>5, <1>9, <2>1 DEF Ask, records
<1>10. CASE Learn(r)
  <2>1. q.found \in SUBSET Users
    BY DEF RequestType
  <2> QED
    BY <1>1, <1>5, <1>7, <1>10, <2>1 DEF Learn, records
<1>11. CASE AskFails(r)
    BY <1>1, <1>5, <1>7, <1>11 DEF AskFails, records
<1>12. CASE Lose(r)
    BY <1>1, <1>2, <1>5, <1>8, <1>12 DEF Lose, records, Shaped
<1>13. CASE Stored(r)
    BY <1>1, <1>2, <1>5, <1>8, <1>13 DEF Stored, Shaped
<1>14. CASE Post(r)
  <2>1. n = [q EXCEPT !.pc = "create"]
    BY <1>1, <1>2, <1>4, <1>14 DEF Post, Goto
  <2> QED
    BY <1>1, <1>5, <1>14, <2>1 DEF Post, records, RequestType
<1>15. ASSUME NEW k \in Query, Answer(r, k) PROVE Quiet(r)
  <2>1. n = [q EXCEPT !.found = @ \cup Holders(k), !.answers = @ \cup {k}]
    BY <1>1, <1>2, <1>4, <1>15 DEF Answer
  <2>2. n.pc = q.pc /\ n.cur = q.cur
    BY <2>1 DEF RequestType
  <2> QED
    BY <1>1, <1>5, <1>15, <2>2 DEF Answer, records
<1>16. CASE Count(r)
  <2>1. CASE \A u \in q.cur : WithinCap(u)
    BY <1>1, <1>16, <2>1 DEF Count, Passes
  <2>2. CASE ~(\A u \in q.cur : WithinCap(u))
    <3>1. n = [q EXCEPT !.pc = "find"]
      BY <1>1, <1>2, <1>4, <1>16, <2>2 DEF Count, Goto
    <3>2. n.pc = "find" /\ n.cur = q.cur
      BY <3>1 DEF RequestType
    <3> QED
      BY <1>1, <1>5, <1>16, <3>2 DEF Count, records
  <2> QED
    BY <2>1, <2>2
<1> QED
    BY <1>9, <1>10, <1>11, <1>12, <1>13, <1>14, <1>15, <1>16 DEF Sending

(* Nothing that pruning looks at changes.                                     *)
Aside == UNCHANGED <<req, unpruned>> /\ \A u : Ids(u)' = Ids(u)

LEMMA PruneMoves ==
    ASSUME StoreInv, [Next]_vars
    PROVE  \/ Aside
           \/ \E r \in Requests :
                \/ Quiet(r)
                \/ FindStale(r) \/ DeleteStale(r) \/ StoreFails(r) \/ Passes(r)
                \/ \E u \in Recipients : Create(r, u)
<1>1. TypeInv
    BY DEF StoreInv
<1>2. store' = store => \A u : Ids(u)' = Ids(u)
    BY DEF Ids, Of
<1>3. CASE ServerNext
  <2>1. CASE Tick \/ (\E u \in Users, k \in Roles : ChangeRole(u, k)) \/ (\E u \in Users : ChangeEmail(u))
    BY <1>2, <2>1 DEF Tick, ChangeRole, ChangeEmail, records, Aside
  <2>2. ASSUME NEW m \in mails, Mailing(m) PROVE Aside
    BY <1>2, <2>2 DEF Mailing, ResolveEmail, FetchEmail, FetchFails, SendEmail, SendFails, records, Aside
  <2>3. ASSUME NEW r \in Requests, NEW op \in Operations, Operate(r, op) PROVE Quiet(r)
    <3>1. PICK n \in RequestType : Becomes(r, n) /\ n.pc \in {"ask", "post"} /\ n.cur = {}
      BY <1>1, <2>3, OperateType
    <3>2. req[r].pc = "idle" /\ req[r].cur = {}
      BY <1>1, <2>3 DEF Operate, TypeInv, Shaped
    <3> QED
      BY <2>3, <3>1, <3>2 DEF Operate, Quiet, records
  <2> QED
    BY <1>1, <1>3, <2>1, <2>2, <2>3, QuietMoves DEF ServerNext
<1>4. CASE PageNext \/ BellNext
  <2>1. Marks /\ nextId' = nextId /\ req' = req /\ unpruned' = unpruned
    BY <1>1, <1>4, WebLeaves
  <2> QED
    BY <2>1, MarksKeep DEF Aside
<1>5. CASE UNCHANGED vars
    BY <1>2, <1>5 DEF vars, serverVars, records, Aside
<1> QED
    BY <1>3, <1>4, <1>5, WhoSteps

-----------------------------------------------------------------------------
(* Counting the newest. *)

(* Every set of numbers has a least one, which serves for induction.          *)
LEMMA LeastNumber ==
    ASSUME NEW T, T \subseteq Nat, T # {}
    PROVE  \E m \in T : \A j \in T : ~(j < m)
<1>1. PICK R : IsWellFoundedOn(R, Nat) /\ \A i, j \in Nat : i < j => <<i, j>> \in R
    BY NatLessThanWellFounded DEF OpToRel
<1>2. \E m \in T : \A j \in T : ~(<<j, m>> \in R)
  <2>1. IsWellFoundedOn(R, Nat)
    BY <1>1
  <2> QED
    BY <2>1, WFMin, Zenon
<1> QED
    BY <1>1, <1>2

(* The c greatest of a finite set of numbers: take the smallest of its upper  *)
(* parts that has c elements still.                                           *)
LEMMA Greatest ==
    ASSUME NEW X, X \subseteq Nat, IsFiniteSet(X), NEW c \in Nat, Cardinality(X) >= c
    PROVE  \E U \in SUBSET X : Cardinality(U) = c /\ \A i \in U : \A j \in X : j > i => j \in U
<1> DEFINE Up(U) == \A i \in U : \A j \in X : j > i => j \in U
           Sizes == {k \in Nat : k >= c /\ \E U \in SUBSET X : Up(U) /\ Cardinality(U) = k}
<1>1. Cardinality(X) \in Sizes
    BY FS_CardinalityType
<1>2. PICK k \in Sizes : \A j \in Sizes : ~(j < k)
  <2> HIDE DEF Sizes
  <2>1. Sizes \subseteq Nat
    BY DEF Sizes
  <2> QED
    BY <1>1, <2>1, LeastNumber
<1>3. PICK U \in SUBSET X : Up(U) /\ Cardinality(U) = k
    OBVIOUS
<1>4. k \in Nat /\ k >= c
    OBVIOUS
<1>5. IsFiniteSet(U)
    BY FS_Subset
<1>6. ASSUME k > c PROVE FALSE
  <2>1. U # {}
    BY <1>3, <1>4, <1>6, FS_EmptySet
  <2>2. PICK m \in U : \A j \in U : ~(j < m)
    BY <2>1, LeastNumber
  <2>3. Cardinality(U \ {m}) = k - 1
    BY <1>3, <1>5, FS_RemoveElement
  <2>4. Up(U \ {m})
    <3> SUFFICES ASSUME NEW i \in U \ {m}, NEW j \in X, j > i PROVE j \in U /\ j # m
      OBVIOUS
    <3>1. j \in U
      BY <1>3
    <3>2. ~(i < m) /\ i \in Nat /\ m \in Nat /\ j \in Nat
      BY <2>2
    <3> QED
      BY <3>1, <3>2
  <2>5. k - 1 \in Nat /\ k - 1 >= c
    BY <1>4, <1>6
  <2>6. U \ {m} \in SUBSET X
    OBVIOUS
  <2>7. k - 1 \in Sizes
    BY <2>3, <2>4, <2>5, <2>6
  <2> HIDE DEF Sizes
  <2> QED
    BY <1>2, <1>4, <2>7
<1>7. k = c
    BY <1>4, <1>6
<1> QED
    BY <1>3, <1>7

(* Records with different ids are as many as their ids.                       *)
LEMMA CountIds ==
    ASSUME NEW S, IsFiniteSet(S), \A m, n \in S : m.id = n.id => m = n
    PROVE  IsFiniteSet({n.id : n \in S}) /\ Cardinality({n.id : n \in S}) = Cardinality(S)
<1> DEFINE T == {n.id : n \in S}
           f == [n \in S |-> n.id]
<1>1. f \in [S -> T] /\ \A m, n \in S : f[m] = f[n] => m = n
    OBVIOUS
<1>2. \A t \in T : \E n \in S : f[n] = t
    OBVIOUS
<1>3. ExistsBijection(S, T)
  <2> HIDE DEF f, T
  <2>1. f \in Injection(S, T)
    BY <1>1 DEF Injection, IsInjective
  <2>2. f \in Surjection(S, T)
    BY <1>1, <1>2 DEF Surjection
  <2> QED
    BY <2>1, <2>2 DEF ExistsBijection, Bijection
<1> HIDE DEF T
<1> QED
    BY <1>3, FS_Bijection DEF T

NewerIds(u, i) == {j \in Ids(u) : j > i}

LEMMA IdsTyped ==
    ASSUME StoreInv, NEW u
    PROVE  /\ Ids(u) \subseteq Nat /\ IsFiniteSet(Ids(u)) /\ Cardinality(Ids(u)) = Cardinality(Of(u))
           /\ Cardinality(Ids(u)) \in Nat
           /\ \A i \in Ids(u) : i < nextId
           /\ \A i : IsFiniteSet(NewerIds(u, i))
<1>1. store \subseteq Record /\ IsFiniteSet(store)
    BY DEF StoreInv, TypeInv, NotifyTypeOK, ServerTypeOK
<1>2. Of(u) \in SUBSET store /\ \A m, n \in Of(u) : m.id = n.id => m = n
    BY DEF StoreInv, Of
<1>3. IsFiniteSet(Of(u))
    BY <1>1, <1>2, FS_Subset
<1>4. IsFiniteSet(Ids(u)) /\ Cardinality(Ids(u)) = Cardinality(Of(u))
    BY <1>2, <1>3, CountIds DEF Ids
<1>5. \A i : NewerIds(u, i) \in SUBSET Ids(u)
    BY DEF NewerIds
<1>6. \A i : IsFiniteSet(NewerIds(u, i))
    BY <1>4, <1>5, FS_Subset
<1>7. Ids(u) \subseteq Nat /\ \A i \in Ids(u) : i < nextId
    BY <1>1 DEF Ids, Of, Record, StoreInv
<1> QED
    BY <1>4, <1>6, <1>7, FS_CardinalityType

LEMMA CountNewer ==
    ASSUME StoreInv, NEW u, NEW n \in Of(u)
    PROVE  Cardinality(Newer(n)) = Cardinality(NewerIds(u, n.id))
<1>1. Newer(n) \in SUBSET store /\ NewerIds(u, n.id) = {m.id : m \in Newer(n)}
    BY DEF Newer, NewerIds, Ids, Of
<1>2. \A k, m \in Newer(n) : k.id = m.id => k = m
    BY <1>1 DEF StoreInv
<1>3. IsFiniteSet(Newer(n))
    BY <1>1, FS_Subset DEF StoreInv
<1> QED
    BY <1>1, <1>2, <1>3, CountIds

-----------------------------------------------------------------------------
(* The newest records of a recipient stay. *)

(* What a prune is about to delete has Cap newer ones still: the newest are   *)
(* in nobody's list, so other prunes have left them.                          *)
StaleInv ==
    /\ StoreInv
    /\ \A r \in Requests : req[r].pc = "delete" =>
         \A i \in req[r].stale :
           i < nextId /\ \A u \in Recipients : i \in Ids(u) => Cardinality(NewerIds(u, i)) >= Cap

LEMMA StaleInit ==
    ASSUME Init
    PROVE  StaleInv
<1>1. \A r \in Requests : req[r].pc = "idle"
    BY DEF Init, ServerInit, NoRequest
<1> QED
    BY <1>1, StoreInit DEF StaleInv

LEMMA StaleIsOld ==
    ASSUME StoreInv, NEW v, NEW i \in Stale(v)
    PROVE  /\ i \in Nat /\ i < nextId
           /\ \A u \in Recipients : i \in Ids(u) => Cardinality(NewerIds(u, i)) >= Cap
<1>1. PICK n \in Of(v) : n.id = i /\ Cardinality(Newer(n)) >= Cap
    BY DEF Stale
<1>2. i \in Nat /\ i < nextId
    BY <1>1, IdsTyped DEF Ids
<1>3. ASSUME NEW u \in Recipients, i \in Ids(u) PROVE Cardinality(NewerIds(u, i)) >= Cap
  <2>1. PICK m \in Of(u) : m.id = i
    BY <1>3 DEF Ids
  <2>2. m = n
    BY <1>1, <2>1 DEF StoreInv, Of
  <2>3. n \in Of(u)
    BY <2>1, <2>2
  <2> QED
    BY <1>1, <2>3, CountNewer
<1> QED
    BY <1>2, <1>3

LEMMA DeleteIs ==
    ASSUME NEW r, DeleteStale(r)
    PROVE  \A u : Ids(u)' = Ids(u) \ req[r].stale
<1>1. store' = {n \in store : n.id \notin req[r].stale}
    BY DEF DeleteStale
<1>2. \A u : Of(u)' = {n \in Of(u) : n.id \notin req[r].stale}
    BY <1>1 DEF Of
<1> SUFFICES ASSUME NEW u PROVE Ids(u)' = Ids(u) \ req[r].stale
    OBVIOUS
<1>3. Ids(u)' = {n.id : n \in {k \in Of(u) : k.id \notin req[r].stale}}
    BY <1>2 DEF Ids
<1> QED
    BY <1>3 DEF Ids

(* Of what has Cap newer ones, Cap newer ones stay.                           *)
LEMMA DeleteKeeps ==
    ASSUME StaleInv, NEW r \in Requests, DeleteStale(r),
           NEW u \in Recipients, NEW i \in Nat, Cardinality(NewerIds(u, i)) >= Cap
    PROVE  \E U \in SUBSET NewerIds(u, i)' : Cardinality(U) = Cap
<1> DEFINE X == NewerIds(u, i)
<1>1. /\ Ids(u) \subseteq Nat /\ IsFiniteSet(X) /\ Cap \in Nat
      /\ \A j : IsFiniteSet(NewerIds(u, j))
    BY IdsTyped, Constants DEF StaleInv
<1>2. X \subseteq Nat
    BY <1>1 DEF NewerIds
<1>3. PICK U \in SUBSET X : Cardinality(U) = Cap /\ \A j \in U : \A k \in X : k > j => k \in U
  <2> HIDE DEF X
  <2> QED
    BY <1>1, <1>2, Greatest DEF X
<1>4. ASSUME NEW j \in U, j \in req[r].stale PROVE FALSE
  <2>1. j \in Ids(u) /\ j > i /\ j \in Nat
    BY <1>1 DEF NewerIds
  <2>2. Cardinality(NewerIds(u, j)) >= Cap
    BY <1>4, <2>1 DEF StaleInv, DeleteStale
  <2>3. NewerIds(u, j) \in SUBSET (U \ {j})
    <3> SUFFICES ASSUME NEW k \in NewerIds(u, j) PROVE k \in U /\ k # j
      OBVIOUS
    <3>1. k \in Ids(u) /\ k > j /\ k \in Nat
      BY <1>1 DEF NewerIds
    <3>2. k > i
      BY <2>1, <3>1
    <3>3. k \in X
      BY <3>1, <3>2 DEF NewerIds
    <3> QED
      BY <1>3, <2>1, <3>1, <3>3
  <2>4. IsFiniteSet(U)
    BY <1>1, FS_Subset
  <2>5. IsFiniteSet(U \ {j}) /\ Cardinality(U \ {j}) = Cap - 1
    BY <1>3, <2>4, FS_RemoveElement
  <2>6. Cardinality(NewerIds(u, j)) <= Cap - 1
    BY <2>3, <2>5, FS_Subset
  <2>7. Cardinality(NewerIds(u, j)) \in Nat
    BY <1>1, FS_CardinalityType
  <2> QED
    BY <1>1, <2>2, <2>6, <2>7
<1>5. U \subseteq NewerIds(u, i)'
    BY <1>4, DeleteIs DEF NewerIds
<1> QED
    BY <1>3, <1>5

LEMMA IdsFinite ==
    StoreInv => \A u, i : IsFiniteSet(Ids(u)) /\ IsFiniteSet(NewerIds(u, i)) /\ Ids(u) \subseteq Nat
BY IdsTyped

LEMMA IdsStayFinite ==
    StoreInv' => (\A u, i : IsFiniteSet(Ids(u)) /\ IsFiniteSet(NewerIds(u, i)) /\ Ids(u) \subseteq Nat)'
BY IdsFinite, PTL

LEMMA MoreIds ==
    ASSUME StoreInv, StoreInv', NEW u, NEW i, Ids(u) \subseteq Ids(u)', Cardinality(NewerIds(u, i)) >= Cap
    PROVE  Cardinality(NewerIds(u, i)') >= Cap
<1>1. IsFiniteSet(NewerIds(u, i)) /\ IsFiniteSet(NewerIds(u, i)')
    BY IdsTyped, IdsStayFinite
<1>2. NewerIds(u, i) \in SUBSET (NewerIds(u, i)')
    BY DEF NewerIds
<1>3. Cardinality(NewerIds(u, i)) <= Cardinality(NewerIds(u, i)')
    BY <1>1, <1>2, FS_Subset
<1> QED
    BY <1>1, <1>3, FS_CardinalityType, Constants

LEMMA StaleStep ==
    ASSUME StaleInv, [Next]_vars
    PROVE  StaleInv'
<1> DEFINE Old(i) == i < nextId' /\ \A u \in Recipients : i \in Ids(u)' => Cardinality(NewerIds(u, i)') >= Cap
           Held(r) == req'[r].pc = "delete" => \A i \in req'[r].stale : Old(i)
           Goal == \A r \in Requests : Held(r)
<1>1. StoreInv /\ StoreInv' /\ TypeInv
    BY StoreStep DEF StaleInv, StoreInv
<1>2. Goal => StaleInv'
    BY <1>1 DEF StaleInv
<1>3. nextId \in Nat /\ nextId' \in Nat /\ nextId <= nextId' /\ req \in [Requests -> RequestType]
    BY <1>1, StoreGrows DEF TypeInv, NotifyTypeOK, ServerTypeOK
<1>4. ASSUME NEW r \in Requests, req[r].pc = "delete", NEW i \in req[r].stale
      PROVE  i \in Nat /\ i < nextId'
             /\ \A u \in Recipients : i \in Ids(u) => Cardinality(NewerIds(u, i)) >= Cap
    BY <1>3, <1>4 DEF StaleInv, RequestType
(* Where the ids only grow, what was stale is stale. *)
<1>5. ASSUME \A u : Ids(u) \subseteq Ids(u)',
             \A u : \A j \in Ids(u)' : j \in Ids(u) \/ j = nextId,
             NEW r \in Requests, req[r].pc = "delete", req'[r] = req[r]
      PROVE  Held(r)
  <2> SUFFICES ASSUME NEW i \in req[r].stale PROVE Old(i)
    BY <1>5
  <2>1. i \in Nat /\ i < nextId'
    BY <1>4, <1>5
  <2>2. ASSUME NEW u \in Recipients, i \in Ids(u)' PROVE Cardinality(NewerIds(u, i)') >= Cap
    <3>1. i # nextId
      BY <1>3, <1>5, <2>1 DEF StaleInv
    <3>2. i \in Ids(u)
      BY <1>5, <2>2, <3>1
    <3>3. Cardinality(NewerIds(u, i)) >= Cap
      BY <1>4, <1>5, <3>2
    <3> QED
      BY <1>1, <1>5, <3>3, MoreIds
  <2> QED
    BY <2>1, <2>2
<1>6. ASSUME NEW s \in Requests, NEW n, n.pc # "delete", Becomes(s, n),
             \A u : Ids(u) \subseteq Ids(u)', \A u : \A j \in Ids(u)' : j \in Ids(u) \/ j = nextId
      PROVE  Goal
  <2> SUFFICES ASSUME NEW r \in Requests, req'[r].pc = "delete" PROVE Held(r)
    OBVIOUS
  <2>1. r # s /\ req'[r] = req[r]
    BY <1>3, <1>6 DEF Becomes
  <2> HIDE DEF Held
  <2> QED
    BY <1>5, <1>6, <2>1
<1>7. store' = store => \A u : Ids(u)' = Ids(u)
    BY DEF Ids, Of
<1>8. ASSUME Aside PROVE Goal
  <2> SUFFICES ASSUME NEW r \in Requests, req'[r].pc = "delete" PROVE Held(r)
    OBVIOUS
  <2> HIDE DEF Held
  <2> QED
    BY <1>5, <1>8 DEF Aside
<1>9. ASSUME NEW s \in Requests, Quiet(s) PROVE Goal
  <2>1. PICK n \in RequestType : Becomes(s, n) /\ n.pc # "delete"
    BY <1>9 DEF Quiet
  <2>2. \A u : Ids(u)' = Ids(u)
    BY <1>7, <1>9 DEF Quiet
  <2> HIDE DEF Goal
  <2> QED
    BY <1>6, <2>1, <2>2
<1>10. ASSUME NEW s \in Requests, NEW v \in Recipients, Create(s, v) PROVE Goal
  <2>1. PICK n : n = [req[s] EXCEPT !.pc = "count", !.cur = {v}, !.left = @ \ {v}]
    OBVIOUS
  <2>2. Becomes(s, n) /\ n.pc = "count"
    BY <1>3, <1>10, <2>1 DEF Create, Becomes, RequestType
  <2>3. \A u : Ids(u) \subseteq Ids(u)' /\ \A j \in Ids(u)' : j \in Ids(u) \/ j = nextId
    <3>1. PICK new : new = [id |-> nextId, to |-> v, read |-> FALSE]
      OBVIOUS
    <3>2. store' = store \cup {new} /\ new.id = nextId
      BY <1>10, <3>1 DEF Create
    <3>3. \A u : Of(u) \subseteq Of(u)' /\ \A m \in Of(u)' : m \in Of(u) \/ m = new
      BY <3>2 DEF Of
    <3> QED
      BY <3>2, <3>3 DEF Ids
  <2> HIDE DEF Goal
  <2> QED
    BY <1>6, <2>2, <2>3
<1>11. ASSUME NEW s \in Requests, StoreFails(s) PROVE Goal
  <2>1. Becomes(s, FinishedAs(req[s])) /\ FinishedAs(req[s]).pc \in {"idle", "post"}
    <3>1. req[s] \in RequestType /\ Shaped(req[s])
      BY <1>1, <1>3 DEF TypeInv
    <3> QED
      BY <1>11, <3>1, FinishIs, FinishedType DEF StoreFails
  <2>2. \A u : Ids(u)' = Ids(u)
    BY <1>7, <1>11 DEF StoreFails
  <2> HIDE DEF Goal
  <2> QED
    BY <1>6, <2>1, <2>2
<1>12. ASSUME NEW s \in Requests, Pruned(s)
       PROVE  \E n : Becomes(s, n) /\ n.pc = "create"
  <2>1. PICK q \in RequestType : q = req[s]
    BY <1>3
  <2> DEFINE n == [q EXCEPT !.pc = "create", !.cur = {}, !.stale = {}]
  <2>2. Becomes(s, n)
    BY <1>12, <2>1 DEF Pruned, Becomes
  <2>3. n.pc = "create"
    BY DEF RequestType
  <2> QED
    BY <2>2, <2>3
<1>13. ASSUME NEW s \in Requests, Passes(s) PROVE Goal
  <2>1. PICK n : Becomes(s, n) /\ n.pc = "create"
    BY <1>12, <1>13 DEF Passes
  <2>2. \A u : Ids(u)' = Ids(u)
    BY <1>7, <1>13 DEF Passes, Count, records
  <2> HIDE DEF Goal
  <2> QED
    BY <1>6, <2>1, <2>2
<1>14. ASSUME NEW s \in Requests, FindStale(s) PROVE Goal
  <2>1. PICK n : n = [req[s] EXCEPT !.pc = "delete", !.stale = UNION {Stale(v) : v \in req[s].cur}]
    OBVIOUS
  <2>2. Becomes(s, n) /\ n.stale = UNION {Stale(v) : v \in req[s].cur}
    BY <1>3, <1>14, <2>1 DEF FindStale, Becomes, RequestType
  <2>3. \A u : Ids(u)' = Ids(u)
    BY <1>7, <1>14 DEF FindStale, records
  <2> SUFFICES ASSUME NEW r \in Requests, req'[r].pc = "delete" PROVE Held(r)
    OBVIOUS
  <2>4. CASE r = s
    <3> SUFFICES ASSUME NEW i \in req'[r].stale PROVE Old(i)
      OBVIOUS
    <3>1. req'[s] = n
      BY <1>3, <2>2 DEF Becomes
    <3>2. PICK v : i \in Stale(v)
      BY <2>2, <2>4, <3>1
    <3>3. /\ i \in Nat /\ i < nextId
          /\ \A u \in Recipients : i \in Ids(u) => Cardinality(NewerIds(u, i)) >= Cap
      BY <1>1, <3>2, StaleIsOld
    <3>4. \A u : NewerIds(u, i)' = NewerIds(u, i)
      BY <2>3 DEF NewerIds
    <3> QED
      BY <1>3, <2>3, <3>3, <3>4
  <2>5. CASE r # s
    <3>1. req'[r] = req[r]
      BY <1>3, <2>2, <2>5 DEF Becomes
    <3> HIDE DEF Held
    <3> QED
      BY <1>5, <2>3, <3>1
  <2> HIDE DEF Held
  <2> QED
    BY <2>4, <2>5
<1>15. ASSUME NEW s \in Requests, DeleteStale(s) PROVE Goal
  <2>1. PICK n : Becomes(s, n) /\ n.pc = "create"
    BY <1>12, <1>15 DEF DeleteStale
  <2> SUFFICES ASSUME NEW r \in Requests, req'[r].pc = "delete", NEW i \in req'[r].stale PROVE Old(i)
    OBVIOUS
  <2>2. r # s /\ req'[r] = req[r]
    BY <1>3, <2>1 DEF Becomes
  <2>3. i \in Nat /\ i < nextId'
        /\ \A u \in Recipients : i \in Ids(u) => Cardinality(NewerIds(u, i)) >= Cap
    BY <1>4, <2>2
  <2>4. ASSUME NEW u \in Recipients, i \in Ids(u)' PROVE Cardinality(NewerIds(u, i)') >= Cap
    <3>1. Cardinality(NewerIds(u, i)) >= Cap
      BY <1>15, <2>3, <2>4, DeleteIs
    <3>2. PICK U \in SUBSET (NewerIds(u, i)') : Cardinality(U) = Cap
      BY <1>15, <2>3, <3>1, DeleteKeeps
    <3>3. IsFiniteSet(NewerIds(u, i)')
      BY <1>1, IdsStayFinite
    <3>4. Cap <= Cardinality(NewerIds(u, i)')
      BY <3>2, <3>3, FS_Subset
    <3> QED
      BY <3>3, <3>4, FS_CardinalityType, Constants
  <2> QED
    BY <2>3, <2>4
<1> HIDE DEF Goal
<1> QED
    BY <1>1, <1>2, <1>8, <1>9, <1>10, <1>11, <1>13, <1>14, <1>15, PruneMoves

(* Pruning never takes a record that is among the newest of its recipient.    *)
THEOREM NewestKept == NotifySpec => PruneKeepsNewest
<1>1. StaleInv /\ [Next]_vars => StaleInv'
    BY StaleStep
<1>2. StaleInv /\ [Next]_vars => [KeepsNewest]_store
  <2> SUFFICES ASSUME StaleInv, [Next]_vars,
                      NEW n \in store, \A m \in store' : m.id # n.id
               PROVE  Cardinality({m \in store' : m.to = n.to /\ m.id > n.id}) >= Cap
    BY Zenon DEF KeepsNewest
  <2> DEFINE W == {m \in store' : m.to = n.to /\ m.id > n.id}
  <2>1. StoreInv /\ StoreInv' /\ TypeInv
    BY StoreStep DEF StaleInv, StoreInv
  <2>2. n \in Record
    BY <2>1 DEF TypeInv, NotifyTypeOK, ServerTypeOK
  <2>3. PICK r \in Requests : DeleteStale(r)
    <3>1. store' # store
      OBVIOUS
    <3>2. ~(PageNext \/ BellNext)
      <4>1. Marks /\ nextId' = nextId => \E m \in store' : m.id = n.id
        BY <2>1, MarksKeep
      <4> QED
        BY <2>1, <4>1, WebLeaves
    <3>3. ~(\E s \in Requests, u \in Recipients : Create(s, u))
      <4>1. \A s \in Requests, u \in Recipients : Create(s, u) => n \in store'
        BY DEF Create
      <4> QED
        BY <4>1
    <3>4. ~UNCHANGED vars
      BY <3>1 DEF vars, serverVars, records
    <3> QED
      BY <2>1, <3>1, <3>2, <3>3, <3>4, StoreMoves, WhoSteps
  <2>4. n.id \in req[r].stale /\ req[r].pc = "delete"
    BY <2>3 DEF DeleteStale
  <2>5. n.to \in Recipients /\ n.id \in Nat /\ n.id \in Ids(n.to)
    BY <2>2 DEF Record, Ids, Of
  <2>6. Cardinality(NewerIds(n.to, n.id)) >= Cap
    BY <2>4, <2>5 DEF StaleInv
  <2>7. PICK U \in SUBSET (NewerIds(n.to, n.id)') : Cardinality(U) = Cap
    BY <2>3, <2>5, <2>6, DeleteKeeps
  <2>8. NewerIds(n.to, n.id)' = {m.id : m \in W}
    BY DEF NewerIds, Ids, Of
  <2>9. IsFiniteSet(W) /\ \A k, m \in W : k.id = m.id => k = m
    <3>1. IsFiniteSet(store') /\ W \in SUBSET store'
      BY <2>1 DEF StoreInv
    <3> QED
      BY <2>1, <3>1, FS_Subset DEF StoreInv
  <2> HIDE DEF W
  <2>10. IsFiniteSet({m.id : m \in W}) /\ Cardinality({m.id : m \in W}) = Cardinality(W)
    BY <2>9, CountIds
  <2>11. Cap <= Cardinality(W)
    BY <2>7, <2>8, <2>10, FS_Subset
  <2>12. Cardinality(W) >= Cap
    BY <2>9, <2>11, FS_CardinalityType, Constants
  <2> QED
    BY <2>12 DEF W
<1> QED
    BY StaleInit, <1>1, <1>2, PTL DEF NotifySpec, PruneKeepsNewest

-----------------------------------------------------------------------------
(* The cap. *)

Between(u) == {r \in Requests : u \in req[r].cur}
Deleting(u) == {r \in Between(u) : req[r].pc = "delete"}
Left(u, D) == {i \in Ids(u) : \A r \in D : i \notin req[r].stale}

(* Whichever of the prunes that have found their stale records delete them:   *)
(* what is left exceeds the cap by no more than the other calls that are      *)
(* under way, and the prunes that failed.                                     *)
CapInv ==
    /\ StoreInv
    /\ \A u \in Recipients : \A D \in SUBSET Deleting(u) :
         Cardinality(Left(u, D)) <= Cap + Cardinality(Between(u) \ D) + unpruned

LEMMA CapTyped ==
    ASSUME StoreInv, NEW u
    PROVE  /\ IsFiniteSet(Between(u))
           /\ \A D : IsFiniteSet(Between(u) \ D) /\ Cardinality(Between(u) \ D) \in Nat
           /\ \A D : IsFiniteSet(Left(u, D)) /\ Cardinality(Left(u, D)) \in Nat
           /\ Cap \in Nat /\ unpruned \in Nat
<1>1. Between(u) \in SUBSET Requests
    BY DEF Between
<1>2. \A D : (Between(u) \ D) \in SUBSET Requests
    BY <1>1
<1>3. \A D : Left(u, D) \in SUBSET Ids(u)
    BY DEF Left
<1>4. IsFiniteSet(Ids(u))
    BY IdsTyped
<1>5. IsFiniteSet(Between(u)) /\ \A D : IsFiniteSet(Between(u) \ D)
    BY <1>1, <1>2, FS_Subset, Constants
<1>6. \A D : IsFiniteSet(Left(u, D))
    BY <1>3, <1>4, FS_Subset
<1>7. unpruned \in Nat
    BY DEF StoreInv, TypeInv, NotifyTypeOK, ServerTypeOK
<1> QED
    BY <1>5, <1>6, <1>7, FS_CardinalityType, Constants

(* What a prune leaves of the records of its recipient.                       *)
LEMMA FreshAreFew ==
    ASSUME StoreInv, NEW u
    PROVE  Cardinality(Ids(u) \ Stale(u)) <= Cap
<1> DEFINE K == Ids(u) \ Stale(u)
<1>1. /\ Ids(u) \subseteq Nat /\ IsFiniteSet(Ids(u)) /\ Cap \in Nat \ {0}
      /\ \A i : IsFiniteSet(NewerIds(u, i))
    BY IdsTyped, Constants
<1>2. IsFiniteSet(K) /\ Cardinality(K) \in Nat
  <2>1. K \in SUBSET Ids(u)
    OBVIOUS
  <2>2. IsFiniteSet(K)
    BY <1>1, <2>1, FS_Subset
  <2> QED
    BY <2>2, FS_CardinalityType
<1>3. \A i \in K : ~(Cardinality(NewerIds(u, i)) >= Cap)
  <2> SUFFICES ASSUME NEW i \in K, Cardinality(NewerIds(u, i)) >= Cap PROVE FALSE
    OBVIOUS
  <2>1. PICK n \in Of(u) : n.id = i
    BY DEF Ids
  <2>2. Cardinality(Newer(n)) >= Cap
    BY <2>1, CountNewer
  <2> QED
    BY <2>1, <2>2 DEF Stale
<1>4. ASSUME Cardinality(K) > Cap PROVE FALSE
  <2>1. K # {} /\ K \subseteq Nat
    BY <1>1, <1>4, FS_EmptySet
  <2>2. PICK m \in K : \A j \in K : ~(j < m)
    BY <2>1, LeastNumber
  <2>3. K \ {m} \in SUBSET NewerIds(u, m)
    BY <2>1, <2>2 DEF NewerIds
  <2>4. IsFiniteSet(K \ {m}) /\ Cardinality(K \ {m}) = Cardinality(K) - 1
    BY <1>2, FS_RemoveElement
  <2>5. Cardinality(K \ {m}) <= Cardinality(NewerIds(u, m)) /\ Cardinality(NewerIds(u, m)) \in Nat
    BY <1>1, <2>3, FS_Subset, FS_CardinalityType
  <2>6. ~(Cardinality(NewerIds(u, m)) >= Cap)
    BY <1>3
  <2> HIDE DEF K
  <2> QED
    BY <1>1, <1>2, <1>4, <2>4, <2>5, <2>6
<1> HIDE DEF K
<1>5. Cardinality(K) <= Cap
    BY <1>1, <1>2, <1>4
<1> QED
    BY <1>5 DEF K

LEMMA CapTypedNext ==
    StoreInv' => (\A u : /\ IsFiniteSet(Between(u))
                         /\ \A D : IsFiniteSet(Between(u) \ D) /\ Cardinality(Between(u) \ D) \in Nat
                         /\ \A D : IsFiniteSet(Left(u, D)) /\ Cardinality(Left(u, D)) \in Nat
                         /\ unpruned \in Nat)'
<1>1. StoreInv => \A u : /\ IsFiniteSet(Between(u))
                         /\ \A D : IsFiniteSet(Between(u) \ D) /\ Cardinality(Between(u) \ D) \in Nat
                         /\ \A D : IsFiniteSet(Left(u, D)) /\ Cardinality(Left(u, D)) \in Nat
                         /\ unpruned \in Nat
    BY CapTyped
<1> QED
    BY <1>1, PTL

LEMMA CapInit ==
    ASSUME Init
    PROVE  CapInv
<1>1. store = {} /\ unpruned = 0 /\ StoreInv
    BY StoreInit DEF Init, ServerInit
<1> SUFFICES ASSUME NEW u \in Recipients, NEW D \in SUBSET Deleting(u)
             PROVE  Cardinality(Left(u, D)) <= Cap + Cardinality(Between(u) \ D) + unpruned
    BY <1>1 DEF CapInv
<1>2. Left(u, D) = {}
    BY <1>1 DEF Left, Ids, Of
<1>3. Cardinality(Left(u, D)) = 0
    BY <1>2, FS_EmptySet
<1>4. Cap \in Nat /\ Cardinality(Between(u) \ D) \in Nat
    BY <1>1, CapTyped
<1> QED
    BY <1>1, <1>3, <1>4

LEMMA CapStep ==
    ASSUME CapInv, [Next]_vars
    PROVE  CapInv'
<1>1. StoreInv /\ StoreInv' /\ TypeInv
    BY StoreStep DEF CapInv, StoreInv
<1>2. req \in [Requests -> RequestType] /\ \A r \in Requests : Shaped(req[r])
    BY <1>1 DEF TypeInv, NotifyTypeOK, ServerTypeOK
<1> SUFFICES ASSUME NEW u \in Recipients, NEW D, (D \in SUBSET Deleting(u))'
             PROVE  (Cardinality(Left(u, D)) <= Cap + Cardinality(Between(u) \ D) + unpruned)'
    BY <1>1 DEF CapInv
<1> DEFINE Goal == (Cardinality(Left(u, D)) <= Cap + Cardinality(Between(u) \ D) + unpruned)'
<1> SUFFICES Goal
    OBVIOUS
<1>3. /\ \A E : /\ IsFiniteSet(Between(u) \ E) /\ Cardinality(Between(u) \ E) \in Nat
                /\ IsFiniteSet(Left(u, E)) /\ Cardinality(Left(u, E)) \in Nat
      /\ Cap \in Nat /\ unpruned \in Nat
    BY <1>1, CapTyped
<1>4. /\ IsFiniteSet((Between(u) \ D)') /\ Cardinality((Between(u) \ D)') \in Nat
      /\ IsFiniteSet(Left(u, D)') /\ Cardinality(Left(u, D)') \in Nat
      /\ unpruned' \in Nat
    BY <1>1, CapTypedNext
<1>5. \A E \in SUBSET Deleting(u) :
         Cardinality(Left(u, E)) <= Cap + Cardinality(Between(u) \ E) + unpruned
    BY DEF CapInv
(* No more is left, no fewer are between: the bound stays. *)
<1>6. ASSUME NEW E \in SUBSET Deleting(u), Left(u, D)' \subseteq Left(u, E),
             Between(u) \ E \subseteq (Between(u) \ D)', unpruned' = unpruned
      PROVE  Goal
  <2>1. Cardinality(Left(u, D)') <= Cardinality(Left(u, E))
    BY <1>3, <1>6, FS_Subset
  <2>2. Cardinality(Between(u) \ E) <= Cardinality((Between(u) \ D)')
    BY <1>4, <1>6, FS_Subset
  <2>3. Cardinality(Left(u, E)) <= Cap + Cardinality(Between(u) \ E) + unpruned
    BY <1>5
  <2>4. Cardinality(Left(u, E)) \in Nat /\ Cardinality(Between(u) \ E) \in Nat
    BY <1>3
  <2>5. Cardinality(Left(u, D)') <= Cap + Cardinality((Between(u) \ D)') + unpruned'
    BY <1>3, <1>4, <1>6, <2>1, <2>2, <2>3, <2>4
  <2> QED
    BY <2>5
<1>7. D \subseteq Requests /\ \A r \in D : req'[r].pc = "delete" /\ u \in req'[r].cur
    BY DEF Deleting, Between
<1>8. ASSUME \A r \in D : req'[r] = req[r]
      PROVE  /\ D \in SUBSET Deleting(u)
             /\ Ids(u)' \subseteq Ids(u) => Left(u, D)' \subseteq Left(u, D)
  <2>1. D \in SUBSET Deleting(u)
    BY <1>7, <1>8 DEF Deleting, Between
  <2> QED
    BY <1>8, <2>1 DEF Left
<1>9. store' = store => Ids(u)' = Ids(u)
    BY DEF Ids, Of
<1> HIDE DEF Goal
<1>10. CASE Aside
  <2>1. req' = req /\ unpruned' = unpruned /\ Ids(u)' = Ids(u)
    BY <1>10 DEF Aside
  <2>2. D \in SUBSET Deleting(u) /\ Left(u, D)' \subseteq Left(u, D)
    BY <1>8, <2>1
  <2>3. (Between(u) \ D)' = Between(u) \ D
    BY <2>1 DEF Between
  <2> QED
    BY <1>6, <2>1, <2>2, <2>3
<1>11. ASSUME NEW s \in Requests, NEW n, Becomes(s, n)
       PROVE  req'[s] = n /\ \A r \in Requests \ {s} : req'[r] = req[r]
    BY <1>2, <1>11 DEF Becomes
(* A sender that is deleting neither before nor after. *)
<1>12. ASSUME NEW s \in Requests, NEW n, Becomes(s, n), n.pc # "delete"
       PROVE  s \notin D /\ \A r \in D : req'[r] = req[r]
    BY <1>7, <1>11, <1>12
<1>13. ASSUME NEW s \in Requests, NEW n, Becomes(s, n), n.pc # "delete",
              n.cur = req[s].cur \/ u \notin req[s].cur, Ids(u)' \subseteq Ids(u), unpruned' = unpruned
       PROVE  Goal
  <2>1. D \in SUBSET Deleting(u) /\ Left(u, D)' \subseteq Left(u, D)
    BY <1>8, <1>12, <1>13
  <2>2. Between(u) \ D \subseteq (Between(u) \ D)'
    BY <1>11, <1>13 DEF Between
  <2> QED
    BY <1>6, <1>13, <2>1, <2>2
<1>14. ASSUME NEW s \in Requests, Quiet(s) PROVE Goal
    BY <1>9, <1>13, <1>14 DEF Quiet
<1>15. ASSUME NEW s \in Requests, Pruned(s)
       PROVE  \E n : Becomes(s, n) /\ n.pc = "create" /\ n.cur = {}
  <2>1. PICK q \in RequestType : q = req[s]
    BY <1>2
  <2> DEFINE n == [q EXCEPT !.pc = "create", !.cur = {}, !.stale = {}]
  <2>2. Becomes(s, n)
    BY <1>15, <2>1 DEF Pruned, Becomes
  <2>3. n.pc = "create" /\ n.cur = {}
    BY DEF RequestType
  <2> QED
    BY <2>2, <2>3
<1>16. ASSUME NEW s \in Requests, Passes(s) PROVE Goal
  <2>1. PICK n : Becomes(s, n) /\ n.pc = "create"
    BY <1>15, <1>16 DEF Passes
  <2>2. Ids(u)' = Ids(u) /\ unpruned' = unpruned
    BY <1>9, <1>16 DEF Passes, Count, records
  <2>3. CASE u \in req[s].cur
    <3>1. Cardinality(Ids(u)) <= Cap /\ IsFiniteSet(Ids(u))
      BY <1>1, <1>16, <2>3, IdsTyped DEF Passes, WithinCap
    <3>2. Left(u, D)' \in SUBSET Ids(u)
      BY <2>2 DEF Left
    <3>3. Cardinality(Left(u, D)') <= Cardinality(Ids(u)) /\ Cardinality(Ids(u)) \in Nat
      BY <3>1, <3>2, FS_Subset, FS_CardinalityType
    <3> QED
      BY <1>3, <1>4, <3>1, <3>3 DEF Goal
  <2>4. CASE u \notin req[s].cur
    BY <1>13, <2>1, <2>2, <2>4
  <2> QED
    BY <2>3, <2>4
<1>17. ASSUME NEW s \in Requests, NEW v \in Recipients, Create(s, v) PROVE Goal
  <2>1. PICK q \in RequestType : q = req[s]
    BY <1>2
  <2> DEFINE n == [q EXCEPT !.pc = "count", !.cur = {v}, !.left = @ \ {v}]
  <2>2. Becomes(s, n)
    BY <1>17, <2>1 DEF Create, Becomes
  <2>3. n.pc = "count" /\ n.cur = {v} /\ q.cur = {}
    BY <1>2, <1>17, <2>1 DEF RequestType, Create, Shaped
  <2> HIDE DEF n
  <2>4. s \notin D /\ D \in SUBSET Deleting(u) /\ s \notin Between(u)
    BY <1>8, <1>12, <2>1, <2>2, <2>3 DEF Between
  <2>5. unpruned' = unpruned
    BY <1>17 DEF Create
  <2>6. PICK new : store' = store \cup {new} /\ new.id = nextId /\ new.to = v
    <3> DEFINE new == [id |-> nextId, to |-> v, read |-> FALSE]
    <3>1. store' = store \cup {new} /\ new.id = nextId /\ new.to = v
      BY <1>17 DEF Create
    <3> QED
      BY <3>1
  <2>7. CASE v # u
    <3>1. Ids(u)' \subseteq Ids(u)
      BY <2>6, <2>7 DEF Ids, Of
    <3> QED
      BY <1>13, <2>1, <2>2, <2>3, <2>5, <3>1
  <2>8. CASE v = u
    <3>1. (Between(u) \ D)' = (Between(u) \ D) \cup {s}
      BY <1>11, <2>2, <2>3, <2>4, <2>8 DEF Between
    <3>2. Cardinality((Between(u) \ D)') = Cardinality(Between(u) \ D) + 1
      BY <1>3, <2>4, <3>1, FS_AddElement
    <3>3. Left(u, D)' \in SUBSET (Left(u, D) \cup {nextId})
      <4>1. Ids(u)' \subseteq Ids(u) \cup {nextId}
        BY <2>6 DEF Ids, Of
      <4> QED
        BY <1>12, <2>2, <2>3, <4>1 DEF Left
    <3>4. IsFiniteSet(Left(u, D) \cup {nextId})
          /\ Cardinality(Left(u, D) \cup {nextId}) <= Cardinality(Left(u, D)) + 1
          /\ Cardinality(Left(u, D) \cup {nextId}) \in Nat
      <4>1. IsFiniteSet(Left(u, D)) /\ Cardinality(Left(u, D)) \in Nat
        BY <1>3
      <4>2. IsFiniteSet(Left(u, D) \cup {nextId})
            /\ Cardinality(Left(u, D) \cup {nextId}) =
                 IF nextId \in Left(u, D) THEN Cardinality(Left(u, D)) ELSE Cardinality(Left(u, D)) + 1
        BY <4>1, FS_AddElement
      <4> QED
        BY <4>1, <4>2
    <3>5. Cardinality(Left(u, D)') <= Cardinality(Left(u, D) \cup {nextId})
      BY <3>3, <3>4, FS_Subset
    <3>6. Cardinality(Left(u, D)) <= Cap + Cardinality(Between(u) \ D) + unpruned
      BY <1>5, <2>4
    <3>7. Cardinality(Left(u, D)) \in Nat /\ Cardinality(Between(u) \ D) \in Nat
      BY <1>3
    <3> QED
      BY <1>3, <1>4, <2>5, <3>2, <3>4, <3>5, <3>6, <3>7 DEF Goal
  <2> QED
    BY <2>7, <2>8
<1>18. ASSUME NEW s \in Requests, StoreFails(s) PROVE Goal
  <2>1. PICK n : n = FinishedAs(req[s])
    OBVIOUS
  <2>2. Becomes(s, n) /\ n.pc # "delete" /\ n.cur = {}
    BY <1>2, <1>18, <2>1, FinishIs, FinishedType DEF StoreFails
  <2>3. Ids(u)' = Ids(u) /\ unpruned' = unpruned + Cardinality(req[s].cur)
    BY <1>9, <1>18 DEF StoreFails
  <2>4. s \notin D /\ D \in SUBSET Deleting(u) /\ Left(u, D)' \subseteq Left(u, D)
    BY <1>8, <1>12, <2>2, <2>3
  <2>5. (Between(u) \ D)' = (Between(u) \ D) \ {s}
    BY <1>11, <2>2 DEF Between
  <2>6. Cardinality((Between(u) \ D)') = IF s \in Between(u) \ D THEN Cardinality(Between(u) \ D) - 1
                                         ELSE Cardinality(Between(u) \ D)
    <3>1. PICK B : B = Between(u) \ D
      OBVIOUS
    <3>2. IsFiniteSet(B)
      BY <1>3, <3>1
    <3>3. Cardinality(B \ {s}) = IF s \in B THEN Cardinality(B) - 1 ELSE Cardinality(B)
      BY <3>2, FS_RemoveElement
    <3>4. (Between(u) \ D)' = B \ {s}
      BY <2>5, <3>1
    <3> QED
      BY <3>1, <3>3, <3>4, Zenon
  <2>7. s \in Between(u) => Cardinality(req[s].cur) = 1
    BY <1>2, CurSize DEF Between
  <2>8. Cardinality(req[s].cur) \in Nat
    BY <1>2, CurSize
  <2>9. Cardinality(Left(u, D)') <= Cardinality(Left(u, D))
    BY <1>3, <2>4, FS_Subset
  <2>10. Cardinality(Left(u, D)) <= Cap + Cardinality(Between(u) \ D) + unpruned
    BY <1>5, <2>4
  <2>11. /\ Cardinality(Left(u, D)) \in Nat /\ Cardinality(Between(u) \ D) \in Nat
    BY <1>3
  <2> QED
    BY <1>3, <1>4, <2>3, <2>6, <2>7, <2>8, <2>9, <2>10, <2>11 DEF Goal
<1>19. ASSUME NEW s \in Requests, FindStale(s) PROVE Goal
  <2>1. PICK q \in RequestType : q = req[s]
    BY <1>2
  <2> DEFINE n == [q EXCEPT !.pc = "delete", !.stale = UNION {Stale(v) : v \in q.cur}]
  <2>2. Becomes(s, n) /\ n.stale = UNION {Stale(v) : v \in q.cur} /\ n.cur = q.cur
    <3>1. Becomes(s, n)
      BY <1>19, <2>1 DEF FindStale, Becomes
    <3> QED
      BY <3>1 DEF RequestType
  <2> HIDE DEF n
  <2>3. Ids(u)' = Ids(u) /\ unpruned' = unpruned
    BY <1>9, <1>19 DEF FindStale, records
  <2>4. Between(u)' = Between(u)
    BY <1>11, <2>1, <2>2 DEF Between
  <2>5. CASE s \in D
    <3>1. u \in q.cur /\ req'[s] = n
      BY <1>7, <1>11, <2>2, <2>5
    <3>2. Left(u, D)' \in SUBSET (Ids(u) \ Stale(u))
      BY <2>2, <2>3, <2>5, <3>1 DEF Left
    <3>3. IsFiniteSet(Ids(u) \ Stale(u))
      BY <1>1, IdsTyped, FS_Difference
    <3>4. Cardinality(Left(u, D)') <= Cardinality(Ids(u) \ Stale(u))
          /\ Cardinality(Ids(u) \ Stale(u)) \in Nat
      BY <3>2, <3>3, FS_Subset, FS_CardinalityType
    <3> QED
      BY <1>1, <1>3, <1>4, <3>4, FreshAreFew DEF Goal
  <2>6. CASE s \notin D
    <3>1. D \in SUBSET Deleting(u) /\ Left(u, D)' \subseteq Left(u, D)
      BY <1>7, <1>8, <1>11, <2>2, <2>3, <2>6
    <3> QED
      BY <1>6, <2>3, <2>4, <3>1
  <2> QED
    BY <2>5, <2>6
<1>20. ASSUME NEW s \in Requests, DeleteStale(s) PROVE Goal
  <2>1. PICK n : Becomes(s, n) /\ n.pc = "create" /\ n.cur = {}
    BY <1>15, <1>20 DEF DeleteStale
  <2>2. Ids(u)' = Ids(u) \ req[s].stale /\ unpruned' = unpruned /\ req[s].pc = "delete"
    BY <1>20, DeleteIs DEF DeleteStale
  <2>3. CASE u \notin req[s].cur
    BY <1>13, <2>1, <2>2, <2>3
  <2>4. CASE u \in req[s].cur
    <3>1. s \in Deleting(u) /\ s \notin D /\ \A r \in D : req'[r] = req[r]
      BY <1>12, <2>1, <2>2, <2>4 DEF Deleting, Between
    <3>2. D \cup {s} \in SUBSET Deleting(u)
      BY <1>8, <3>1
    <3>3. Left(u, D)' \subseteq Left(u, D \cup {s})
      BY <2>2, <3>1 DEF Left
    <3>4. Between(u) \ (D \cup {s}) \subseteq (Between(u) \ D)'
      BY <1>11, <2>1 DEF Between
    <3> QED
      BY <1>6, <2>2, <3>2, <3>3, <3>4
  <2> QED
    BY <2>3, <2>4
<1> QED
    BY <1>1, <1>10, <1>14, <1>16, <1>17, <1>18, <1>19, <1>20, PruneMoves

(* A recipient has no more records than the cap, but for the calls between a  *)
(* record and its prune and for the prunes that failed.                       *)
THEOREM CapKept == NotifySpec => []CapHeld
<1>1. CapInv /\ [Next]_vars => CapInv'
    BY CapStep
<1>2. CapInv => CapHeld
  <2> SUFFICES ASSUME CapInv, NEW u \in Recipients
               PROVE  Cardinality(Of(u)) <= Cap + Cardinality({r \in Requests : u \in req[r].cur}) + unpruned
    BY DEF CapHeld
  <2>1. Cardinality(Left(u, {})) <= Cap + Cardinality(Between(u) \ {}) + unpruned
    BY DEF CapInv
  <2>2. Left(u, {}) = Ids(u) /\ Between(u) \ {} = {r \in Requests : u \in req[r].cur}
    BY DEF Left, Between
  <2>3. Cardinality(Ids(u)) = Cardinality(Of(u))
    BY IdsTyped DEF CapInv
  <2> QED
    BY <2>1, <2>2, <2>3
<1> QED
    BY CapInit, <1>1, <1>2, PTL DEF NotifySpec

-----------------------------------------------------------------------------
(* The directory. *)

(* A list of those who hold a role: all have held one since t, and it has     *)
(* everybody whose role is older.                                             *)
Told(ids, t) ==
    /\ \A u \in ids : HeldSince(u, t)
    /\ \A u \in Users : role[u] # "none" /\ since[u] < t => u \in ids

(* The same of the answers that a request has, question by question.          *)
Learned(q) ==
    /\ q.asked <= clock
    /\ \A u \in q.found : HeldSince(u, q.asked)
    /\ \A k \in q.answers : \A u \in Users : role[u] = k /\ since[u] < q.asked => u \in q.found

DirectoryInv ==
    /\ TypeInv
    /\ directory.expires <= clock + DirectoryTTL
    /\ DirectoryFresh(clock) => Told(directory.ids, directory.expires - DirectoryTTL)
    /\ \A r \in Requests : /\ req[r].pc = "ask" => req[r].found = {} /\ req[r].answers = {}
                           /\ req[r].pc = "roles" => Learned(req[r])

LEMMA DirectoryInit ==
    ASSUME Init
    PROVE  DirectoryInv
<1>1. \A r \in Requests : req[r].pc = "idle"
    BY DEF Init, ServerInit, NoRequest
<1>2. directory.expires = 0 /\ clock = 0
    BY DEF Init, ServerInit
<1>3. directory.expires <= clock + DirectoryTTL /\ ~DirectoryFresh(clock)
    BY <1>2, Constants DEF DirectoryFresh
<1> QED
    BY <1>1, <1>3, TypesInit DEF DirectoryInv

LEMMA PeopleTyped ==
    ASSUME TypeInv
    PROVE  /\ role \in [Users -> Roles] /\ since \in [Users -> Int] /\ heldTo \in [Users -> Int]
           /\ clock \in Nat /\ directory.ids \in SUBSET Users /\ directory.expires \in Int
           /\ req \in [Requests -> RequestType] /\ DirectoryTTL \in Nat
           /\ \A r \in Requests : Shaped(req[r])
BY Constants DEF TypeInv, NotifyTypeOK, ServerTypeOK

(* Changes of roles leave true what is said of the time up to now.            *)
LEMMA PeopleKeep ==
    ASSUME TypeInv, [Next]_vars, NEW u \in Users, NEW t \in Int, t <= clock
    PROVE  /\ HeldSince(u, t) => HeldSince(u, t)'
           /\ \A k : role'[u] = k /\ since'[u] < t => role[u] = k /\ since[u] < t
           /\ clock <= clock'
<1>1. ASSUME UNCHANGED people
      PROVE  /\ HeldSince(u, t) => HeldSince(u, t)'
             /\ \A j : role'[u] = j /\ since'[u] < t => role[u] = j /\ since[u] < t
    BY <1>1 DEF people, HeldSince
<1>2. ASSUME NEW v \in Users, NEW k \in Roles, ChangeRole(v, k)
      PROVE  /\ HeldSince(u, t) => HeldSince(u, t)'
             /\ \A j : role'[u] = j /\ since'[u] < t => role[u] = j /\ since[u] < t
  <2>1. /\ role' = [role EXCEPT ![v] = k] /\ since' = [since EXCEPT ![v] = clock]
        /\ heldTo' = [heldTo EXCEPT ![v] = IF role[v] = "none" THEN heldTo[v] ELSE clock]
    BY <1>2 DEF ChangeRole
  <2>2. CASE u = v
    <3>1. since'[u] = clock /\ heldTo'[u] = IF role[u] = "none" THEN heldTo[u] ELSE clock
      BY <2>1, <2>2, PeopleTyped
    <3>2. ~(since'[u] < t)
      BY <3>1, PeopleTyped
    <3>3. HeldSince(u, t) => heldTo'[u] >= t
      BY <3>1, PeopleTyped DEF HeldSince
    <3> QED
      BY <3>2, <3>3 DEF HeldSince
  <2>3. CASE u # v
    BY <2>1, <2>3, PeopleTyped DEF HeldSince
  <2> QED
    BY <2>2, <2>3
<1>3. clock <= clock' /\ (UNCHANGED people \/ \E v \in Users, k \in Roles : ChangeRole(v, k))
  <2>1. CASE ServerNext
    BY <2>1, PeopleMoves, PeopleTyped
  <2>2. CASE PageNext \/ BellNext
    BY <2>2, WebLeaves, PeopleTyped
  <2>3. CASE UNCHANGED vars
    BY <2>3, PeopleTyped DEF vars, serverVars
  <2> QED
    BY <2>1, <2>2, <2>3, WhoSteps
<1> QED
    BY <1>1, <1>2, <1>3

(* Who asks is moved by the answers only.                                     *)
LEMMA AskMoves ==
    ASSUME TypeInv, [Next]_vars, NEW r \in Requests, req'[r] # req[r]
    PROVE  (\E op \in Operations : Operate(r, op)) \/ Sending(r)
<1>1. req' # req
    OBVIOUS
<1>2. ServerNext
    BY <1>1, WhoSteps, WebLeaves DEF vars, serverVars
<1>3. ~Tick /\ (\A u \in Users : ~ChangeEmail(u) /\ \A k \in Roles : ~ChangeRole(u, k))
    BY <1>1 DEF Tick, ChangeRole, ChangeEmail
<1>4. \A m \in mails : ~Mailing(m)
    BY <1>1 DEF Mailing, ResolveEmail, FetchEmail, FetchFails, SendEmail, SendFails
<1>5. ASSUME NEW s \in Requests, NEW n, Becomes(s, n) PROVE s = r
    BY <1>5, PeopleTyped DEF Becomes
<1>6. \A s \in Requests : Sending(s) => s = r
    BY <1>5, SenderType
<1>7. \A s \in Requests, op \in Operations : Operate(s, op) => s = r
    BY <1>5, OperateType
<1> QED
    BY <1>2, <1>3, <1>4, <1>6, <1>7 DEF ServerNext

LEMMA AskingMoves ==
    ASSUME TypeInv, NEW r \in Requests, Sending(r), req'[r].pc \in {"ask", "roles"}
    PROVE  (Ask(r) /\ ~DirectoryFresh(clock)) \/ \E k \in Query : Answer(r, k)
<1>1. PICK q \in RequestType : q = req[r]
    BY PeopleTyped
<1>2. Shaped(q) /\ req \in [Requests -> RequestType] /\ directory.ids \in SUBSET Users
    BY <1>1, PeopleTyped
<1>3. \A n : Becomes(r, n) => n = req'[r]
    BY <1>2 DEF Becomes
<1>4. \A ids \in SUBSET Users : ~Listed(r, ids)
  <2> SUFFICES ASSUME NEW ids \in SUBSET Users, Listed(r, ids) PROVE FALSE
    OBVIOUS
  <2>1. ListedAs(q, ids) = req'[r]
    BY <1>1, <1>2, <1>3, ListedIs
  <2>2. ListedAs(q, ids).pc \in {"idle", "post"}
    BY DEF ListedAs, RequestType, NoRequest
  <2> QED
    BY <2>1, <2>2
<1>5. ~Finish(r)
    BY <1>1, <1>2, <1>3, FinishIs, FinishedType
<1>6. ~Pruned(r)
    BY <1>1, <1>2 DEF Pruned, RequestType
<1>7. ~Goto(r, "create") /\ ~Goto(r, "find")
    BY <1>1, <1>2 DEF Goto, RequestType
<1>8. ~Ask(r) \/ ~DirectoryFresh(clock)
    BY <1>2, <1>4 DEF Ask
<1>9. q.found \in SUBSET Users
    BY DEF RequestType
<1>10. ~Learn(r) /\ ~AskFails(r)
    BY <1>1, <1>4, <1>9 DEF Learn, AskFails
<1>11. ~Lose(r) /\ ~StoreFails(r) /\ ~Stored(r) /\ ~Post(r) /\ ~Count(r) /\ ~DeleteStale(r)
    BY <1>5, <1>6, <1>7 DEF Lose, StoreFails, Stored, Post, Count, DeleteStale
<1>12. ~FindStale(r)
    BY <1>1, <1>2 DEF FindStale, RequestType
<1>13. \A u \in Recipients : ~Create(r, u)
    BY <1>1, <1>2 DEF Create, RequestType
<1> QED
    BY <1>8, <1>10, <1>11, <1>12, <1>13 DEF Sending

LEMMA DirectoryStep ==
    ASSUME DirectoryInv, [Next]_vars
    PROVE  DirectoryInv'
<1> DEFINE Asks(r) == /\ req'[r].pc = "ask" => req'[r].found = {} /\ req'[r].answers = {}
                      /\ req'[r].pc = "roles" => Learned(req[r])'
           Entry == /\ directory'.expires <= clock' + DirectoryTTL
                    /\ DirectoryFresh(clock)' => Told(directory.ids, directory.expires - DirectoryTTL)'
<1>1. TypeInv /\ TypeInv' /\ clock <= clock' /\ clock \in Nat /\ clock' \in Nat /\ DirectoryTTL \in Nat
  <2>1. TypeInv /\ TypeInv'
    BY TypesStep DEF DirectoryInv
  <2>2. clock <= clock'
    <3>1. CASE ServerNext
      BY <2>1, <3>1, PeopleMoves, PeopleTyped
    <3>2. CASE PageNext \/ BellNext
      BY <2>1, <3>2, WebLeaves, PeopleTyped
    <3>3. CASE UNCHANGED vars
      BY <2>1, <3>3, PeopleTyped DEF vars, serverVars
    <3> QED
      BY <3>1, <3>2, <3>3, WhoSteps
  <2>3. clock' \in Nat
    BY <2>1 DEF TypeInv, NotifyTypeOK, ServerTypeOK
  <2> QED
    BY <2>1, <2>2, <2>3, PeopleTyped
<1>2. \A r \in Requests : req[r] \in RequestType /\ req[r].asked \in Int
      /\ req[r].found \in SUBSET Users /\ req[r].answers \subseteq Query
    BY <1>1, PeopleTyped DEF RequestType
<1>3. ASSUME NEW r \in Requests, req'[r] = req[r] PROVE Asks(r)
  <2>1. CASE req[r].pc = "roles"
    <3>1. Learned(req[r])
      BY <2>1 DEF DirectoryInv
    <3>2. req[r].asked <= clock'
      BY <1>1, <1>2, <3>1 DEF Learned
    <3>3. \A u \in req[r].found : HeldSince(u, req[r].asked)'
      <4> SUFFICES ASSUME NEW u \in req[r].found PROVE HeldSince(u, req[r].asked)'
        OBVIOUS
      <4>1. PICK t \in Int : t = req[r].asked /\ t <= clock /\ u \in Users /\ HeldSince(u, t)
        BY <1>2, <3>1 DEF Learned
      <4>2. HeldSince(u, t)'
        BY <1>1, <4>1, PeopleKeep
      <4> QED
        BY <1>3, <4>1, <4>2 DEF HeldSince
    <3>4. \A k \in req[r].answers : \A u \in Users :
             role'[u] = k /\ since'[u] < req[r].asked => u \in req[r].found
      <4> SUFFICES ASSUME NEW k \in req[r].answers, NEW u \in Users,
                          role'[u] = k, since'[u] < req[r].asked
                   PROVE  u \in req[r].found
        OBVIOUS
      <4>1. PICK t \in Int : t = req[r].asked /\ t <= clock
        BY <1>2, <3>1 DEF Learned
      <4>2. role[u] = k /\ since[u] < t
        BY <1>1, <4>1, PeopleKeep
      <4> QED
        BY <3>1, <4>1, <4>2 DEF Learned
    <3>5. Learned(req[r])'
      BY <1>3, <3>2, <3>3, <3>4 DEF Learned, HeldSince
    <3> QED
      BY <1>3, <2>1, <3>5
  <2>2. CASE req[r].pc # "roles"
    BY <1>3, <2>2 DEF DirectoryInv
  <2> QED
    BY <2>1, <2>2
<1>4. ASSUME NEW r \in Requests, Ask(r), ~DirectoryFresh(clock) PROVE Asks(r)
  <2>1. PICK q \in RequestType : q = req[r] /\ q.pc = "ask" /\ q.found = {} /\ q.answers = {}
    BY <1>2, <1>4 DEF Ask, DirectoryInv
  <2>2. req'[r] = [q EXCEPT !.pc = "roles", !.asked = clock]
    BY <1>1, <1>4, <2>1, PeopleTyped DEF Ask
  <2>3. /\ req'[r].pc = "roles" /\ req'[r].asked = clock
        /\ req'[r].found = {} /\ req'[r].answers = {}
    BY <2>1, <2>2 DEF RequestType
  <2> QED
    BY <1>1, <2>3 DEF Learned
<1>5. ASSUME NEW r \in Requests, NEW k \in Query, Answer(r, k) PROVE Asks(r)
  <2>1. PICK q \in RequestType : q = req[r] /\ q.pc = "roles"
    BY <1>2, <1>5 DEF Answer
  <2>2. PICK n : n = [q EXCEPT !.found = @ \cup Holders(k), !.answers = @ \cup {k}]
    OBVIOUS
  <2>3. req'[r] = n
    BY <1>1, <1>5, <2>1, <2>2, PeopleTyped DEF Answer
  <2>4. /\ n.pc = "roles" /\ n.asked = q.asked
        /\ n.found = q.found \cup Holders(k) /\ n.answers = q.answers \cup {k}
    BY <2>1, <2>2 DEF RequestType
  <2>5. UNCHANGED people /\ clock' = clock
    BY <1>5 DEF Answer
  <2>6. Learned(q)
    BY <2>1 DEF DirectoryInv
  <2>7. \A u \in Holders(k) : HeldSince(u, q.asked)
    BY DEF Holders, HeldSince, Query
  <2>8. \A u \in n.found : HeldSince(u, q.asked)
    BY <2>4, <2>6, <2>7 DEF Learned
  <2>9. \A j \in n.answers : \A u \in Users : role[u] = j /\ since[u] < q.asked => u \in n.found
    <3>1. \A u \in Users : role[u] = k => u \in n.found
      BY <2>4 DEF Holders
    <3> QED
      BY <2>4, <2>6, <3>1 DEF Learned
  <2>10. role' = role /\ since' = since /\ heldTo' = heldTo
    BY <2>5 DEF people
  <2>11. Learned(req[r])'
    BY <2>3, <2>4, <2>5, <2>6, <2>8, <2>9, <2>10 DEF Learned, HeldSince
  <2> QED
    BY <2>3, <2>4, <2>11
<1>6. ASSUME NEW r \in Requests PROVE Asks(r)
  <2>1. CASE req'[r].pc \notin {"ask", "roles"}
    BY <2>1
  <2>2. CASE req'[r].pc \in {"ask", "roles"} /\ req'[r] # req[r]
    <3>1. ASSUME NEW op \in Operations, Operate(r, op) PROVE Asks(r)
      <4>1. PICK n \in RequestType : /\ Becomes(r, n) /\ n.pc \in {"ask", "post"}
                                     /\ n.found = {} /\ n.answers = {}
        BY <1>1, <3>1, OperateType
      <4>2. req'[r] = n
        BY <1>1, <4>1, PeopleTyped DEF Becomes
      <4> QED
        BY <4>1, <4>2
    <3> HIDE DEF Asks
    <3>2. ASSUME Sending(r) PROVE Asks(r)
      BY <1>1, <1>4, <1>5, <2>2, <3>2, AskingMoves
    <3> QED
      BY <1>1, <2>2, <3>1, <3>2, AskMoves
  <2> HIDE DEF Asks
  <2> QED
    BY <1>3, <2>1, <2>2
<1>7. ASSUME directory' = directory PROVE Entry
  <2>1. directory'.expires <= clock' + DirectoryTTL
    BY <1>1, <1>7, PeopleTyped DEF DirectoryInv
  <2>2. ASSUME DirectoryFresh(clock)' PROVE Told(directory.ids, directory.expires - DirectoryTTL)'
    <3>1. PICK t \in Int : t = directory.expires - DirectoryTTL /\ t <= clock
      BY <1>1, PeopleTyped DEF DirectoryInv
    <3>2. DirectoryFresh(clock)
      BY <1>1, <1>7, <2>2, PeopleTyped DEF DirectoryFresh
    <3>3. Told(directory.ids, t)
      BY <3>1, <3>2 DEF DirectoryInv
    <3>4. directory.ids \subseteq Users
      BY <1>1, PeopleTyped
    <3>5. \A u \in directory.ids : HeldSince(u, t)'
      BY <1>1, <3>1, <3>3, <3>4, PeopleKeep DEF Told
    <3>6. \A u \in Users : role'[u] # "none" /\ since'[u] < t => u \in directory.ids
      <4> SUFFICES ASSUME NEW u \in Users, role'[u] # "none", since'[u] < t
                   PROVE  u \in directory.ids
        OBVIOUS
      <4>1. role[u] = role'[u] /\ since[u] < t
        BY <1>1, <3>1, PeopleKeep
      <4> QED
        BY <3>3, <4>1 DEF Told
    <3> QED
      BY <1>7, <3>1, <3>5, <3>6 DEF Told, HeldSince
  <2> QED
    BY <2>1, <2>2
<1>8. ASSUME NEW r \in Requests, Learn(r) PROVE Entry
  <2>1. /\ req[r].pc = "roles" /\ req[r].answers = Query
        /\ directory' = [ids |-> req[r].found, expires |-> req[r].asked + DirectoryTTL]
        /\ UNCHANGED people /\ clock' = clock
    BY <1>8 DEF Learn
  <2>2. Learned(req[r])
    BY <2>1 DEF DirectoryInv
  <2>3. PICK t \in Int : t = req[r].asked /\ t <= clock
    BY <1>2, <2>2 DEF Learned
  <2>4. directory'.ids = req[r].found /\ directory'.expires = t + DirectoryTTL
    BY <2>1, <2>3
  <2>5. directory'.expires <= clock' + DirectoryTTL /\ directory'.expires - DirectoryTTL = t
    BY <1>1, <2>1, <2>3, <2>4
  <2>6. \A u \in req[r].found : HeldSince(u, t)
    BY <2>2, <2>3 DEF Learned
  <2>7. \A u \in Users : role[u] # "none" /\ since[u] < t => u \in req[r].found
    <3> SUFFICES ASSUME NEW u \in Users, role[u] # "none", since[u] < t PROVE u \in req[r].found
      OBVIOUS
    <3>1. role[u] \in Query
      BY <1>1, PeopleTyped DEF Roles, Query
    <3> QED
      BY <2>1, <2>2, <2>3, <3>1 DEF Learned
  <2>8. role' = role /\ since' = since /\ heldTo' = heldTo
    BY <2>1 DEF people
  <2>9. Told(directory.ids, directory.expires - DirectoryTTL)'
    BY <2>4, <2>5, <2>6, <2>7, <2>8 DEF Told, HeldSince
  <2> QED
    BY <2>5, <2>9
<1>9. Entry
  <2>1. CASE ServerNext
    BY <1>1, <1>7, <1>8, <2>1, PeopleMoves
  <2>2. CASE PageNext \/ BellNext
    BY <1>1, <1>7, <2>2, WebLeaves
  <2>3. CASE UNCHANGED vars
    BY <1>7, <2>3 DEF vars, serverVars
  <2> QED
    BY <2>1, <2>2, <2>3, WhoSteps
<1> QED
    BY <1>1, <1>6, <1>9 DEF DirectoryInv

(* A later question asks for less.                                            *)
LEMMA ToldLater ==
    ASSUME TypeInv, NEW ids \in SUBSET Users, NEW t \in Int, NEW s \in Int, s <= t, Told(ids, t)
    PROVE  Told(ids, s)
<1>1. \A u \in Users : heldTo[u] \in Int /\ since[u] \in Int
    BY PeopleTyped
<1>2. \A u \in ids : HeldSince(u, s)
    BY <1>1 DEF Told, HeldSince
<1>3. \A u \in Users : role[u] # "none" /\ since[u] < s => u \in ids
    BY <1>1 DEF Told
<1> QED
    BY <1>2, <1>3 DEF Told

(* A sender that posts what it was told.                                      *)
LEMMA ListedTells ==
    ASSUME DirectoryInv, NEW r \in Requests, req[r].pc \in {"ask", "roles"}, req'[r].pc = "post",
           NEW ids \in SUBSET Users, Listed(r, ids), Told(ids, AsOf(r))
    PROVE  /\ \A u \in req'[r].to : HeldSince(u, AsOf(r))
           /\ \A u \in Users :
                role[u] # "none" /\ since[u] < AsOf(r) /\ (req[r].type = "SUBMITTED" \/ u # req[r].op.actor)
                => u \in req'[r].to
<1>1. PICK q \in RequestType : q = req[r]
    BY PeopleTyped DEF DirectoryInv
<1>2. TypeInv /\ Shaped(q) /\ req \in [Requests -> RequestType]
    BY <1>1, PeopleTyped DEF DirectoryInv
<1>3. req'[r] = ListedAs(q, ids)
    BY <1>1, <1>2, ListedIs DEF Becomes
<1>4. q.type = q.op.kind
    BY <1>1, <1>2 DEF Shaped
<1> DEFINE to == IF q.op.kind = "VERSION_UPLOADED" THEN ids \ {q.op.actor} ELSE ids
<1>5. req'[r].to = to
  <2>1. req'[r] # NoRequest
    BY DEF NoRequest
  <2>2. req'[r] = [q EXCEPT !.pc = "post", !.to = to, !.left = to]
    BY <1>3, <2>1 DEF ListedAs
  <2> HIDE DEF to
  <2> QED
    BY <2>2 DEF RequestType
<1>6. \A u \in to : HeldSince(u, AsOf(r))
    BY DEF Told
<1>7. ASSUME NEW u \in Users, role[u] # "none", since[u] < AsOf(r),
             q.type = "SUBMITTED" \/ u # q.op.actor
      PROVE  u \in to
  <2>1. u \in ids
    BY <1>7 DEF Told
  <2> QED
    BY <1>4, <1>7, <2>1
<1> QED
    BY <1>1, <1>5, <1>6, <1>7

(* Whom a submission or an upload tells: nobody who held no role during the   *)
(* time to live of the list, and, unless Keycloak did not answer, everybody   *)
(* but the uploader whose role is older than that.                            *)
THEOREM DirectoryTells == NotifySpec => DirectoryExact
<1>1. DirectoryInv /\ [Next]_vars => DirectoryInv'
    BY DirectoryStep
<1>2. ASSUME DirectoryInv, [Next]_vars, NEW r \in Requests PROVE TellsHolders(r)
  <2> SUFFICES ASSUME req[r].pc \in {"ask", "roles"}, req'[r].pc = "post"
               PROVE  /\ \A u \in req'[r].to : HeldSince(u, AsOf(r))
                      /\ budget' = budget =>
                           \A u \in Users :
                             role[u] # "none" /\ since[u] < AsOf(r)
                             /\ (req[r].type = "SUBMITTED" \/ u # req[r].op.actor)
                             => u \in req'[r].to
    BY Zenon DEF TellsHolders
  <2>1. PICK q \in RequestType : q = req[r]
    BY <1>2, PeopleTyped DEF DirectoryInv
  <2>2. /\ TypeInv /\ Shaped(q) /\ req \in [Requests -> RequestType] /\ clock \in Nat
        /\ directory.ids \in SUBSET Users /\ directory.expires \in Int /\ DirectoryTTL \in Nat
    BY <1>2, <2>1, PeopleTyped DEF DirectoryInv
  <2>3. q.found \in SUBSET Users /\ q.asked \in Int
    BY DEF RequestType
  <2>4. Sending(r)
    <3>1. req'[r] # req[r]
      OBVIOUS
    <3>2. \A op : ~Operate(r, op)
      BY DEF Operate
    <3> QED
      BY <1>2, <2>2, <3>1, <3>2, AskMoves
  <2>5. CASE Ask(r)
    <3>1. q.pc = "ask" /\ AsOf(r) = clock - DirectoryTTL + 1
      BY <2>1, <2>5 DEF Ask, AsOf
    <3>2. DirectoryFresh(clock)
      <4> SUFFICES ASSUME ~DirectoryFresh(clock) PROVE FALSE
        OBVIOUS
      <4>1. req'[r] = [q EXCEPT !.pc = "roles", !.asked = clock]
        BY <2>1, <2>2, <2>5 DEF Ask
      <4> QED
        BY <4>1 DEF RequestType
    <3>3. Listed(r, directory.ids)
      BY <2>5, <3>2 DEF Ask
    <3>4. PICK t \in Int : t = directory.expires - DirectoryTTL
      BY <2>2
    <3>5. Told(directory.ids, t)
      BY <1>2, <3>2, <3>4 DEF DirectoryInv
    <3>6. PICK s \in Int : s = AsOf(r) /\ s <= t
      BY <2>2, <3>1, <3>2, <3>4 DEF DirectoryFresh
    <3>7. Told(directory.ids, AsOf(r))
      BY <2>2, <3>5, <3>6, ToldLater
    <3> QED
      BY <1>2, <2>2, <3>3, <3>7, ListedTells
  <2>6. CASE Learn(r)
    <3>1. q.pc = "roles" /\ q.answers = Query /\ Listed(r, q.found) /\ AsOf(r) = q.asked
      BY <2>1, <2>6 DEF Learn, AsOf
    <3>2. Learned(q)
      BY <1>2, <2>1, <3>1 DEF DirectoryInv
    <3>3. \A u \in Users : role[u] # "none" => role[u] \in Query
      BY <2>2, PeopleTyped DEF Roles, Query
    <3>4. Told(q.found, AsOf(r))
      BY <3>1, <3>2, <3>3 DEF Learned, Told
    <3> QED
      BY <1>2, <2>3, <3>1, <3>4, ListedTells
  <2>7. CASE AskFails(r)
    <3>1. Listed(r, {}) /\ Spend("faults") /\ budget \in BudgetType
      BY <2>2, <2>7 DEF AskFails, TypeInv
    <3>2. budget' # budget
      BY <3>1, Spent
    <3>3. req'[r].to = {}
      <4>1. req'[r] = ListedAs(q, {})
        BY <2>1, <2>2, <3>1, ListedIs DEF Becomes
      <4>2. req'[r] # NoRequest
        BY DEF NoRequest
      <4>3. req'[r] = [q EXCEPT !.pc = "post", !.to = {}, !.left = {}]
        BY <4>1, <4>2 DEF ListedAs
      <4> QED
        BY <4>3 DEF RequestType
    <3> QED
      BY <3>2, <3>3
  <2>8. Ask(r) \/ Learn(r) \/ AskFails(r)
    <3>1. \A k \in Query : ~Answer(r, k)
      <4> SUFFICES ASSUME NEW k \in Query, Answer(r, k) PROVE FALSE
        OBVIOUS
      <4>1. q.pc = "roles" /\ req'[r] = [q EXCEPT !.found = @ \cup Holders(k), !.answers = @ \cup {k}]
        BY <2>1, <2>2 DEF Answer
      <4> QED
        BY <4>1 DEF RequestType
    <3>2. ~Lose(r) /\ ~Post(r) /\ ~Count(r) /\ ~FindStale(r) /\ ~DeleteStale(r) /\ ~StoreFails(r) /\ ~Stored(r)
      BY DEF Lose, Post, Count, FindStale, DeleteStale, StoreFails, Stored
    <3>3. \A u \in Recipients : ~Create(r, u)
      BY DEF Create
    <3> QED
      BY <2>4, <3>1, <3>2, <3>3 DEF Sending
  <2> QED
    BY <2>5, <2>6, <2>7, <2>8
<1>3. DirectoryInv /\ [Next]_vars => [\A r \in Requests : TellsHolders(r)]_serverVars
    BY <1>2
<1> QED
    BY DirectoryInit, <1>1, <1>3, PTL DEF NotifySpec, DirectoryExact

=============================================================================
