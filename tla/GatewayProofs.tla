--------------------------- MODULE GatewayProofs ---------------------------
(***************************************************************************)
(* Proofs about Gateway for all tables of roles and ways that agree        *)
(* (TablesAssumption), all users and requests, all lifetimes and budgets:  *)
(* the types, what the gateway's decision is worth behind it, what an      *)
(* answer tells, how old roles and confirmations may be when they are      *)
(* used.                                                                   *)
(*                                                                         *)
(* None of the properties is inductive; each gets the invariant it needs.  *)
(*   TimeInv  requests in flight are young, tokens are not from the        *)
(*            future: what was checked at the gate was checked lately.     *)
(*   WayInv   what is still to be done are the last steps of a way of the  *)
(*            route, and after a write nothing that could be refused.      *)
(*   GateInv  who is on the way holds a role of the route, and what the    *)
(*            web application offered had a role and a proof.              *)
(*   ProofInv a proof is no newer than its phrase, nor than a login; a     *)
(*            request on its way had one when it started.                  *)
(*   RolesInv a token's roles are held still, or were lost after its login.*)
(* Moved lists what a step can do to one request; every invariant is shown *)
(* for these nine cases.                                                   *)
(***************************************************************************)
EXTENDS Gateway, SequenceTheorems, TLAPS

(* What is known of a request at each stage.                                  *)
Known(q) ==
    /\ q.pc = "idle" => q = NoRequest
    /\ q.pc # "idle" =>
         /\ q.user \in Users /\ q.route \in Routes
         /\ \E t \in Token : t.user = q.user /\ q.token = {t}
    /\ q.pc = "sent" => q.done = {} /\ ~q.late
    /\ q.pc = "hop" => q.route # ProofRoute /\ q.todo # << >>
    /\ q.pc = "audit" /\ q.route # ProofRoute => q.todo # << >>
    /\ (q.pc = "answered") = (q.answer # "none")

TypeInv ==
    /\ GatewayTypeOK /\ budget \in BudgetType
    /\ \A u \in Users : \A t \in token[u] : t.user = u
    /\ \A r \in Requests : Known(req[r])

-----------------------------------------------------------------------------
(* Constants, budgets, requests. *)

LEMMA Constants ==
    /\ Life \in Nat /\ Tolerance \in Nat /\ ProofLife \in Nat /\ MaxAge \in Nat
    /\ Latency \in Nat /\ Never \in Int /\ Never <= 0
BY GatewayAssumption DEF GatewayAssumption, Never

LEMMA Spent ==
    ASSUME budget \in BudgetType,
           NEW part \in {"sends", "logins", "moves", "ticks", "faults", "windows"}, Spend(part)
    PROVE  budget' \in BudgetType /\ budget'.recent = budget.recent
<1>1. budget[part] \in Nat /\ budget[part] - 1 \in Nat
    BY DEF BudgetType, Spend
<1>2. budget' = [budget EXCEPT ![part] = budget[part] - 1]
    BY DEF Spend
<1> QED
    BY <1>1, <1>2 DEF BudgetType

LEMMA NoRequestType == NoRequest \in RequestType
BY DEF NoRequest, RequestType, Answers

(* A step that moves one request only. *)
LEMMA MoveType ==
    ASSUME req \in [Requests -> RequestType], NEW r \in Requests, NEW n \in RequestType,
           req' = [req EXCEPT ![r] = n]
    PROVE  req' \in [Requests -> RequestType] /\ req'[r] = n
           /\ \A s \in Requests \ {r} : req'[s] = req[s]
OBVIOUS

(* The rest of a way through the services: a step less, or its first step     *)
(* without the operation.                                                     *)
LEMMA RestIs ==
    ASSUME NEW todo \in Seq(SUBSET Ops), todo # << >>, NEW op \in Head(todo)
    PROVE  /\ Rest(todo, op) \in Seq(SUBSET Ops)
           /\ \/ /\ Head(todo) = {op} /\ Len(Rest(todo, op)) = Len(todo) - 1
                 /\ \A i \in 1 .. Len(todo) - 1 : Rest(todo, op)[i] = todo[i + 1]
              \/ /\ Len(Rest(todo, op)) = Len(todo) /\ Rest(todo, op)[1] = todo[1] \ {op}
                 /\ \A i \in 2 .. Len(todo) : Rest(todo, op)[i] = todo[i]
<1>1. CASE Head(todo) = {op}
  <2>1. Rest(todo, op) = Tail(todo)
      BY <1>1 DEF Rest
  <2>2. Tail(todo) \in Seq(SUBSET Ops) /\ Len(Tail(todo)) = Len(todo) - 1
        /\ \A i \in 1 .. Len(todo) - 1 : Tail(todo)[i] = todo[i + 1]
      BY HeadTailProperties
  <2> QED
      BY <1>1, <2>1, <2>2
<1>2. CASE Head(todo) # {op}
  <2> DEFINE first == << Head(todo) \ {op} >>
  <2>1. Rest(todo, op) = first \o Tail(todo)
      BY <1>2 DEF Rest
  <2>2. Tail(todo) \in Seq(SUBSET Ops) /\ Len(Tail(todo)) = Len(todo) - 1
        /\ (\A i \in 1 .. Len(todo) - 1 : Tail(todo)[i] = todo[i + 1])
        /\ Head(todo) \in SUBSET Ops /\ Head(todo) = todo[1] /\ Len(todo) \in Nat \ {0}
      BY HeadTailProperties
  <2>3. first \in Seq(SUBSET Ops) /\ Len(first) = 1 /\ first[1] = todo[1] \ {op}
      BY <2>2
  <2> HIDE DEF first
  <2>4. PICK tail \in Seq(SUBSET Ops) : tail = Tail(todo)
      BY <2>2
  <2>5. /\ first \o tail \in Seq(SUBSET Ops) /\ Len(first \o tail) = Len(first) + Len(tail)
        /\ \A i \in 1 .. Len(first) + Len(tail) :
             (first \o tail)[i] = IF i <= Len(first) THEN first[i] ELSE tail[i - Len(first)]
      BY <2>3, ConcatProperties
  <2>6. Len(first \o tail) = Len(todo) /\ (first \o tail)[1] = todo[1] \ {op}
      BY <2>2, <2>3, <2>4, <2>5
  <2>7. ASSUME NEW i \in 2 .. Len(todo)
        PROVE  (first \o tail)[i] = todo[i]
    <3>1. i \in 1 .. Len(first) + Len(tail) /\ ~(i <= Len(first))
          /\ i - 1 \in 1 .. Len(todo) - 1 /\ (i - 1) + 1 = i /\ i - Len(first) = i - 1
        BY <2>2, <2>3, <2>4
    <3>2. (first \o tail)[i] = tail[i - 1]
        BY <2>5, <3>1
    <3>3. tail[i - 1] = todo[(i - 1) + 1]
        BY <2>2, <2>4, <3>1
    <3> QED
        BY <3>1, <3>2, <3>3
  <2> QED
      BY <2>1, <2>4, <2>5, <2>6, <2>7
<1> QED
    BY <1>1, <1>2

-----------------------------------------------------------------------------
(* What a step does to a request: q is the request before, n after it.        *)

SameRequest(q, n) ==
    /\ n.user = q.user /\ n.token = q.token /\ n.route = q.route /\ n.proof = q.proof
    /\ n.offered = q.offered /\ n.start = q.start

Sent(q, n) ==
    /\ q.pc = "idle" /\ n.pc = "sent" /\ n.user \in Users /\ n.route \in Routes
    /\ n.proof \subseteq proofs
    /\ \E t \in token[n.user] : n.token = {t} /\ n.offered = IsOffered(t, n.route, n.proof)
    /\ n.todo = << >> /\ n.done = {} /\ n.answer = "none" /\ ~n.late /\ n.start = clock

Answered(q, n, answer) ==
    /\ SameRequest(q, n) /\ n.pc = "answered" /\ n.answer = answer
    /\ n.todo = q.todo /\ n.done = q.done /\ n.late = q.late

Refused(q, n) ==
    /\ q.pc = "sent"
    /\ \/ \E answer \in {"throttled", "unauthorized", "error"} : Answered(q, n, answer)
       \/ /\ Answered(q, n, "forbidden")
          /\ \E t \in q.token : ~Holds(t, GateRoles[q.route]) \/ ~ProofAccepted(q)

LetIn(q) ==
    \E t \in q.token : Valid(t, clock) /\ Holds(t, GateRoles[q.route]) /\ ProofAccepted(q)

Issued(q, n) ==
    /\ q.pc = "sent" /\ q.route = ProofRoute /\ LetIn(q)
    /\ SameRequest(q, n) /\ n.pc = "audit" /\ n.answer = q.answer
    /\ n.todo = q.todo /\ n.done = q.done /\ n.late = q.late

Entered(q, n) ==
    /\ q.pc = "sent" /\ q.route # ProofRoute /\ LetIn(q)
    /\ SameRequest(q, n) /\ n.todo \in PathsOf[q.route] /\ n.done = q.done /\ n.late = q.late
    /\ n.pc = IF q.route \in DOMAIN ActionFor THEN "audit"
              ELSE IF n.todo = << >> THEN "answered" ELSE "hop"
    /\ n.answer = IF n.todo = << >> THEN "ok" ELSE q.answer

Logged(q, n) ==
    /\ q.pc = "audit"
    /\ \/ q.route = ProofRoute /\ Answered(q, n, "ok")
       \/ /\ q.route # ProofRoute /\ SameRequest(q, n) /\ n.pc = "hop" /\ n.answer = q.answer
          /\ n.todo = q.todo /\ n.done = q.done /\ n.late = q.late

Passed(q, n) ==
    /\ q.pc = "hop" /\ SameRequest(q, n) /\ n.late = q.late
    /\ \E op \in Head(q.todo) :
         /\ n.todo = Rest(q.todo, op)
         /\ \/ n.done = q.done \cup {op} /\ \E t \in q.token : Serves(t, op)
            \/ n.done = q.done /\ op \in Swallowed
    /\ n.pc = IF n.todo = << >> THEN "answered" ELSE "hop"
    /\ n.answer = IF n.todo = << >> THEN "ok" ELSE "none"

Denied(q, n) ==
    /\ q.pc = "hop" /\ SameRequest(q, n) /\ n.todo = q.todo /\ n.done = q.done
    /\ n.pc = "answered" /\ n.late
    /\ \E op \in Head(q.todo) \ Swallowed : \E t \in q.token :
         ~Serves(t, op) /\ n.answer = IF Valid(t, clock) THEN "forbidden" ELSE "unauthorized"

Broken(q, n) ==
    /\ q.pc = "hop" /\ SameRequest(q, n) /\ n.todo = q.todo /\ n.late = q.late
    /\ n.pc = "answered" /\ n.answer = "error"
    /\ \E op \in Head(q.todo) :
         /\ n.done = q.done \/ n.done = q.done \cup {op}
         /\ \E t \in q.token : Serves(t, op)

Freed(q, n) == q.pc = "answered" /\ n = NoRequest

Moved(q, n) ==
    \/ Sent(q, n) \/ Refused(q, n) \/ Issued(q, n) \/ Entered(q, n) \/ Logged(q, n)
    \/ Passed(q, n) \/ Denied(q, n) \/ Broken(q, n) \/ Freed(q, n)

(* One request moves, and nothing of the world but hits, proofs and phrases.  *)
Moves(r) ==
    /\ \E n \in RequestType : req' = [req EXCEPT ![r] = n] /\ Moved(req[r], n)
    /\ UNCHANGED <<roles, token, clock, lost>>

LEMMA Replied ==
    ASSUME req \in [Requests -> RequestType], NEW r \in Requests, NEW answer \in Answers,
           Reply(r, answer)
    PROVE  \E n \in RequestType : req' = [req EXCEPT ![r] = n] /\ Answered(req[r], n, answer)
<1>1. PICK q \in RequestType : q = req[r]
    OBVIOUS
<1>2. PICK n : n = [q EXCEPT !.pc = "answered", !.answer = answer]
    OBVIOUS
<1>3. n \in RequestType
    BY <1>2 DEF RequestType
<1>4. Answered(q, n, answer)
    BY <1>2 DEF RequestType, Answered, SameRequest
<1>5. req' = [req EXCEPT ![r] = n]
    BY <1>1, <1>2 DEF Reply
<1> QED
    BY <1>1, <1>3, <1>4, <1>5

LEMMA SendMoves ==
    ASSUME TypeInv, NEW r \in Requests, NEW u \in Users, Send(r, u)
    PROVE  Moves(r)
<1>1. PICK t \in token[u], route \in budget.routes, proof \in {{}} \cup {{p} : p \in proofs} :
         req' = [req EXCEPT ![r] =
              [NoRequest EXCEPT !.pc = "sent", !.user = u, !.token = {t}, !.route = route,
                                !.proof = proof, !.offered = IsOffered(t, route, proof),
                                !.start = clock]]
    BY Zenon DEF Send
<1>2. PICK n : n = [NoRequest EXCEPT !.pc = "sent", !.user = u, !.token = {t}, !.route = route,
                                !.proof = proof, !.offered = IsOffered(t, route, proof),
                                !.start = clock]
    OBVIOUS
<1>3. t \in Token /\ route \in Routes /\ proof \subseteq proofs /\ proof \in SUBSET Proof
      /\ clock \in Int /\ IsOffered(t, route, proof) \in BOOLEAN
    BY DEF TypeInv, GatewayTypeOK, BudgetType, IsOffered
<1>4. n = [pc |-> "sent", user |-> u, token |-> {t}, route |-> route, proof |-> proof,
           offered |-> IsOffered(t, route, proof), todo |-> << >>, done |-> {},
           answer |-> "none", late |-> FALSE, start |-> clock]
    BY <1>2 DEF NoRequest
<1>5. << >> \in Seq(SUBSET Ops)
    OBVIOUS
<1>6. n \in RequestType
    BY <1>3, <1>4, <1>5 DEF RequestType, Answers
<1>7. Sent(req[r], n)
    BY <1>3, <1>4 DEF Sent, Send
<1> QED
    BY <1>1, <1>2, <1>6, <1>7 DEF Moves, Moved, Send

LEMMA GateMoves ==
    ASSUME TypeInv, NEW r \in Requests, Gate(r)
    PROVE  Moves(r)
<1>1. PICK q \in RequestType : q = req[r]
    BY DEF TypeInv, GatewayTypeOK
<1>2. q.pc = "sent" /\ q.route \in Routes /\ UNCHANGED <<roles, token, clock, lost>>
      /\ req \in [Requests -> RequestType]
    BY <1>1 DEF Gate, TypeInv, GatewayTypeOK, Known
<1> SUFFICES \E n \in RequestType : req' = [req EXCEPT ![r] = n] /\ Moved(req[r], n)
    BY <1>2 DEF Moves
<1>3. ASSUME NEW answer \in {"throttled", "unauthorized", "error"}, Reply(r, answer)
      PROVE  \E n \in RequestType : req' = [req EXCEPT ![r] = n] /\ Moved(req[r], n)
  <2>1. PICK n \in RequestType : req' = [req EXCEPT ![r] = n] /\ Answered(req[r], n, answer)
      BY <1>2, <1>3, Replied DEF Answers
  <2>2. Refused(req[r], n)
      BY <1>1, <1>2, <2>1 DEF Refused
  <2> QED
      BY <2>1, <2>2 DEF Moved
<1>4. CASE Reply(r, "throttled")
    BY <1>3, <1>4
<1>5. ASSUME NEW t \in q.token, Reply(r, "unauthorized")
      PROVE  \E n \in RequestType : req' = [req EXCEPT ![r] = n] /\ Moved(req[r], n)
    BY <1>3, <1>5
<1>6. ASSUME NEW t \in q.token, ~Holds(t, GateRoles[q.route]) \/ ~ProofAccepted(q),
             Reply(r, "forbidden")
      PROVE  \E n \in RequestType : req' = [req EXCEPT ![r] = n] /\ Moved(req[r], n)
  <2>1. PICK n \in RequestType : req' = [req EXCEPT ![r] = n] /\ Answered(req[r], n, "forbidden")
      BY <1>2, <1>6, Replied DEF Answers
  <2>2. Refused(req[r], n)
      BY <1>1, <1>2, <1>6, <2>1 DEF Refused
  <2> QED
      BY <2>1, <2>2 DEF Moved
<1>7. ASSUME NEW t \in q.token, Valid(t, clock), Holds(t, GateRoles[q.route]), ProofAccepted(q),
             q.route = ProofRoute, IssueProof(r, t)
      PROVE  \E n \in RequestType : req' = [req EXCEPT ![r] = n] /\ Moved(req[r], n)
  <2>1. CASE Reply(r, "error")
      BY <1>3, <2>1
  <2>2. CASE req' = [req EXCEPT ![r].pc = "audit"]
    <3>1. PICK n : n = [q EXCEPT !.pc = "audit"]
        OBVIOUS
    <3>2. n \in RequestType
        BY <3>1 DEF RequestType
    <3>3. SameRequest(q, n) /\ n.pc = "audit" /\ n.answer = q.answer
          /\ n.todo = q.todo /\ n.done = q.done /\ n.late = q.late
        BY <3>1 DEF RequestType, SameRequest
    <3>4. LetIn(q)
        BY <1>7 DEF LetIn
    <3>5. Issued(q, n)
        BY <1>2, <1>7, <3>3, <3>4 DEF Issued
    <3>6. req' = [req EXCEPT ![r] = n]
        BY <1>1, <2>2, <3>1
    <3> QED
        BY <1>1, <3>2, <3>5, <3>6 DEF Moved
  <2> QED
      BY <1>7, <2>1, <2>2 DEF IssueProof
<1>8. ASSUME NEW t \in q.token, Valid(t, clock), Holds(t, GateRoles[q.route]), ProofAccepted(q),
             q.route # ProofRoute, NEW path \in PathsOf[q.route],
             req' = [req EXCEPT
                       ![r].pc = IF q.route \in DOMAIN ActionFor THEN "audit"
                                 ELSE IF path = << >> THEN "answered" ELSE "hop",
                       ![r].todo = path,
                       ![r].answer = IF path = << >> THEN "ok" ELSE @]
      PROVE  \E n \in RequestType : req' = [req EXCEPT ![r] = n] /\ Moved(req[r], n)
  <2>1. PICK pc \in {"audit", "answered", "hop"} :
          pc = IF q.route \in DOMAIN ActionFor THEN "audit"
               ELSE IF path = << >> THEN "answered" ELSE "hop"
      OBVIOUS
  <2>2. PICK answer \in Answers : answer = IF path = << >> THEN "ok" ELSE q.answer
      BY DEF Answers, RequestType
  <2>3. PICK n : n = [q EXCEPT !.pc = pc, !.todo = path, !.answer = answer]
      OBVIOUS
  <2>4. path \in Seq(SUBSET Ops)
      BY <1>2, GatewayAssumption DEF GatewayAssumption
  <2>5. n \in RequestType
      BY <2>3, <2>4 DEF RequestType
  <2>6. SameRequest(q, n) /\ n.pc = pc /\ n.answer = answer
        /\ n.todo = path /\ n.done = q.done /\ n.late = q.late
      BY <2>3 DEF RequestType, SameRequest
  <2>7. LetIn(q)
      BY <1>8 DEF LetIn
  <2>8. Entered(q, n)
      BY <1>2, <1>8, <2>1, <2>2, <2>6, <2>7 DEF Entered
  <2>9. req' = [req EXCEPT ![r].pc = pc, ![r].todo = path, ![r].answer = answer]
    <3>1. req[r].answer = q.answer
        BY <1>1
    <3> QED
        BY <1>1, <1>2, <1>8, <2>1, <2>2
  <2>10. req' = [req EXCEPT ![r] = n]
      BY <1>1, <2>3, <2>9
  <2> QED
      BY <1>1, <2>5, <2>8, <2>10 DEF Moved
<1>9. \/ Reply(r, "throttled")
      \/ \E t \in q.token :
           \/ Reply(r, "unauthorized")
           \/ (~Holds(t, GateRoles[q.route]) \/ ~ProofAccepted(q)) /\ Reply(r, "forbidden")
           \/ /\ Valid(t, clock) /\ Holds(t, GateRoles[q.route]) /\ ProofAccepted(q)
              /\ q.route = ProofRoute /\ IssueProof(r, t)
           \/ /\ Valid(t, clock) /\ Holds(t, GateRoles[q.route]) /\ ProofAccepted(q)
              /\ q.route # ProofRoute
              /\ \E path \in PathsOf[q.route] :
                   req' = [req EXCEPT
                       ![r].pc = IF q.route \in DOMAIN ActionFor THEN "audit"
                                 ELSE IF path = << >> THEN "answered" ELSE "hop",
                       ![r].todo = path,
                       ![r].answer = IF path = << >> THEN "ok" ELSE @]
    BY <1>1, ZenonT(30) DEF Gate
<1> QED
    BY <1>4, <1>5, <1>6, <1>7, <1>8, <1>9

LEMMA AuditedMoves ==
    ASSUME TypeInv, NEW r \in Requests, Audited(r)
    PROVE  Moves(r)
<1>1. PICK q \in RequestType : q = req[r]
    BY DEF TypeInv, GatewayTypeOK
<1>2. q.pc = "audit" /\ UNCHANGED <<roles, token, clock, lost>>
      /\ req \in [Requests -> RequestType]
    BY <1>1 DEF Audited, TypeInv, GatewayTypeOK
<1>3. CASE q.route = ProofRoute
  <2>1. Reply(r, "ok")
      BY <1>1, <1>3 DEF Audited
  <2>2. PICK n \in RequestType : req' = [req EXCEPT ![r] = n] /\ Answered(req[r], n, "ok")
      BY <1>2, <2>1, Replied DEF Answers
  <2>3. Logged(req[r], n)
      BY <1>1, <1>2, <1>3, <2>2 DEF Logged
  <2> QED
      BY <1>2, <2>2, <2>3 DEF Moved, Moves
<1>4. CASE q.route # ProofRoute
  <2>1. PICK n : n = [q EXCEPT !.pc = "hop"]
      OBVIOUS
  <2>2. n \in RequestType
      BY <2>1 DEF RequestType
  <2>3. SameRequest(q, n) /\ n.pc = "hop" /\ n.answer = q.answer
        /\ n.todo = q.todo /\ n.done = q.done /\ n.late = q.late
      BY <2>1 DEF RequestType, SameRequest
  <2>4. Logged(q, n)
      BY <1>2, <1>4, <2>3 DEF Logged
  <2>5. req' = [req EXCEPT ![r] = n]
      BY <1>1, <1>4, <2>1 DEF Audited
  <2> QED
      BY <1>1, <1>2, <2>2, <2>4, <2>5 DEF Moved, Moves
<1> QED
    BY <1>3, <1>4

LEMMA Proceeds ==
    ASSUME req \in [Requests -> RequestType], NEW r \in Requests, req[r].todo # << >>,
           NEW op \in Head(req[r].todo), NEW done \in SUBSET Ops, Proceed(r, op, done)
    PROVE  \E n \in RequestType :
             /\ req' = [req EXCEPT ![r] = n]
             /\ SameRequest(req[r], n) /\ n.late = req[r].late
             /\ n.todo = Rest(req[r].todo, op) /\ n.done = done
             /\ n.pc = IF n.todo = << >> THEN "answered" ELSE "hop"
             /\ n.answer = IF n.todo = << >> THEN "ok" ELSE "none"
<1>1. PICK q \in RequestType : q = req[r]
    OBVIOUS
<1>2. PICK rest \in Seq(SUBSET Ops) : rest = Rest(q.todo, op)
  <2>1. q.todo \in Seq(SUBSET Ops)
      BY DEF RequestType
  <2> QED
      BY <1>1, <2>1, RestIs
<1>3. PICK pc \in {"answered", "hop"} : pc = IF rest = << >> THEN "answered" ELSE "hop"
    OBVIOUS
<1>4. PICK answer \in {"ok", "none"} : answer = IF rest = << >> THEN "ok" ELSE "none"
    OBVIOUS
<1>5. PICK n : n = [q EXCEPT !.todo = rest, !.done = done, !.pc = pc, !.answer = answer]
    OBVIOUS
<1>6. n \in RequestType
    BY <1>5 DEF RequestType, Answers
<1>7. SameRequest(q, n) /\ n.pc = pc /\ n.answer = answer
      /\ n.todo = rest /\ n.done = done /\ n.late = q.late
    BY <1>5 DEF RequestType, SameRequest
<1>8. req' = [req EXCEPT ![r].todo = rest, ![r].done = done, ![r].pc = pc, ![r].answer = answer]
    BY <1>1, <1>2, <1>3, <1>4 DEF Proceed
<1>9. req' = [req EXCEPT ![r] = n]
    BY <1>1, <1>5, <1>8
<1> QED
    BY <1>1, <1>2, <1>3, <1>4, <1>6, <1>7, <1>9

LEMMA HopMoves ==
    ASSUME TypeInv, NEW r \in Requests, NEW op \in Ops, Hop(r, op)
    PROVE  Moves(r)
<1>1. PICK q \in RequestType : q = req[r]
    BY DEF TypeInv, GatewayTypeOK
<1>2. q.pc = "hop" /\ q.todo # << >> /\ op \in Head(q.todo)
      /\ UNCHANGED <<roles, token, clock, lost>>
      /\ req \in [Requests -> RequestType] /\ q.done \in SUBSET Ops
    BY <1>1 DEF Hop, TypeInv, GatewayTypeOK, Known, RequestType
<1> SUFFICES \E n \in RequestType : req' = [req EXCEPT ![r] = n] /\ Moved(req[r], n)
    BY <1>2 DEF Moves
<1>3. ASSUME NEW t \in q.token, Serves(t, op), Proceed(r, op, q.done \cup {op})
      PROVE  \E n \in RequestType : req' = [req EXCEPT ![r] = n] /\ Moved(req[r], n)
  <2>1. PICK n \in RequestType :
             /\ req' = [req EXCEPT ![r] = n]
             /\ SameRequest(q, n) /\ n.late = q.late
             /\ n.todo = Rest(q.todo, op) /\ n.done = q.done \cup {op}
             /\ n.pc = IF n.todo = << >> THEN "answered" ELSE "hop"
             /\ n.answer = IF n.todo = << >> THEN "ok" ELSE "none"
      BY <1>1, <1>2, <1>3, Proceeds
  <2>2. Passed(q, n)
      BY <1>2, <1>3, <2>1 DEF Passed
  <2> QED
      BY <1>1, <2>1, <2>2 DEF Moved
<1>4. ASSUME NEW t \in q.token, op \in Swallowed, Proceed(r, op, q.done)
      PROVE  \E n \in RequestType : req' = [req EXCEPT ![r] = n] /\ Moved(req[r], n)
  <2>1. PICK n \in RequestType :
             /\ req' = [req EXCEPT ![r] = n]
             /\ SameRequest(q, n) /\ n.late = q.late
             /\ n.todo = Rest(q.todo, op) /\ n.done = q.done
             /\ n.pc = IF n.todo = << >> THEN "answered" ELSE "hop"
             /\ n.answer = IF n.todo = << >> THEN "ok" ELSE "none"
      BY <1>1, <1>2, <1>4, Proceeds
  <2>2. Passed(q, n)
      BY <1>2, <1>4, <2>1 DEF Passed
  <2> QED
      BY <1>1, <2>1, <2>2 DEF Moved
<1>5. ASSUME NEW t \in q.token, ~Serves(t, op), op \notin Swallowed,
             req' = [req EXCEPT ![r].pc = "answered", ![r].late = TRUE,
                       ![r].answer = IF Valid(t, clock) THEN "forbidden" ELSE "unauthorized"]
      PROVE  \E n \in RequestType : req' = [req EXCEPT ![r] = n] /\ Moved(req[r], n)
  <2>1. PICK answer \in Answers :
          answer = IF Valid(t, clock) THEN "forbidden" ELSE "unauthorized"
      BY DEF Answers
  <2>2. PICK n : n = [q EXCEPT !.pc = "answered", !.late = TRUE, !.answer = answer]
      OBVIOUS
  <2>3. n \in RequestType
      BY <2>2 DEF RequestType
  <2>4. SameRequest(q, n) /\ n.pc = "answered" /\ n.answer = answer /\ n.late
        /\ n.todo = q.todo /\ n.done = q.done
      BY <2>2 DEF RequestType, SameRequest
  <2>5. Denied(q, n)
      BY <1>2, <1>5, <2>1, <2>4 DEF Denied
  <2>6. req' = [req EXCEPT ![r] = n]
      BY <1>1, <1>5, <2>1, <2>2
  <2> QED
      BY <1>1, <2>3, <2>5, <2>6 DEF Moved
<1>6. \E t \in q.token :
        \/ Serves(t, op) /\ Proceed(r, op, q.done \cup {op})
        \/ op \in Swallowed /\ Proceed(r, op, q.done)
        \/ /\ ~Serves(t, op) /\ op \notin Swallowed
           /\ req' = [req EXCEPT ![r].pc = "answered", ![r].late = TRUE,
                       ![r].answer = IF Valid(t, clock) THEN "forbidden" ELSE "unauthorized"]
    BY <1>1, ZenonT(30) DEF Hop, PassedOver
<1> QED
    BY <1>3, <1>4, <1>5, <1>6

LEMMA FailMoves ==
    ASSUME TypeInv, NEW r \in Requests, NEW op \in Ops, Fail(r, op)
    PROVE  Moves(r)
<1>1. PICK q \in RequestType : q = req[r]
    BY DEF TypeInv, GatewayTypeOK
<1>2. q.pc = "hop" /\ q.todo # << >> /\ op \in Head(q.todo)
      /\ UNCHANGED <<roles, token, clock, lost>>
      /\ req \in [Requests -> RequestType] /\ q.done \in SUBSET Ops
      /\ \E t \in q.token : Serves(t, op)
    BY <1>1 DEF Fail, TypeInv, GatewayTypeOK, Known, RequestType
<1>3. PICK done \in {q.done, q.done \cup {op}} :
        IF PassedOver(op) THEN Proceed(r, op, done)
        ELSE req' = [req EXCEPT ![r].pc = "answered", ![r].answer = "error", ![r].done = done]
    BY <1>1 DEF Fail
<1>4. done \in SUBSET Ops
    BY <1>2
<1>5. CASE op \in Swallowed
  <2>1. PICK n \in RequestType :
             /\ req' = [req EXCEPT ![r] = n]
             /\ SameRequest(q, n) /\ n.late = q.late
             /\ n.todo = Rest(q.todo, op) /\ n.done = done
             /\ n.pc = IF n.todo = << >> THEN "answered" ELSE "hop"
             /\ n.answer = IF n.todo = << >> THEN "ok" ELSE "none"
      BY <1>1, <1>2, <1>3, <1>4, <1>5, Proceeds DEF PassedOver
  <2>2. Passed(q, n)
      BY <1>2, <1>3, <1>5, <2>1 DEF Passed
  <2> QED
      BY <1>1, <1>2, <2>1, <2>2 DEF Moved, Moves
<1>6. CASE op \notin Swallowed
  <2>1. PICK n : n = [q EXCEPT !.pc = "answered", !.answer = "error", !.done = done]
      OBVIOUS
  <2>2. n \in RequestType
      BY <1>4, <2>1 DEF RequestType, Answers
  <2>3. SameRequest(q, n) /\ n.pc = "answered" /\ n.answer = "error" /\ n.late = q.late
        /\ n.todo = q.todo /\ n.done = done
      BY <2>1 DEF RequestType, SameRequest
  <2>4. Broken(q, n)
      BY <1>2, <1>3, <2>3 DEF Broken
  <2>5. req' = [req EXCEPT ![r] = n]
      BY <1>1, <1>3, <1>6, <2>1 DEF PassedOver
  <2> QED
      BY <1>1, <1>2, <2>2, <2>4, <2>5 DEF Moved, Moves
<1> QED
    BY <1>5, <1>6

LEMMA ReceiveMoves ==
    ASSUME TypeInv, NEW r \in Requests, Receive(r)
    PROVE  Moves(r)
<1>1. req' = [req EXCEPT ![r] = NoRequest] /\ Moved(req[r], NoRequest)
    BY DEF Receive, Moved, Freed
<1> QED
    BY <1>1, NoRequestType DEF Receive, Moves

(* The other steps change the world and leave the requests alone.             *)
World == (\E u \in Users : Login(u) \/ ChangeRoles(u)) \/ Tick \/ \E route \in Routes : WindowEnds(route)

LEMMA NextMoves ==
    ASSUME TypeInv, GatewayNext
    PROVE  World \/ \E r \in Requests : Moves(r)
<1>1. budget.who \subseteq Users /\ budget.slots \subseteq Requests /\ budget.routes \subseteq Routes
    BY DEF TypeInv, BudgetType
<1>2. CASE \E u \in budget.who : Login(u) \/ ChangeRoles(u)
    BY <1>1, <1>2 DEF World
<1>3. CASE \E u \in budget.who : \E r \in budget.slots : Send(r, u)
    BY <1>1, <1>3, SendMoves
<1>4. CASE \E r \in Requests : Work(r)
    BY <1>4, GateMoves, AuditedMoves, HopMoves DEF Work
<1>5. CASE \E r \in Requests : Receive(r) \/ \E op \in Ops : Fail(r, op)
    BY <1>5, ReceiveMoves, FailMoves
<1>6. CASE Tick \/ \E route \in budget.routes : WindowEnds(route)
    BY <1>1, <1>6 DEF World
<1> QED
    BY <1>2, <1>3, <1>4, <1>5, <1>6 DEF GatewayNext

-----------------------------------------------------------------------------
(* Types. *)

(* A phrase is noted with the proof it is for.                                *)
Proving ==
    \E r \in Requests : \E t \in req[r].token, action \in Actions :
      /\ RecentLogin(t)
      /\ proofs' = proofs \cup {[actor |-> t.user, action |-> action, expires |-> clock + ProofLife]}
      /\ typed' = [typed EXCEPT ![t.user][action] = clock]
      /\ UNCHANGED <<roles, token, clock, lost, budget>>

BudgetStep ==
    \/ budget' = budget
    \/ \E part \in {"sends", "logins", "moves", "ticks", "faults", "windows"} : Spend(part)

HitsStep ==
    \/ hits' = hits
    \/ \E route \in Routes : hits' = [hits EXCEPT ![route] = << >>]
    \/ \E r \in Requests : /\ req[r].pc = "sent"
                           /\ hits' = [hits EXCEPT ![req[r].route] = Append(@, req[r].user)]

WorldStep ==
    /\ UNCHANGED <<req, proofs, typed>>
    /\ (\E u \in Users : Login(u) \/ ChangeRoles(u)) \/ Tick

(* What a step does to the variables that are not the requests.               *)
LEMMA NextWorld ==
    ASSUME TypeInv, GatewayNext
    PROVE  /\ BudgetStep /\ HitsStep
           /\ UNCHANGED <<proofs, typed>> \/ Proving
           /\ UNCHANGED <<roles, token, clock, lost>> \/ WorldStep
<1> DEFINE Goal == /\ BudgetStep /\ HitsStep
                   /\ UNCHANGED <<proofs, typed>> \/ Proving
                   /\ UNCHANGED <<roles, token, clock, lost>> \/ WorldStep
<1>1. budget.who \subseteq Users /\ budget.slots \subseteq Requests /\ budget.routes \subseteq Routes
    BY DEF TypeInv, BudgetType
<1>2. ASSUME NEW u \in Users, Login(u) PROVE Goal
    BY <1>2, Zenon DEF Login, BudgetStep, HitsStep, WorldStep
<1>3. ASSUME NEW u \in Users, ChangeRoles(u) PROVE Goal
    BY <1>3, Zenon DEF ChangeRoles, BudgetStep, HitsStep, WorldStep
<1>4. ASSUME NEW u \in Users, NEW r \in Requests, Send(r, u) PROVE Goal
    BY <1>4, Zenon DEF Send, BudgetStep, HitsStep, WorldStep
<1>5. ASSUME NEW r \in Requests, Gate(r) PROVE Goal
  <2>1. UNCHANGED <<roles, token, clock, lost, budget>> /\ req[r].pc = "sent"
      BY <1>5 DEF Gate
  <2>2. HitsStep
      BY <1>5, Zenon DEF Gate, HitsStep
  <2>3. UNCHANGED <<proofs, typed>> \/ \E t \in req[r].token : IssueProof(r, t)
      BY <1>5, Zenon DEF Gate
  <2>4. ASSUME NEW t \in req[r].token, IssueProof(r, t)
        PROVE  UNCHANGED <<proofs, typed>> \/ Proving
      BY <2>1, <2>4, Zenon DEF IssueProof, Proving
  <2> QED
      BY <2>1, <2>2, <2>3, <2>4 DEF BudgetStep
<1>6. ASSUME NEW r \in Requests, Audited(r) \/ Receive(r) PROVE Goal
    BY <1>6 DEF Audited, Receive, BudgetStep, HitsStep, WorldStep
<1>7. ASSUME NEW r \in Requests, NEW op \in Ops, Hop(r, op) PROVE Goal
    BY <1>7 DEF Hop, BudgetStep, HitsStep, WorldStep
<1>8. ASSUME NEW r \in Requests, NEW op \in Ops, Fail(r, op) PROVE Goal
    BY <1>8, Zenon DEF Fail, BudgetStep, HitsStep, WorldStep
<1>9. ASSUME Tick PROVE Goal
    BY <1>9, Zenon DEF Tick, BudgetStep, HitsStep, WorldStep
<1>10. ASSUME NEW route \in Routes, WindowEnds(route) PROVE Goal
    BY <1>10, Zenon DEF WindowEnds, BudgetStep, HitsStep, WorldStep
<1> SUFFICES Goal
    OBVIOUS
<1> HIDE DEF Goal
<1>11. CASE \E u \in budget.who : Login(u) \/ ChangeRoles(u) \/ \E r \in budget.slots : Send(r, u)
    BY <1>1, <1>2, <1>3, <1>4, <1>11
<1>12. CASE \E r \in Requests : Work(r) \/ Receive(r) \/ \E op \in Ops : Fail(r, op)
    BY <1>5, <1>6, <1>7, <1>8, <1>12 DEF Work
<1>13. CASE Tick \/ \E route \in budget.routes : WindowEnds(route)
    BY <1>1, <1>9, <1>10, <1>13
<1> QED
    BY <1>11, <1>12, <1>13 DEF GatewayNext

(* A request after a step fits its stage as it did before.                    *)
LEMMA KnownNext ==
    ASSUME TypeInv, NEW q \in RequestType, NEW n \in RequestType, Known(q), Moved(q, n)
    PROVE  Known(n)
<1>1. CASE Sent(q, n)
    BY <1>1 DEF Sent, Known, TypeInv, GatewayTypeOK
<1>2. CASE Refused(q, n)
    BY <1>2 DEF Refused, Answered, SameRequest, Known
<1>3. CASE Issued(q, n)
    BY <1>3 DEF Issued, SameRequest, Known
<1>4. CASE Entered(q, n)
    BY <1>4, TablesAssumption DEF Entered, SameRequest, Known, TablesAssumption, ProofsHere
<1>5. CASE Logged(q, n)
    BY <1>5 DEF Logged, Answered, SameRequest, Known
<1>6. CASE Passed(q, n)
    BY <1>6 DEF Passed, SameRequest, Known
<1>7. CASE Denied(q, n)
    BY <1>7 DEF Denied, SameRequest, Known
<1>8. CASE Broken(q, n)
    BY <1>8 DEF Broken, SameRequest, Known
<1>9. CASE Freed(q, n)
    BY <1>9 DEF Freed, NoRequest, Known
<1> QED
    BY <1>1, <1>2, <1>3, <1>4, <1>5, <1>6, <1>7, <1>8, <1>9 DEF Moved

LEMMA BudgetNext ==
    ASSUME budget \in BudgetType, BudgetStep
    PROVE  budget' \in BudgetType /\ budget'.recent = budget.recent
<1>1. CASE budget' = budget
    BY <1>1
<1>2. ASSUME NEW part \in {"sends", "logins", "moves", "ticks", "faults", "windows"}, Spend(part)
      PROVE  budget' \in BudgetType /\ budget'.recent = budget.recent
    BY <1>2, Spent
<1> QED
    BY <1>1, <1>2 DEF BudgetStep

LEMMA HitsNext ==
    ASSUME TypeInv, HitsStep
    PROVE  hits' \in [Routes -> Seq(Users)]
<1>1. hits \in [Routes -> Seq(Users)]
    BY DEF TypeInv, GatewayTypeOK
<1>2. ASSUME NEW route \in Routes, hits' = [hits EXCEPT ![route] = << >>]
      PROVE  hits' \in [Routes -> Seq(Users)]
  <2>1. << >> \in Seq(Users)
      OBVIOUS
  <2> QED
      BY <1>1, <1>2, <2>1
<1>3. ASSUME NEW r \in Requests, req[r].pc = "sent",
             hits' = [hits EXCEPT ![req[r].route] = Append(@, req[r].user)]
      PROVE  hits' \in [Routes -> Seq(Users)]
  <2>1. PICK u \in Users, route \in Routes : u = req[r].user /\ route = req[r].route
      BY <1>3 DEF TypeInv, Known
  <2>2. Append(hits[route], u) \in Seq(Users)
      BY <1>1, <2>1
  <2> QED
      BY <1>1, <1>3, <2>1, <2>2
<1> QED
    BY <1>1, <1>2, <1>3 DEF HitsStep

LEMMA ProofsNext ==
    ASSUME TypeInv, UNCHANGED <<proofs, typed>> \/ Proving
    PROVE  proofs' \subseteq Proof /\ typed' \in [Users -> [Actions -> Int]]
<1>1. proofs \subseteq Proof /\ typed \in [Users -> [Actions -> Int]] /\ clock \in Int
      /\ clock + ProofLife \in Int
    BY Constants DEF TypeInv, GatewayTypeOK
<1>2. ASSUME NEW r \in Requests, NEW t \in req[r].token, NEW action \in Actions,
             proofs' = proofs \cup
               {[actor |-> t.user, action |-> action, expires |-> clock + ProofLife]},
             typed' = [typed EXCEPT ![t.user][action] = clock]
      PROVE  proofs' \subseteq Proof /\ typed' \in [Users -> [Actions -> Int]]
  <2>1. t.user \in Users
      BY DEF TypeInv, GatewayTypeOK, RequestType, Token
  <2>2. PICK u \in Users : u = t.user
      BY <2>1
  <2>3. [actor |-> u, action |-> action, expires |-> clock + ProofLife] \in Proof
      BY <1>1 DEF Proof
  <2>4. typed' = [typed EXCEPT ![u] = [typed[u] EXCEPT ![action] = clock]]
      BY <1>2, <2>2
  <2> QED
      BY <1>1, <1>2, <2>2, <2>3, <2>4
<1> QED
    BY <1>1, <1>2 DEF Proving

LEMMA LoginTypes ==
    ASSUME TypeInv, NEW u \in Users, Login(u)
    PROVE  /\ token' \in [Users -> SUBSET Token]
           /\ \A v \in Users : \A t \in token'[v] : t.user = v
           /\ UNCHANGED <<roles, clock, lost>>
<1> DEFINE t == [user |-> u, roles |-> roles[u], login |-> clock, expires |-> clock + Life]
<1>1. t \in Token
    BY Constants DEF TypeInv, GatewayTypeOK, Token
<1>2. token' = [token EXCEPT ![u] = {t}] /\ t.user = u
    BY DEF Login
<1> HIDE DEF t
<1> QED
    BY <1>1, <1>2 DEF TypeInv, GatewayTypeOK, Login

LEMMA ChangeTypes ==
    ASSUME TypeInv, NEW u \in Users, ChangeRoles(u)
    PROVE  /\ roles' \in [Users -> SUBSET RealmRoles]
           /\ lost' \in [Users -> [RealmRoles -> Int]]
           /\ UNCHANGED <<token, clock>>
<1>1. PICK rs \in budget.crews :
         /\ roles' = [roles EXCEPT ![u] = rs]
         /\ lost' = [lost EXCEPT ![u] = [role \in RealmRoles |->
              IF role \in Normalized(roles[u]) \ Normalized(rs) THEN clock ELSE lost[u][role]]]
    BY Zenon DEF ChangeRoles
<1>2. rs \in SUBSET RealmRoles /\ clock \in Int /\ roles \in [Users -> SUBSET RealmRoles]
      /\ lost \in [Users -> [RealmRoles -> Int]]
    BY DEF TypeInv, GatewayTypeOK, BudgetType
<1>3. [role \in RealmRoles |->
          IF role \in Normalized(roles[u]) \ Normalized(rs) THEN clock ELSE lost[u][role]]
        \in [RealmRoles -> Int]
    BY <1>2
<1> QED
    BY <1>1, <1>2, <1>3 DEF ChangeRoles

LEMMA WorldTypes ==
    ASSUME TypeInv, UNCHANGED <<roles, token, clock, lost>> \/ WorldStep
    PROVE  /\ roles' \in [Users -> SUBSET RealmRoles]
           /\ lost' \in [Users -> [RealmRoles -> Int]]
           /\ token' \in [Users -> SUBSET Token]
           /\ \A u \in Users : \A t \in token'[u] : t.user = u
           /\ clock' \in Nat /\ clock <= clock'
<1>1. /\ roles \in [Users -> SUBSET RealmRoles] /\ lost \in [Users -> [RealmRoles -> Int]]
      /\ token \in [Users -> SUBSET Token] /\ clock \in Nat
      /\ \A u \in Users : \A t \in token[u] : t.user = u
    BY DEF TypeInv, GatewayTypeOK
<1>2. CASE UNCHANGED <<roles, token, clock, lost>>
    BY <1>1, <1>2
<1>3. CASE \E u \in Users : Login(u)
    BY <1>1, <1>3, LoginTypes
<1>4. CASE \E u \in Users : ChangeRoles(u)
    BY <1>1, <1>4, ChangeTypes
<1>5. CASE Tick
    BY <1>1, <1>5 DEF Tick
<1> QED
    BY <1>2, <1>3, <1>4, <1>5 DEF WorldStep

LEMMA WorldKeepsRequests ==
    ASSUME World
    PROVE  req' = req
BY DEF World, Login, ChangeRoles, Tick, WindowEnds

LEMMA TypeInit ==
    ASSUME GatewayInit
    PROVE  TypeInv
<1>1. budget \in BudgetType
    BY GatewayAssumption DEF GatewayInit, GatewayAssumption
<1>2. roles \in [Users -> SUBSET RealmRoles]
    BY <1>1 DEF GatewayInit, BudgetType
<1>3. token \in [Users -> SUBSET Token] /\ \A u \in Users : \A t \in token[u] : t.user = u
    BY DEF GatewayInit
<1>4. req \in [Requests -> RequestType] /\ \A r \in Requests : req[r] = NoRequest
    BY NoRequestType DEF GatewayInit
<1>5. hits \in [Routes -> Seq(Users)]
  <2>1. << >> \in Seq(Users)
      OBVIOUS
  <2> QED
      BY <2>1 DEF GatewayInit
<1>6. lost \in [Users -> [RealmRoles -> Int]] /\ typed \in [Users -> [Actions -> Int]]
    BY Constants DEF GatewayInit
<1>7. proofs \subseteq Proof /\ clock \in Nat
    BY DEF GatewayInit
<1>8. Known(NoRequest)
    BY DEF Known, NoRequest
<1> QED
    BY <1>1, <1>2, <1>3, <1>4, <1>5, <1>6, <1>7, <1>8 DEF TypeInv, GatewayTypeOK, Known

LEMMA TypeNext ==
    ASSUME TypeInv, [GatewayNext]_gatewayVars
    PROVE  TypeInv'
<1>1. CASE UNCHANGED gatewayVars
    BY <1>1, Zenon DEF gatewayVars, TypeInv, GatewayTypeOK, Known
<1>2. CASE GatewayNext
  <2>1. budget' \in BudgetType
      BY <1>2, NextWorld, BudgetNext DEF TypeInv
  <2>2. hits' \in [Routes -> Seq(Users)]
      BY <1>2, NextWorld, HitsNext
  <2>3. proofs' \subseteq Proof /\ typed' \in [Users -> [Actions -> Int]]
      BY <1>2, NextWorld, ProofsNext
  <2>4. /\ roles' \in [Users -> SUBSET RealmRoles] /\ lost' \in [Users -> [RealmRoles -> Int]]
        /\ token' \in [Users -> SUBSET Token] /\ clock' \in Nat
        /\ \A u \in Users : \A t \in token'[u] : t.user = u
      BY <1>2, NextWorld, WorldTypes
  <2>5. req' \in [Requests -> RequestType] /\ \A r \in Requests : Known(req'[r])
    <3>1. CASE World
        BY <3>1, WorldKeepsRequests DEF TypeInv, GatewayTypeOK
    <3>2. ASSUME NEW r \in Requests, Moves(r)
          PROVE  req' \in [Requests -> RequestType] /\ \A s \in Requests : Known(req'[s])
      <4>1. PICK n \in RequestType : req' = [req EXCEPT ![r] = n] /\ Moved(req[r], n)
          BY <3>2 DEF Moves
      <4>2. PICK q \in RequestType : q = req[r]
          BY DEF TypeInv, GatewayTypeOK
      <4>3. Known(n)
          BY <4>1, <4>2, KnownNext DEF TypeInv
      <4>4. req' \in [Requests -> RequestType] /\ req'[r] = n
            /\ \A s \in Requests \ {r} : req'[s] = req[s]
          BY <4>1, MoveType DEF TypeInv, GatewayTypeOK
      <4> QED
          BY <4>3, <4>4 DEF TypeInv
    <3> QED
        BY <1>2, <3>1, <3>2, NextMoves
  <2>6. \A r \in Requests : (req'[r].pc = "answered") = (req'[r].answer # "none")
      BY <2>5 DEF Known
  <2> QED
      BY <2>1, <2>2, <2>3, <2>4, <2>5, <2>6 DEF TypeInv, GatewayTypeOK, Known
<1> QED
    BY <1>1, <1>2

(* Tokens, proofs and requests are well-formed, and an answer is there when   *)
(* and only when the request is over (ProxyService.forward, JwtStrategy).     *)
THEOREM GatewayTypes == GatewaySpec => []GatewayTypeOK
<1>1. GatewayInit => TypeInv
    BY TypeInit
<1>2. TypeInv /\ [GatewayNext]_gatewayVars => TypeInv'
    BY TypeNext
<1>3. TypeInv => GatewayTypeOK
    BY DEF TypeInv
<1> QED
    BY <1>1, <1>2, <1>3, PTL DEF GatewaySpec

-----------------------------------------------------------------------------
(* Time. *)

Aged(t) == t.login <= clock /\ t.expires = t.login + Life

(* A request in flight is young; no token and no phrase is from the future.   *)
Timed(q) ==
    q.pc # "idle" =>
      /\ q.start <= clock /\ \A t \in q.token : Aged(t)
      /\ q.pc \in {"sent", "audit", "hop"} => clock <= q.start + Latency

TimeInv ==
    /\ TypeInv
    /\ \A u \in Users : \A t \in token[u] : Aged(t)
    /\ \A u \in Users, action \in Actions : typed[u][action] <= clock
    /\ \A r \in Requests : Timed(req[r])

LEMMA TimeInit ==
    ASSUME GatewayInit
    PROVE  TimeInv
<1>1. TypeInv
    BY TypeInit
<1>2. \A u \in Users, action \in Actions : typed[u][action] <= clock
    BY Constants DEF GatewayInit
<1>3. \A r \in Requests : req[r].pc = "idle"
    BY DEF GatewayInit, NoRequest
<1> QED
    BY <1>1, <1>2, <1>3 DEF TimeInv, Timed, GatewayInit

LEMMA TimedNext ==
    ASSUME TimeInv, NEW q \in RequestType, NEW n \in RequestType, Timed(q), Known(q), Moved(q, n)
    PROVE  Timed(n)
<1>1. clock \in Nat /\ Latency \in Nat
    BY Constants DEF TimeInv, TypeInv, GatewayTypeOK
<1>2. CASE Sent(q, n)
  <2>1. n.start = clock /\ \A t \in n.token : Aged(t)
      BY <1>2 DEF Sent, TimeInv
  <2> QED
      BY <1>1, <2>1 DEF Timed
<1>3. CASE Refused(q, n) \/ Issued(q, n) \/ Entered(q, n) \/ Logged(q, n) \/ Passed(q, n)
           \/ Denied(q, n) \/ Broken(q, n)
  <2>1. n.start = q.start /\ n.token = q.token /\ q.pc \in {"sent", "audit", "hop"}
      BY <1>3 DEF Refused, Issued, Entered, Logged, Passed, Denied, Broken, Answered, SameRequest
  <2> QED
      BY <2>1 DEF Timed
<1>4. CASE Freed(q, n)
    BY <1>4 DEF Freed, NoRequest, Timed
<1> QED
    BY <1>2, <1>3, <1>4 DEF Moved

LEMMA TimeNext ==
    ASSUME TimeInv, [GatewayNext]_gatewayVars
    PROVE  TimeInv' /\ clock <= clock'
<1>1. TypeInv /\ TypeInv' /\ clock \in Nat /\ Latency \in Nat /\ Life \in Nat
      /\ typed \in [Users -> [Actions -> Int]] /\ req \in [Requests -> RequestType]
    BY TypeNext, Constants DEF TimeInv, TypeInv, GatewayTypeOK
<1>2. CASE UNCHANGED gatewayVars
    BY <1>1, <1>2 DEF gatewayVars, TimeInv, Timed, Aged
<1>3. CASE GatewayNext
  <2>1. clock' \in Nat /\ clock <= clock'
      BY <1>1, <1>3, NextWorld, WorldTypes
  <2>2. \A u \in Users : \A t \in token'[u] : t.login <= clock' /\ t.expires = t.login + Life
    <3>1. CASE token' = token
        BY <1>1, <2>1, <3>1 DEF TimeInv, Aged, TypeInv, GatewayTypeOK, Token
    <3>2. ASSUME NEW v \in Users, Login(v)
          PROVE  \A u \in Users : \A t \in token'[u] : t.login <= clock' /\ t.expires = t.login + Life
      <4>1. clock' = clock /\ token' = [token EXCEPT ![v] =
               {[user |-> v, roles |-> roles[v], login |-> clock, expires |-> clock + Life]}]
          BY <3>2 DEF Login
      <4> QED
          BY <1>1, <4>1 DEF TimeInv, Aged, TypeInv, GatewayTypeOK
    <3> QED
        BY <1>1, <1>3, <3>1, <3>2, NextWorld DEF WorldStep, ChangeRoles, Tick
  <2>3. \A u \in Users, action \in Actions : typed'[u][action] <= clock'
    <3>1. CASE typed' = typed
        BY <1>1, <2>1, <3>1 DEF TimeInv
    <3>2. CASE Proving
      <4>1. PICK r \in Requests : \E t \in req[r].token, action \in Actions :
              typed' = [typed EXCEPT ![t.user][action] = clock]
          BY <3>2 DEF Proving
      <4>2. PICK t \in req[r].token, action \in Actions :
              typed' = [typed EXCEPT ![t.user][action] = clock]
          BY <4>1
      <4>3. PICK v \in Users : v = t.user
          BY <1>1 DEF RequestType, Token
      <4>4. typed' = [typed EXCEPT ![v] = [typed[v] EXCEPT ![action] = clock]] /\ clock' = clock
          BY <3>2, <4>2, <4>3 DEF Proving
      <4> QED
          BY <1>1, <4>4 DEF TimeInv
    <3> QED
        BY <1>1, <1>3, <3>1, <3>2, NextWorld
  <2>4. ASSUME NEW s \in Requests, NEW q \in RequestType, q = req'[s], q.pc # "idle"
        PROVE  /\ q.start <= clock' /\ \A t \in q.token : t.login <= clock' /\ t.expires = t.login + Life
               /\ q.pc \in {"sent", "audit", "hop"} => clock' <= q.start + Latency
    <3>1. CASE World
      <4>1. q = req[s] /\ Timed(q)
          BY <2>4, <3>1, WorldKeepsRequests DEF TimeInv
      <4>2. clock' = clock \/ Tick
          BY <3>1 DEF World, Login, ChangeRoles, WindowEnds
      <4>3. CASE clock' = clock
          BY <2>4, <4>1, <4>3 DEF Timed, Aged
      <4>4. CASE Tick
        <5>1. clock' = clock + 1 /\ (q.pc \in {"sent", "audit", "hop"} => clock < q.start + Latency)
            BY <4>1, <4>4 DEF Tick, InFlight
        <5>2. q.start \in Int /\ \A t \in q.token : t.login \in Int
            BY DEF RequestType, Token
        <5> QED
            BY <1>1, <2>4, <4>1, <5>1, <5>2 DEF Timed, Aged
      <4> QED
          BY <4>2, <4>3, <4>4
    <3>2. ASSUME NEW r \in Requests, Moves(r) PROVE Timed(q) /\ clock' = clock
      <4>1. PICK n \in RequestType : req' = [req EXCEPT ![r] = n] /\ Moved(req[r], n)
          BY <3>2 DEF Moves
      <4>2. PICK p \in RequestType : p = req[r]
          BY <1>1
      <4>3. Timed(n)
          BY <4>1, <4>2, TimedNext DEF TimeInv, TypeInv
      <4>4. q = n \/ q = req[s]
          BY <1>1, <2>4, <4>1
      <4> QED
          BY <3>2, <4>3, <4>4 DEF TimeInv, Moves
    <3> QED
        BY <1>1, <1>3, <2>4, <3>1, <3>2, NextMoves DEF Timed, Aged
  <2>5. req' \in [Requests -> RequestType]
      BY <1>1 DEF TypeInv, GatewayTypeOK
  <2> QED
      BY <1>1, <2>1, <2>2, <2>3, <2>4, <2>5 DEF TimeInv, Timed, Aged
<1> QED
    BY <1>1, <1>2, <1>3

-----------------------------------------------------------------------------
(* The way through the services. *)

(* m steps of the way are over, the next ones are still to be done, but for   *)
(* operations that were done or may fail unnoticed.                           *)
Follows(path, m, todo, done) ==
    /\ Len(path) = m + Len(todo)
    /\ \A i \in 1 .. m : path[i] \subseteq done \cup Swallowed
    /\ \A j \in 1 .. Len(todo) :
         /\ todo[j] \subseteq path[m + j]
         /\ path[m + j] \subseteq todo[j] \cup done \cup Swallowed

OnItsWay(q) ==
    q.pc = "hop" \/ (q.pc = "audit" /\ q.route # ProofRoute) =>
      \E path \in PathsOf[q.route] : \E m \in Nat : Follows(path, m, q.todo, q.done)

Harmless(op) == op \in Swallowed \/ ServiceRoles[op] = NoCheck

(* A request that changed a record meets no further check.                    *)
Clean(q) ==
    q.pc \in {"audit", "hop"} =>
      q.done \cap Writes = {} \/ \A j \in 1 .. Len(q.todo) : \A op \in q.todo[j] : Harmless(op)

(* What AnswersTell says of one request.                                      *)
Told(q) ==
    /\ q.answer = "ok" =>
         \E path \in PathsOf[q.route] :
           \A i \in DOMAIN path : path[i] \subseteq q.done \cup Swallowed
    /\ q.answer \in {"throttled", "unauthorized", "forbidden"} => q.done \cap Writes = {}

WayInv == TypeInv /\ \A r \in Requests : OnItsWay(req[r]) /\ Clean(req[r]) /\ Told(req[r])

LEMMA PathType ==
    ASSUME NEW route \in Routes, NEW path \in PathsOf[route]
    PROVE  path \in Seq(SUBSET Ops)
BY GatewayAssumption DEF GatewayAssumption

(* One operation more, done or passed over.                                   *)
LEMMA FollowsOn ==
    ASSUME NEW path \in Seq(SUBSET Ops), NEW m \in Nat, NEW todo \in Seq(SUBSET Ops),
           todo # << >>, NEW op \in Head(todo), NEW done, NEW after,
           done \subseteq after, op \in after \cup Swallowed, Follows(path, m, todo, done)
    PROVE  \E k \in Nat : Follows(path, k, Rest(todo, op), after)
<1>1. PICK rest \in Seq(SUBSET Ops) : rest = Rest(todo, op)
    BY RestIs
<1>2. Len(todo) \in Nat \ {0} /\ Len(path) \in Nat /\ Len(rest) \in Nat /\ Head(todo) = todo[1]
    OBVIOUS
<1>3. CASE /\ Head(todo) = {op} /\ Len(rest) = Len(todo) - 1
           /\ \A i \in 1 .. Len(todo) - 1 : rest[i] = todo[i + 1]
  <2>1. Len(path) = (m + 1) + Len(rest) /\ m + 1 \in Nat
      BY <1>2, <1>3 DEF Follows
  <2>2. ASSUME NEW i \in 1 .. m + 1
        PROVE  path[i] \subseteq after \cup Swallowed
    <3>1. CASE i <= m
        BY <3>1 DEF Follows
    <3>2. CASE i = m + 1
      <4>1. path[m + 1] \subseteq todo[1] \cup done \cup Swallowed
          BY <1>2 DEF Follows
      <4> QED
          BY <1>2, <1>3, <3>2, <4>1
    <3> QED
        BY <3>1, <3>2
  <2>3. ASSUME NEW j \in 1 .. Len(rest)
        PROVE  /\ rest[j] \subseteq path[(m + 1) + j]
               /\ path[(m + 1) + j] \subseteq rest[j] \cup after \cup Swallowed
    <3>1. j + 1 \in 1 .. Len(todo) /\ rest[j] = todo[j + 1] /\ m + (j + 1) = (m + 1) + j
        BY <1>2, <1>3
    <3>2. /\ todo[j + 1] \subseteq path[m + (j + 1)]
          /\ path[m + (j + 1)] \subseteq todo[j + 1] \cup done \cup Swallowed
        BY <3>1 DEF Follows
    <3> QED
        BY <3>1, <3>2
  <2>4. Follows(path, m + 1, rest, after)
      BY <2>1, <2>2, <2>3 DEF Follows
  <2> QED
      BY <1>1, <2>1, <2>4
<1>4. CASE /\ Len(rest) = Len(todo) /\ rest[1] = todo[1] \ {op}
           /\ \A i \in 2 .. Len(todo) : rest[i] = todo[i]
  <2>1. Len(path) = m + Len(rest) /\ \A i \in 1 .. m : path[i] \subseteq after \cup Swallowed
      BY <1>4 DEF Follows
  <2>2. ASSUME NEW j \in 1 .. Len(rest)
        PROVE  /\ rest[j] \subseteq path[m + j]
               /\ path[m + j] \subseteq rest[j] \cup after \cup Swallowed
    <3>1. /\ todo[j] \subseteq path[m + j]
          /\ path[m + j] \subseteq todo[j] \cup done \cup Swallowed
        BY <1>4 DEF Follows
    <3>2. rest[j] \subseteq todo[j] /\ todo[j] \subseteq rest[j] \cup {op}
      <4>1. CASE j = 1
          BY <1>4, <4>1
      <4>2. CASE j # 1
        <5>1. j \in 2 .. Len(todo)
            BY <1>2, <1>4, <4>2
        <5> QED
            BY <1>4, <5>1
      <4> QED
          BY <4>1, <4>2
    <3> QED
        BY <3>1, <3>2
  <2>3. Follows(path, m, rest, after)
      BY <2>1, <2>2 DEF Follows
  <2> QED
      BY <1>1, <2>3
<1>5. \/ /\ Head(todo) = {op} /\ Len(rest) = Len(todo) - 1
         /\ \A i \in 1 .. Len(todo) - 1 : rest[i] = todo[i + 1]
      \/ /\ Len(rest) = Len(todo) /\ rest[1] = todo[1] \ {op}
         /\ \A i \in 2 .. Len(todo) : rest[i] = todo[i]
    BY <1>1, RestIs
<1> QED
    BY <1>3, <1>4, <1>5

(* After a write on the way, what is left is harmless.                        *)
LEMMA CleanOn ==
    ASSUME NEW route \in Routes, NEW path \in PathsOf[route], NEW m \in Nat,
           NEW todo \in Seq(SUBSET Ops), todo # << >>, NEW op \in Head(todo),
           NEW done, Follows(path, m, todo, done),
           op \in Writes \/ \A j \in 1 .. Len(todo) : \A next \in todo[j] : Harmless(next)
    PROVE  \A j \in 1 .. Len(Rest(todo, op)) : \A next \in Rest(todo, op)[j] : Harmless(next)
<1>1. PICK rest \in Seq(SUBSET Ops) : rest = Rest(todo, op)
    BY RestIs
<1>2. Len(todo) \in Nat \ {0} /\ Len(path) \in Nat /\ Len(rest) \in Nat /\ Head(todo) = todo[1]
      /\ path \in Seq(SUBSET Ops)
    BY PathType
<1> SUFFICES ASSUME NEW j \in 1 .. Len(rest), NEW next \in rest[j]
             PROVE  Harmless(next)
    BY <1>1
<1>3. PICK i \in 1 .. Len(todo) : next \in todo[i] /\ (i = 1 => next # op)
  <2>1. CASE /\ Head(todo) = {op} /\ Len(rest) = Len(todo) - 1
             /\ \A i \in 1 .. Len(todo) - 1 : rest[i] = todo[i + 1]
    <3>1. j + 1 \in 1 .. Len(todo) /\ j + 1 # 1 /\ rest[j] = todo[j + 1]
        BY <1>2, <2>1
    <3> QED
        BY <3>1
  <2>2. CASE /\ Len(rest) = Len(todo) /\ rest[1] = todo[1] \ {op}
             /\ \A i \in 2 .. Len(todo) : rest[i] = todo[i]
    <3>1. CASE j = 1
        BY <1>2, <2>2, <3>1
    <3>2. CASE j # 1
      <4>1. j \in 2 .. Len(todo)
          BY <1>2, <2>2, <3>2
      <4> QED
          BY <2>2, <4>1
    <3> QED
        BY <3>1, <3>2
  <2>3. \/ /\ Head(todo) = {op} /\ Len(rest) = Len(todo) - 1
           /\ \A i \in 1 .. Len(todo) - 1 : rest[i] = todo[i + 1]
        \/ /\ Len(rest) = Len(todo) /\ rest[1] = todo[1] \ {op}
           /\ \A i \in 2 .. Len(todo) : rest[i] = todo[i]
      BY <1>1, RestIs
  <2> QED
      BY <2>1, <2>2, <2>3
<1>4. CASE \A k \in 1 .. Len(todo) : \A other \in todo[k] : Harmless(other)
    BY <1>3, <1>4
<1>5. CASE op \in Writes
  <2>1. m + 1 \in 1 .. Len(path) /\ m + i \in 1 .. Len(path) /\ 1 \in 1 .. Len(todo)
      BY <1>2 DEF Follows
  <2>2. op \in path[m + 1] /\ next \in path[m + i]
      BY <1>2, <1>3, <2>1 DEF Follows
  <2>3. m + 1 < m + i \/ (m + 1 = m + i /\ next # op)
      BY <1>3
  <2>4. WritesLast
      BY TablesAssumption DEF TablesAssumption
  <2>5. DOMAIN path = 1 .. Len(path)
      BY <1>2
  <2>6. next \in Swallowed \/ ServiceRoles[next] = NoCheck
    <3>1. \A a, b \in DOMAIN path : \A w \in path[a] \cap Writes, c \in path[b] :
             a < b \/ (a = b /\ c # w) => c \in Swallowed \/ ServiceRoles[c] = NoCheck
        BY <2>4 DEF WritesLast
    <3> QED
        BY <1>5, <2>1, <2>2, <2>3, <2>5, <3>1
  <2> QED
      BY <2>6 DEF Harmless
<1> QED
    BY <1>4, <1>5

LEMMA EnteredOn ==
    ASSUME NEW q \in RequestType, NEW n \in RequestType, Known(q), Entered(q, n)
    PROVE  OnItsWay(n) /\ Clean(n) /\ Told(n)
<1>1. q.route \in Routes /\ n.route = q.route /\ n.todo \in PathsOf[q.route] /\ n.done = {}
      /\ q.answer = "none"
    BY DEF Known, Entered, SameRequest
<1>2. n.todo \in Seq(SUBSET Ops)
    BY DEF RequestType
<1>3. Follows(n.todo, 0, n.todo, n.done)
    BY <1>2 DEF Follows
<1>4. n.todo = << >> => \A i \in DOMAIN n.todo : n.todo[i] \subseteq n.done \cup Swallowed
    BY <1>2
<1>5. n.answer = IF n.todo = << >> THEN "ok" ELSE "none"
    BY <1>1 DEF Entered
<1> QED
    BY <1>1, <1>3, <1>4, <1>5 DEF OnItsWay, Clean, Told

LEMMA PassedOn ==
    ASSUME NEW q \in RequestType, NEW n \in RequestType, Known(q), OnItsWay(q), Clean(q),
           Passed(q, n)
    PROVE  OnItsWay(n) /\ Clean(n) /\ Told(n)
<1>1. q.pc = "hop" /\ q.route \in Routes /\ n.route = q.route /\ q.todo # << >>
    BY DEF Known, Passed, SameRequest
<1>2. q.todo \in Seq(SUBSET Ops) /\ n.todo \in Seq(SUBSET Ops)
    BY DEF RequestType
<1>3. PICK op \in Head(q.todo) :
         /\ n.todo = Rest(q.todo, op)
         /\ \/ n.done = q.done \cup {op}
            \/ n.done = q.done /\ op \in Swallowed
    BY DEF Passed
<1>4. PICK path \in PathsOf[q.route], m \in Nat : Follows(path, m, q.todo, q.done)
    BY <1>1 DEF OnItsWay
<1>5. path \in Seq(SUBSET Ops)
    BY <1>1, PathType
<1>6. PICK k \in Nat : Follows(path, k, n.todo, n.done)
  <2>1. q.done \subseteq n.done /\ op \in n.done \cup Swallowed
      BY <1>3
  <2>2. PICK todo \in Seq(SUBSET Ops) : todo = q.todo
      BY <1>2
  <2>3. todo # << >> /\ op \in Head(todo) /\ Follows(path, m, todo, q.done)
      BY <1>1, <1>4, <2>2
  <2>4. \E k \in Nat : Follows(path, k, Rest(todo, op), n.done)
      BY <1>5, <2>1, <2>3, FollowsOn
  <2> QED
      BY <1>3, <2>2, <2>4
<1>7. OnItsWay(n)
    BY <1>1, <1>6 DEF OnItsWay
<1>8. Clean(n)
  <2>1. CASE n.done \cap Writes = {}
      BY <2>1 DEF Clean
  <2>2. CASE n.done \cap Writes # {}
    <3>1. op \in Writes \/ \A j \in 1 .. Len(q.todo) : \A next \in q.todo[j] : Harmless(next)
        BY <1>1, <1>3, <2>2 DEF Clean
    <3>2. \A j \in 1 .. Len(Rest(q.todo, op)) : \A next \in Rest(q.todo, op)[j] : Harmless(next)
        BY <1>1, <1>2, <1>4, <3>1, CleanOn
    <3> QED
        BY <1>3, <3>2 DEF Clean
  <2> QED
      BY <2>1, <2>2
<1>9. Told(n)
  <2>1. CASE n.todo = << >>
    <3>1. \A i \in DOMAIN path : path[i] \subseteq n.done \cup Swallowed
        BY <1>5, <1>6, <2>1 DEF Follows
    <3>2. n.answer = "ok"
        BY <2>1 DEF Passed
    <3> QED
        BY <1>1, <3>1, <3>2 DEF Told
  <2>2. CASE n.todo # << >>
    <3>1. n.answer = "none"
        BY <2>2 DEF Passed
    <3> QED
        BY <3>1 DEF Told
  <2> QED
      BY <2>1, <2>2
<1> QED
    BY <1>7, <1>8, <1>9

LEMMA DeniedOn ==
    ASSUME NEW q \in RequestType, NEW n \in RequestType, Known(q), Clean(q), Denied(q, n)
    PROVE  OnItsWay(n) /\ Clean(n) /\ Told(n)
<1>1. q.pc = "hop" /\ n.pc = "answered" /\ n.done = q.done
      /\ q.todo # << >> /\ q.todo \in Seq(SUBSET Ops)
    BY DEF Known, Denied, RequestType
<1>2. PICK op \in Head(q.todo) \ Swallowed : \E t \in q.token : ~Serves(t, op)
    BY DEF Denied
<1>3. ServiceRoles[op] # NoCheck
    BY <1>2 DEF Serves
<1>4. op \in q.todo[1] /\ 1 \in 1 .. Len(q.todo)
    BY <1>1, <1>2
<1>5. q.done \cap Writes = {}
    BY <1>1, <1>2, <1>3, <1>4 DEF Clean, Harmless
<1>6. n.answer \in {"forbidden", "unauthorized"}
    BY DEF Denied
<1> QED
    BY <1>1, <1>5, <1>6 DEF OnItsWay, Clean, Told

LEMMA WayOn ==
    ASSUME NEW q \in RequestType, NEW n \in RequestType, Known(q), OnItsWay(q), Clean(q),
           Told(q), Moved(q, n)
    PROVE  OnItsWay(n) /\ Clean(n) /\ Told(n)
<1>1. CASE Sent(q, n)
    BY <1>1 DEF Sent, OnItsWay, Clean, Told
<1>2. CASE Refused(q, n)
  <2>1. n.pc = "answered" /\ n.done = {} /\ n.answer # "ok"
      BY <1>2 DEF Refused, Answered, Known
  <2> QED
      BY <2>1 DEF OnItsWay, Clean, Told
<1>3. CASE Issued(q, n)
  <2>1. n.pc = "audit" /\ n.route = ProofRoute /\ n.done = {} /\ n.answer = "none"
      BY <1>3 DEF Issued, SameRequest, Known
  <2> QED
      BY <2>1 DEF OnItsWay, Clean, Told
<1>4. CASE Entered(q, n)
    BY <1>4, EnteredOn
<1>5. CASE Logged(q, n)
  <2>1. CASE q.route = ProofRoute
    <3>1. n.pc = "answered" /\ n.answer = "ok" /\ n.route = ProofRoute
        BY <1>5, <2>1 DEF Logged, Answered, SameRequest
    <3>2. << >> \in PathsOf[ProofRoute]
        BY TablesAssumption DEF TablesAssumption, ProofsHere
    <3> QED
        BY <3>1, <3>2 DEF OnItsWay, Clean, Told
  <2>2. CASE q.route # ProofRoute
    <3>1. q.pc = "audit" /\ n.pc = "hop" /\ n.answer = "none" /\ n.route = q.route
          /\ n.todo = q.todo /\ n.done = q.done
        BY <1>5, <2>2 DEF Logged, SameRequest, Known
    <3> QED
        BY <2>2, <3>1 DEF OnItsWay, Clean, Told
  <2> QED
      BY <2>1, <2>2
<1>6. CASE Passed(q, n)
    BY <1>6, PassedOn
<1>7. CASE Denied(q, n)
    BY <1>7, DeniedOn
<1>8. CASE Broken(q, n)
  <2>1. n.pc = "answered" /\ n.answer = "error"
      BY <1>8 DEF Broken
  <2> QED
      BY <2>1 DEF OnItsWay, Clean, Told
<1>9. CASE Freed(q, n)
    BY <1>9 DEF Freed, NoRequest, OnItsWay, Clean, Told
<1> QED
    BY <1>1, <1>2, <1>3, <1>4, <1>5, <1>6, <1>7, <1>8, <1>9 DEF Moved

LEMMA WayInit ==
    ASSUME GatewayInit
    PROVE  WayInv
<1>1. TypeInv
    BY TypeInit
<1>2. OnItsWay(NoRequest) /\ Clean(NoRequest) /\ Told(NoRequest)
    BY DEF NoRequest, OnItsWay, Clean, Told
<1> QED
    BY <1>1, <1>2 DEF WayInv, GatewayInit

LEMMA WayNext ==
    ASSUME WayInv, [GatewayNext]_gatewayVars
    PROVE  WayInv'
<1>1. TypeInv /\ TypeInv' /\ req \in [Requests -> RequestType]
    BY TypeNext DEF WayInv, TypeInv, GatewayTypeOK
<1>2. CASE req' = req
    BY <1>1, <1>2 DEF WayInv
<1>3. ASSUME NEW r \in Requests, Moves(r)
      PROVE  \A s \in Requests : OnItsWay(req'[s]) /\ Clean(req'[s]) /\ Told(req'[s])
  <2>1. PICK n \in RequestType : req' = [req EXCEPT ![r] = n] /\ Moved(req[r], n)
      BY <1>3 DEF Moves
  <2>2. PICK q \in RequestType : q = req[r]
      BY <1>1
  <2>3. OnItsWay(n) /\ Clean(n) /\ Told(n)
      BY <1>1, <2>1, <2>2, WayOn DEF WayInv, TypeInv
  <2>4. req'[r] = n /\ \A s \in Requests \ {r} : req'[s] = req[s]
      BY <1>1, <2>1
  <2> QED
      BY <2>3, <2>4 DEF WayInv
<1>4. (\A s \in Requests : OnItsWay(req'[s]) /\ Clean(req'[s]) /\ Told(req'[s])) => WayInv'
    BY <1>1 DEF WayInv
<1> QED
    BY <1>1, <1>2, <1>3, <1>4, NextMoves, WorldKeepsRequests DEF gatewayVars

(* The answer tells what happened: after `ok` every operation of some way     *)
(* through the services was done but for those that may fail unnoticed; after *)
(* a refusal no record was changed (ProxyService.forward passes refusals on). *)
THEOREM ToldWhatHappened == GatewaySpec => []AnswersTell
<1>1. GatewayInit => WayInv
    BY WayInit
<1>2. WayInv /\ [GatewayNext]_gatewayVars => WayInv'
    BY WayNext
<1>3. WayInv => AnswersTell
    BY DEF WayInv, Told, AnswersTell
<1> QED
    BY <1>1, <1>2, <1>3, PTL DEF GatewaySpec

-----------------------------------------------------------------------------
(* What the gateway decided stands. *)

(* Who is on the way holds a role of the route and had a valid token.         *)
Admitted(q) ==
    q.pc \in {"audit", "hop"} =>
      \A t \in q.token : Holds(t, GateRoles[q.route]) /\ q.start <= t.expires + Tolerance

(* What GateDecides says of one request.                                      *)
Lapsed(q) ==
    q.late =>
      /\ q.pc = "answered" /\ q.answer = "unauthorized"
      /\ \A t \in q.token : q.start <= t.expires + Tolerance /\ ~Valid(t, clock)

(* An offered request has a role of its route, and a proof if it needs one.   *)
Backed(q) ==
    q.offered =>
      /\ \A t \in q.token : Holds(t, GateRoles[q.route])
      /\ q.route \in DOMAIN ActionFor =>
           \E p \in q.proof : p.actor = q.user /\ p.action = ActionFor[q.route]

(* What OfferedIsServed says of one request.                                  *)
TooLate(q) ==
    q.offered /\ q.answer = "forbidden" => \E p \in q.proof : p.expires <= clock

GateInv ==
    /\ TimeInv /\ WayInv
    /\ \A r \in Requests : /\ Admitted(req[r]) /\ Lapsed(req[r])
                           /\ Backed(req[r]) /\ TooLate(req[r])

(* Who holds a role of a route is served what it leads to.                    *)
LEMMA RolesSuffice ==
    ASSUME NEW q \in RequestType, q.pc = "hop", Known(q), OnItsWay(q), Admitted(q),
           NEW op \in Head(q.todo) \ Swallowed, NEW t \in q.token
    PROVE  ServiceRoles[op] = NoCheck \/ Holds(t, ServiceRoles[op])
<1>1. q.route \in Routes /\ q.todo # << >> /\ q.todo \in Seq(SUBSET Ops)
    BY DEF Known, RequestType
<1>2. PICK path \in PathsOf[q.route], m \in Nat : Follows(path, m, q.todo, q.done)
    BY DEF OnItsWay
<1>3. path \in Seq(SUBSET Ops)
    BY <1>1, PathType
<1>4. m + 1 \in 1 .. Len(path) /\ op \in path[m + 1]
    BY <1>1, <1>2, <1>3 DEF Follows
<1>5. \/ ServiceRoles[op] \in {AnyRole, NoCheck}
      \/ GateRoles[q.route] # AnyRole /\ GateRoles[q.route] \subseteq ServiceRoles[op]
  <2>1. RolesAgree
      BY TablesAssumption DEF TablesAssumption
  <2>2. m + 1 \in DOMAIN path
      BY <1>3, <1>4
  <2> QED
      BY <1>1, <1>2, <1>4, <2>1, <2>2 DEF RolesAgree
<1>6. Holds(t, GateRoles[q.route])
    BY DEF Admitted
<1> QED
    BY <1>5, <1>6 DEF Holds

LEMMA AdmittedOn ==
    ASSUME TimeInv, NEW q \in RequestType, NEW n \in RequestType, Known(q), Timed(q), OnItsWay(q),
           Admitted(q), Lapsed(q), Moved(q, n)
    PROVE  Admitted(n) /\ Lapsed(n)
<1>1. clock \in Nat /\ Tolerance \in Nat /\ q.start \in Int /\ \A t \in q.token : t.expires \in Int
    BY Constants DEF TimeInv, TypeInv, GatewayTypeOK, RequestType, Token
<1>2. CASE Sent(q, n)
    BY <1>2 DEF Sent, Admitted, Lapsed
<1>3. CASE Refused(q, n)
    BY <1>3 DEF Refused, Answered, Known, Admitted, Lapsed
<1>4. CASE Issued(q, n) \/ Entered(q, n)
  <2>1. /\ q.pc = "sent" /\ ~n.late
        /\ n.token = q.token /\ n.route = q.route /\ n.start = q.start /\ LetIn(q)
      BY <1>4 DEF Issued, Entered, SameRequest, Known
  <2>2. \A t \in q.token : Holds(t, GateRoles[q.route]) /\ Valid(t, clock)
      BY <2>1 DEF LetIn, Known
  <2>3. q.start <= clock
      BY <2>1 DEF Timed
  <2>4. \A t \in q.token : q.start <= t.expires + Tolerance
      BY <1>1, <2>2, <2>3 DEF Valid
  <2> QED
      BY <2>1, <2>2, <2>4 DEF Admitted, Lapsed
<1>5. CASE Logged(q, n) \/ Passed(q, n) \/ Broken(q, n)
  <2>1. /\ q.pc \in {"audit", "hop"} /\ n.late = q.late
        /\ n.token = q.token /\ n.route = q.route /\ n.start = q.start
      BY <1>5 DEF Logged, Passed, Broken, Answered, SameRequest
  <2> QED
      BY <2>1 DEF Admitted, Lapsed
<1>6. CASE Denied(q, n)
  <2>1. /\ q.pc = "hop" /\ n.pc = "answered"
        /\ n.token = q.token /\ n.route = q.route /\ n.start = q.start
      BY <1>6 DEF Denied, SameRequest
  <2>2. PICK op \in Head(q.todo) \ Swallowed, t \in q.token :
          ~Serves(t, op) /\ n.answer = IF Valid(t, clock) THEN "forbidden" ELSE "unauthorized"
      BY <1>6 DEF Denied
  <2>3. ServiceRoles[op] = NoCheck \/ Holds(t, ServiceRoles[op])
      BY <2>1, <2>2, RolesSuffice
  <2>4. ~Valid(t, clock) /\ n.answer = "unauthorized"
      BY <2>2, <2>3 DEF Serves
  <2>5. \A s \in q.token : s = t
      BY <2>1, <2>2 DEF Known
  <2> QED
      BY <2>1, <2>4, <2>5 DEF Admitted, Lapsed
<1>7. CASE Freed(q, n)
    BY <1>7 DEF Freed, NoRequest, Admitted, Lapsed
<1> QED
    BY <1>2, <1>3, <1>4, <1>5, <1>6, <1>7 DEF Moved

LEMMA BackedOn ==
    ASSUME TypeInv, NEW q \in RequestType, NEW n \in RequestType, Known(q), Lapsed(n),
           Backed(q), TooLate(q), Moved(q, n)
    PROVE  Backed(n) /\ TooLate(n)
<1>1. CASE Sent(q, n)
  <2>1. PICK t \in token[n.user] : n.token = {t} /\ n.offered = IsOffered(t, n.route, n.proof)
      BY <1>1 DEF Sent
  <2>2. n.route \in Routes /\ n.user \in Users /\ t.user = n.user /\ n.answer = "none"
      BY <1>1, <2>1 DEF Sent, TypeInv
  <2>3. ASSUME n.offered
        PROVE  /\ Holds(t, GateRoles[n.route])
               /\ n.route \in DOMAIN ActionFor =>
                    \E p \in n.proof : p.actor = n.user /\ p.action = ActionFor[n.route]
    <3>1. IsOffered(t, n.route, n.proof)
        BY <2>1, <2>3
    <3>2. PICK o \in Offered : n.route \in o.routes /\ Normalized(t.roles) \cap o.roles # {}
        BY <3>1 DEF IsOffered
    <3>3. GateRoles[n.route] = AnyRole \/ o.roles \subseteq GateRoles[n.route]
        BY <3>2, TablesAssumption DEF TablesAssumption, OffersAgree
    <3>4. Holds(t, GateRoles[n.route])
        BY <3>2, <3>3 DEF Holds
    <3> QED
        BY <2>2, <3>1, <3>4 DEF IsOffered
  <2> QED
      BY <2>1, <2>2, <2>3 DEF Backed, TooLate
<1>2. CASE Refused(q, n)
  <2>1. n.token = q.token /\ n.route = q.route /\ n.proof = q.proof /\ n.user = q.user
        /\ n.offered = q.offered
      BY <1>2 DEF Refused, Answered, SameRequest
  <2>2. Backed(n)
      BY <2>1 DEF Backed
  <2>3. ASSUME n.offered, n.answer = "forbidden"
        PROVE  \E p \in n.proof : p.expires <= clock
    <3>1. PICK t \in q.token : ~Holds(t, GateRoles[q.route]) \/ ~ProofAccepted(q)
        BY <1>2, <2>3 DEF Refused, Answered
    <3>2. ~ProofAccepted(q)
        BY <2>1, <2>3, <3>1 DEF Backed
    <3>3. PICK p \in q.proof : p.actor = q.user /\ p.action = ActionFor[q.route]
        BY <2>1, <2>3, <3>2 DEF Backed, ProofAccepted
    <3>4. ~(p.expires > clock)
        BY <3>2, <3>3 DEF ProofAccepted, Proves
    <3>5. p.expires \in Int /\ clock \in Int
        BY <3>3 DEF TypeInv, GatewayTypeOK, RequestType, Proof
    <3> QED
        BY <2>1, <3>3, <3>4, <3>5
  <2> QED
      BY <2>2, <2>3 DEF TooLate
<1>3. CASE Issued(q, n) \/ Entered(q, n) \/ Logged(q, n) \/ Passed(q, n) \/ Broken(q, n)
  <2>1. n.token = q.token /\ n.route = q.route /\ n.proof = q.proof /\ n.user = q.user
        /\ n.offered = q.offered
      BY <1>3 DEF Issued, Entered, Logged, Passed, Broken, Answered, SameRequest
  <2>2. n.answer # "forbidden"
      BY <1>3 DEF Issued, Entered, Logged, Passed, Broken, Answered, Known
  <2> QED
      BY <2>1, <2>2 DEF Backed, TooLate
<1>4. CASE Denied(q, n)
  <2>1. n.token = q.token /\ n.route = q.route /\ n.proof = q.proof /\ n.user = q.user
        /\ n.offered = q.offered /\ n.late
      BY <1>4 DEF Denied, SameRequest
  <2> QED
      BY <2>1 DEF Backed, TooLate, Lapsed
<1>5. CASE Freed(q, n)
    BY <1>5 DEF Freed, NoRequest, Backed, TooLate
<1> QED
    BY <1>1, <1>2, <1>3, <1>4, <1>5 DEF Moved

LEMMA GateInit ==
    ASSUME GatewayInit
    PROVE  GateInv
<1>1. \A r \in Requests : req[r] = NoRequest
    BY DEF GatewayInit
<1>2. Admitted(NoRequest) /\ Lapsed(NoRequest) /\ Backed(NoRequest) /\ TooLate(NoRequest)
    BY DEF NoRequest, Admitted, Lapsed, Backed, TooLate
<1> QED
    BY <1>1, <1>2, TimeInit, WayInit DEF GateInv

(* Time that passes leaves a token that has run out as it is.                 *)
LEMMA LapsedLater ==
    ASSUME TimeInv, NEW q \in RequestType, Lapsed(q), TooLate(q),
           NEW later \in Nat, clock <= later
    PROVE  /\ q.late =>
                /\ q.pc = "answered" /\ q.answer = "unauthorized"
                /\ \A t \in q.token : q.start <= t.expires + Tolerance /\ ~Valid(t, later)
           /\ q.offered /\ q.answer = "forbidden" => \E p \in q.proof : p.expires <= later
<1>1. clock \in Nat /\ Tolerance \in Nat /\ (\A t \in q.token : t.expires \in Int)
      /\ \A p \in q.proof : p.expires \in Int
    BY Constants DEF TimeInv, TypeInv, GatewayTypeOK, RequestType, Token, Proof
<1>2. \A t \in q.token : ~Valid(t, clock) => ~Valid(t, later)
    BY <1>1 DEF Valid
<1>3. \A p \in q.proof : p.expires <= clock => p.expires <= later
    BY <1>1
<1> QED
    BY <1>2, <1>3 DEF Lapsed, TooLate

LEMMA GateNext ==
    ASSUME GateInv, [GatewayNext]_gatewayVars
    PROVE  GateInv'
<1>1. /\ TimeInv /\ TimeInv' /\ WayInv' /\ clock <= clock' /\ clock' \in Nat
      /\ TypeInv /\ req \in [Requests -> RequestType] /\ req' \in [Requests -> RequestType]
    BY TimeNext, WayNext DEF GateInv, TimeInv, TypeInv, GatewayTypeOK
<1>2. ASSUME NEW s \in Requests, NEW q \in RequestType, q = req'[s]
      PROVE  Admitted(q) /\ Lapsed(q) /\ Backed(q) /\ TooLate(q)
  <2>1. CASE req' = req
      BY <1>2, <2>1 DEF GateInv
  <2>2. ASSUME NEW r \in Requests, Moves(r)
        PROVE  Admitted(q) /\ Lapsed(q) /\ Backed(q) /\ TooLate(q)
    <3>1. PICK n \in RequestType : req' = [req EXCEPT ![r] = n] /\ Moved(req[r], n)
        BY <2>2 DEF Moves
    <3>2. PICK p \in RequestType : p = req[r]
        BY <1>1
    <3>3. Known(p) /\ Timed(p) /\ OnItsWay(p) /\ Admitted(p) /\ Lapsed(p) /\ Backed(p) /\ TooLate(p)
        BY <3>2 DEF GateInv, TimeInv, TypeInv, WayInv
    <3>4. Admitted(n) /\ Lapsed(n)
        BY <1>1, <3>1, <3>2, <3>3, AdmittedOn
    <3>5. Backed(n) /\ TooLate(n)
        BY <1>1, <3>1, <3>2, <3>3, <3>4, BackedOn
    <3>6. q = n \/ q = req[s]
        BY <1>1, <1>2, <3>1
    <3> QED
        BY <3>4, <3>5, <3>6 DEF GateInv
  <2> QED
      BY <2>1, <2>2, NextMoves, WorldKeepsRequests, <1>1 DEF gatewayVars
<1>3. ASSUME NEW s \in Requests
      PROVE  (Admitted(req[s]) /\ Lapsed(req[s]) /\ Backed(req[s]) /\ TooLate(req[s]))'
  <2>1. PICK q \in RequestType : q = req'[s]
      BY <1>1
  <2>2. Admitted(q) /\ Lapsed(q) /\ Backed(q) /\ TooLate(q)
      BY <1>2, <2>1
  <2>3. PICK later \in Nat : later = clock'
      BY <1>1
  <2>4. /\ q.late =>
             /\ q.pc = "answered" /\ q.answer = "unauthorized"
             /\ \A t \in q.token : q.start <= t.expires + Tolerance /\ ~Valid(t, later)
        /\ q.offered /\ q.answer = "forbidden" => \E p \in q.proof : p.expires <= later
      BY <1>1, <2>2, <2>3, LapsedLater
  <2> QED
      BY <2>1, <2>2, <2>3, <2>4 DEF Admitted, Lapsed, Backed, TooLate, Valid
<1> QED
    BY <1>1, <1>3 DEF GateInv

(* Once the gateway let a request in, no service refuses it for its roles;    *)
(* one that is refused on the way has a token that ran out on the way         *)
(* (RolesGuard of the gateway and of the services).                           *)
THEOREM GatewayDecides == GatewaySpec => []GateDecides
<1>1. GatewayInit => GateInv
    BY GateInit
<1>2. GateInv /\ [GatewayNext]_gatewayVars => GateInv'
    BY GateNext
<1>3. GateInv => GateDecides
    BY DEF GateInv, Lapsed, GateDecides
<1> QED
    BY <1>1, <1>2, <1>3, PTL DEF GatewaySpec

(* What the web application offers a user is never refused for his roles, by  *)
(* the gateway or by any service behind it; only a proof may have run out     *)
(* (nav.ts and permissions.ts against the @Roles of the routes).              *)
THEOREM OffersServed == GatewaySpec => []OfferedIsServed
<1>1. GatewayInit => GateInv
    BY GateInit
<1>2. GateInv /\ [GatewayNext]_gatewayVars => GateInv'
    BY GateNext
<1>3. GateInv => OfferedIsServed
    BY DEF GateInv, TooLate, OfferedIsServed
<1> QED
    BY <1>1, <1>2, <1>3, PTL DEF GatewaySpec

-----------------------------------------------------------------------------
(* Sensitive actions. *)

LoggedSince(u, x) == \E s \in token[u] : x <= s.login

(* A proof expires ProofLife after its phrase, at the latest, and was issued  *)
(* at most MaxAge after a login where that is asked for.                      *)
Typed(p) ==
    /\ p.expires <= typed[p.actor][p.action] + ProofLife
    /\ budget.recent => LoggedSince(p.actor, p.expires - ProofLife - MaxAge)

(* Proofs and tokens that a request presents are or were those of the user.   *)
Presents(q) ==
    /\ q.proof \subseteq proofs
    /\ q.pc # "idle" => \A t \in q.token : LoggedSince(q.user, t.login)

(* A sensitive request on its way had a proof when it started.                *)
Confirmed(q) ==
    q.pc \in {"audit", "hop"} /\ q.route \in DOMAIN ActionFor =>
      /\ q.start < typed[q.user][ActionFor[q.route]] + ProofLife
      /\ budget.recent => LoggedSince(q.user, q.start + 1 - ProofLife - MaxAge)

ProofInv ==
    /\ TimeInv
    /\ \A p \in proofs : Typed(p)
    /\ \A r \in Requests : Presents(req[r]) /\ Confirmed(req[r])

LEMMA ProofInit ==
    ASSUME GatewayInit
    PROVE  ProofInv
<1>1. proofs = {} /\ \A r \in Requests : req[r] = NoRequest
    BY DEF GatewayInit
<1>2. Presents(NoRequest) /\ Confirmed(NoRequest)
    BY DEF NoRequest, Presents, Confirmed
<1> QED
    BY <1>1, <1>2, TimeInit DEF ProofInv

(* Phrases and logins only become newer.                                      *)
LEMMA OnlyNewer ==
    ASSUME TimeInv, GatewayNext
    PROVE  /\ \A u \in Users, action \in Actions : typed[u][action] <= typed'[u][action]
           /\ \A u \in Users, x \in Int :
                LoggedSince(u, x) => \E s \in token'[u] : x <= s.login
           /\ proofs \subseteq proofs' /\ budget'.recent = budget.recent
<1>1. TypeInv /\ clock \in Nat /\ typed \in [Users -> [Actions -> Int]]
      /\ token \in [Users -> SUBSET Token] /\ req \in [Requests -> RequestType]
    BY DEF TimeInv, TypeInv, GatewayTypeOK
<1>2. proofs \subseteq proofs' /\ budget'.recent = budget.recent
    BY <1>1, NextWorld, BudgetNext DEF Proving, TypeInv
<1>3. ASSUME NEW u \in Users, NEW action \in Actions
      PROVE  typed[u][action] <= typed'[u][action]
  <2>1. CASE typed' = typed
      BY <1>1, <2>1
  <2>2. CASE Proving
    <3>1. PICK r \in Requests : \E t \in req[r].token, a \in Actions :
            typed' = [typed EXCEPT ![t.user][a] = clock]
        BY <2>2 DEF Proving
    <3>2. PICK t \in req[r].token, a \in Actions : typed' = [typed EXCEPT ![t.user][a] = clock]
        BY <3>1
    <3>3. PICK v \in Users : v = t.user
        BY <1>1 DEF RequestType, Token
    <3>4. typed' = [typed EXCEPT ![v] = [typed[v] EXCEPT ![a] = clock]]
        BY <3>2, <3>3
    <3>5. typed[u][action] <= clock /\ typed[u][action] \in Int
        BY <1>1 DEF TimeInv
    <3> QED
        BY <1>1, <3>4, <3>5
  <2> QED
      BY <1>1, <2>1, <2>2, NextWorld
<1>4. ASSUME NEW u \in Users, NEW x \in Int, LoggedSince(u, x)
      PROVE  \E s \in token'[u] : x <= s.login
  <2>1. PICK s \in token[u] : x <= s.login
      BY <1>4 DEF LoggedSince
  <2>2. s.login <= clock /\ s.login \in Int
      BY <1>1, <2>1 DEF TimeInv, Aged, Token
  <2>3. CASE token' = token
      BY <2>1, <2>3
  <2>4. ASSUME NEW v \in Users, Login(v)
        PROVE  \E t \in token'[u] : x <= t.login
    <3>1. token' = [token EXCEPT ![v] =
             {[user |-> v, roles |-> roles[v], login |-> clock, expires |-> clock + Life]}]
        BY <2>4 DEF Login
    <3>2. CASE v = u
      <4>1. token'[u] =
              {[user |-> v, roles |-> roles[v], login |-> clock, expires |-> clock + Life]}
          BY <1>1, <3>1, <3>2
      <4>2. x <= clock
          BY <1>1, <2>1, <2>2
      <4> QED
          BY <4>1, <4>2
    <3>3. CASE v # u
        BY <1>1, <2>1, <3>1, <3>3
    <3> QED
        BY <3>2, <3>3
  <2> QED
      BY <1>1, <2>3, <2>4, NextWorld DEF WorldStep, ChangeRoles, Tick
<1> QED
    BY <1>2, <1>3, <1>4

LEMMA TypedNext ==
    ASSUME ProofInv, GatewayNext
    PROVE  \A p \in proofs' :
             /\ p.expires <= typed'[p.actor][p.action] + ProofLife
             /\ budget'.recent => \E s \in token'[p.actor] : p.expires - ProofLife - MaxAge <= s.login
<1>1. TimeInv /\ TypeInv /\ clock \in Nat /\ typed \in [Users -> [Actions -> Int]]
      /\ typed' \in [Users -> [Actions -> Int]]
      /\ proofs \subseteq Proof /\ ProofLife \in Nat /\ MaxAge \in Nat
      /\ req \in [Requests -> RequestType]
    BY NextWorld, ProofsNext, Constants DEF ProofInv, TimeInv, TypeInv, GatewayTypeOK
<1>2. ASSUME NEW p \in proofs
      PROVE  /\ p.expires <= typed'[p.actor][p.action] + ProofLife
             /\ budget'.recent => \E s \in token'[p.actor] : p.expires - ProofLife - MaxAge <= s.login
  <2>1. p.actor \in Users /\ p.action \in Actions /\ p.expires \in Int
        /\ p.expires - ProofLife - MaxAge \in Int
      BY <1>1 DEF Proof
  <2>2. typed[p.actor][p.action] <= typed'[p.actor][p.action]
        /\ typed[p.actor][p.action] \in Int /\ typed'[p.actor][p.action] \in Int
      BY <1>1, <2>1, OnlyNewer
  <2>3. p.expires <= typed[p.actor][p.action] + ProofLife
      BY DEF ProofInv, Typed
  <2>4. p.expires <= typed'[p.actor][p.action] + ProofLife
      BY <1>1, <2>1, <2>2, <2>3
  <2>5. budget'.recent => \E s \in token'[p.actor] : p.expires - ProofLife - MaxAge <= s.login
      BY <1>1, <2>1, OnlyNewer DEF ProofInv, Typed
  <2> QED
      BY <2>4, <2>5
<1>3. ASSUME NEW r \in Requests, NEW t \in req[r].token, NEW action \in Actions, RecentLogin(t),
             proofs' = proofs \cup
               {[actor |-> t.user, action |-> action, expires |-> clock + ProofLife]},
             typed' = [typed EXCEPT ![t.user][action] = clock],
             token' = token, budget' = budget
      PROVE  \A p \in proofs' \ proofs :
               /\ p.expires <= typed'[p.actor][p.action] + ProofLife
               /\ budget'.recent =>
                    \E s \in token'[p.actor] : p.expires - ProofLife - MaxAge <= s.login
  <2>1. PICK v \in Users : v = t.user
      BY <1>1 DEF RequestType, Token
  <2>2. typed'[v][action] = clock
      BY <1>1, <1>3, <2>1
  <2>3. t.login \in Int /\ LoggedSince(v, t.login)
    <3>1. t \in Token /\ req[r].pc # "idle" /\ req[r].user = v
        BY <1>1, <2>1 DEF RequestType, TypeInv, Known, NoRequest
    <3> QED
        BY <3>1 DEF ProofInv, Presents, Token
  <2>4. budget.recent => clock - MaxAge <= t.login
      BY <1>1, <1>3, <2>3 DEF RecentLogin
  <2>5. budget.recent => \E s \in token[v] : clock - MaxAge <= s.login
    <3>1. PICK s \in token[v] : t.login <= s.login
        BY <2>3 DEF LoggedSince
    <3>2. s.login \in Int
        BY <1>1, <3>1 DEF TypeInv, GatewayTypeOK, Token
    <3> QED
        BY <1>1, <2>3, <2>4, <3>1, <3>2
  <2>6. ASSUME NEW p \in proofs' \ proofs
        PROVE  p.actor = v /\ p.action = action /\ p.expires = clock + ProofLife
               /\ p.expires - ProofLife - MaxAge = clock - MaxAge
      BY <1>1, <1>3, <2>1, <2>6
  <2> QED
      BY <1>1, <1>3, <2>2, <2>5, <2>6
<1>4. CASE UNCHANGED <<proofs, typed>>
    BY <1>2, <1>4
<1>5. CASE Proving
  <2>1. PICK r \in Requests : \E t \in req[r].token, action \in Actions :
           /\ RecentLogin(t)
           /\ proofs' = proofs \cup
                {[actor |-> t.user, action |-> action, expires |-> clock + ProofLife]}
           /\ typed' = [typed EXCEPT ![t.user][action] = clock]
           /\ UNCHANGED <<roles, token, clock, lost, budget>>
      BY <1>5 DEF Proving
  <2> QED
      BY <1>2, <1>3, <2>1
<1> QED
    BY <1>1, <1>4, <1>5, NextWorld

LEMMA ConfirmedOn ==
    ASSUME ProofInv, NEW q \in RequestType, NEW n \in RequestType, Known(q), Timed(q),
           Presents(q), Confirmed(q), Moved(q, n)
    PROVE  Presents(n) /\ Confirmed(n)
<1>1. TypeInv /\ clock \in Nat /\ typed \in [Users -> [Actions -> Int]] /\ proofs \subseteq Proof
      /\ ProofLife \in Nat /\ MaxAge \in Nat /\ q.start \in Int
      /\ token \in [Users -> SUBSET Token]
    BY Constants DEF ProofInv, TimeInv, TypeInv, GatewayTypeOK, RequestType
<1>2. CASE Sent(q, n)
  <2>1. PICK t \in token[n.user] : n.token = {t}
      BY <1>2 DEF Sent
  <2>2. n.user \in Users /\ n.proof \subseteq proofs /\ n.pc = "sent"
      BY <1>2 DEF Sent
  <2>3. t.login \in Int
      BY <1>1, <2>1, <2>2 DEF Token
  <2>4. LoggedSince(n.user, t.login)
      BY <2>1, <2>3 DEF LoggedSince
  <2> QED
      BY <2>1, <2>2, <2>4 DEF Presents, Confirmed
<1>3. CASE Refused(q, n) \/ Denied(q, n) \/ Broken(q, n)
  <2>1. n.proof = q.proof /\ n.user = q.user /\ n.token = q.token /\ q.pc # "idle"
        /\ n.pc = "answered"
      BY <1>3 DEF Refused, Denied, Broken, Answered, SameRequest
  <2> QED
      BY <2>1 DEF Presents, Confirmed
<1>4. CASE Issued(q, n) \/ Entered(q, n)
  <2>1. n.proof = q.proof /\ n.user = q.user /\ n.token = q.token /\ n.route = q.route
        /\ n.start = q.start /\ q.pc = "sent" /\ LetIn(q)
      BY <1>4 DEF Issued, Entered, SameRequest
  <2>2. Presents(n)
      BY <2>1 DEF Presents
  <2>3. ASSUME n.route \in DOMAIN ActionFor
        PROVE  /\ n.start < typed[n.user][ActionFor[n.route]] + ProofLife
               /\ budget.recent => LoggedSince(n.user, n.start + 1 - ProofLife - MaxAge)
    <3>1. PICK p \in q.proof : p.actor = q.user /\ p.action = ActionFor[q.route] /\ p.expires > clock
        BY <2>1, <2>3 DEF LetIn, ProofAccepted, Proves
    <3>2. p \in proofs /\ p \in Proof
        BY <1>1, <3>1 DEF Presents
    <3>3. p.expires \in Int /\ p.actor \in Users /\ p.action \in Actions
        BY <3>2 DEF Proof
    <3>4. q.start <= clock
        BY <2>1 DEF Timed
    <3>5. p.expires <= typed[p.actor][p.action] + ProofLife
          /\ (budget.recent => LoggedSince(p.actor, p.expires - ProofLife - MaxAge))
        BY <3>2 DEF ProofInv, Typed
    <3>6. typed[p.actor][p.action] \in Int
        BY <1>1, <3>3
    <3>7. q.start < typed[q.user][ActionFor[q.route]] + ProofLife
        BY <1>1, <3>1, <3>3, <3>4, <3>5, <3>6
    <3>8. ASSUME budget.recent PROVE LoggedSince(q.user, q.start + 1 - ProofLife - MaxAge)
      <4>1. PICK s \in token[p.actor] : p.expires - ProofLife - MaxAge <= s.login
          BY <3>5, <3>8 DEF LoggedSince
      <4>2. s.login \in Int
          BY <1>1, <3>3, <4>1 DEF Token
      <4>3. q.start + 1 - ProofLife - MaxAge <= s.login
          BY <1>1, <3>1, <3>3, <3>4, <4>1, <4>2
      <4> QED
          BY <3>1, <4>1, <4>3 DEF LoggedSince
    <3> QED
        BY <2>1, <3>7, <3>8
  <2> QED
      BY <2>2, <2>3 DEF Confirmed
<1>5. CASE Logged(q, n) \/ Passed(q, n)
  <2>1. n.proof = q.proof /\ n.user = q.user /\ n.token = q.token /\ n.route = q.route
        /\ n.start = q.start /\ q.pc \in {"audit", "hop"}
      BY <1>5 DEF Logged, Passed, Answered, SameRequest
  <2> QED
      BY <2>1 DEF Presents, Confirmed
<1>6. CASE Freed(q, n)
    BY <1>6 DEF Freed, NoRequest, Presents, Confirmed
<1> QED
    BY <1>2, <1>3, <1>4, <1>5, <1>6 DEF Moved

(* What a request presents and what confirmed it is kept by any step.         *)
LEMMA ConfirmedKept ==
    ASSUME ProofInv, GatewayNext, NEW q \in RequestType, Known(q), Presents(q), Confirmed(q)
    PROVE  /\ q.proof \subseteq proofs'
           /\ q.pc # "idle" => \A t \in q.token : \E s \in token'[q.user] : t.login <= s.login
           /\ q.pc \in {"audit", "hop"} /\ q.route \in DOMAIN ActionFor =>
                /\ q.start < typed'[q.user][ActionFor[q.route]] + ProofLife
                /\ budget'.recent =>
                     \E s \in token'[q.user] : q.start + 1 - ProofLife - MaxAge <= s.login
<1>1. TimeInv /\ TypeInv /\ typed \in [Users -> [Actions -> Int]]
      /\ typed' \in [Users -> [Actions -> Int]] /\ ProofLife \in Nat /\ MaxAge \in Nat
    BY NextWorld, ProofsNext, Constants DEF ProofInv, TimeInv, TypeInv, GatewayTypeOK
<1>2. q.proof \subseteq proofs'
    BY <1>1, OnlyNewer DEF Presents
<1>3. ASSUME q.pc # "idle", NEW t \in q.token
      PROVE  \E s \in token'[q.user] : t.login <= s.login
  <2>1. q.user \in Users /\ t.login \in Int
      BY <1>3 DEF Known, RequestType, Token
  <2>2. LoggedSince(q.user, t.login)
      BY <1>3 DEF Presents
  <2> QED
      BY <1>1, <2>1, <2>2, OnlyNewer
<1>4. ASSUME q.pc \in {"audit", "hop"}, q.route \in DOMAIN ActionFor
      PROVE  /\ q.start < typed'[q.user][ActionFor[q.route]] + ProofLife
             /\ budget'.recent =>
                  \E s \in token'[q.user] : q.start + 1 - ProofLife - MaxAge <= s.login
  <2>1. PICK u \in Users, action \in Actions : u = q.user /\ action = ActionFor[q.route]
      BY <1>4 DEF Known, Actions
  <2>2. q.start < typed[u][action] + ProofLife
        /\ (budget.recent => LoggedSince(u, q.start + 1 - ProofLife - MaxAge))
      BY <1>4, <2>1 DEF Confirmed
  <2>3. typed[u][action] <= typed'[u][action] /\ typed[u][action] \in Int /\ typed'[u][action] \in Int
        /\ q.start \in Int /\ q.start + 1 - ProofLife - MaxAge \in Int
      BY <1>1, OnlyNewer DEF RequestType
  <2>4. q.start < typed'[u][action] + ProofLife
      BY <1>1, <2>2, <2>3
  <2>5. budget'.recent => \E s \in token'[u] : q.start + 1 - ProofLife - MaxAge <= s.login
      BY <1>1, <2>2, <2>3, OnlyNewer
  <2> QED
      BY <2>1, <2>4, <2>5
<1> QED
    BY <1>2, <1>3, <1>4

LEMMA ProofNext ==
    ASSUME ProofInv, [GatewayNext]_gatewayVars
    PROVE  ProofInv'
<1>1. TimeInv /\ TimeInv' /\ TypeInv /\ req \in [Requests -> RequestType]
      /\ req' \in [Requests -> RequestType]
    BY TimeNext DEF ProofInv, TimeInv, TypeInv, GatewayTypeOK
<1>2. CASE UNCHANGED gatewayVars
    BY <1>1, <1>2 DEF gatewayVars, ProofInv, Typed, Presents, Confirmed, LoggedSince
<1>3. CASE GatewayNext
  <2>1. \A p \in proofs' :
          /\ p.expires <= typed'[p.actor][p.action] + ProofLife
          /\ budget'.recent => \E s \in token'[p.actor] : p.expires - ProofLife - MaxAge <= s.login
      BY <1>3, TypedNext
  <2>2. ASSUME NEW s \in Requests, NEW q \in RequestType, q = req'[s]
        PROVE  Presents(q) /\ Confirmed(q) /\ Known(q)
    <3>1. Known(q)
        BY <1>1, <2>2 DEF TimeInv, TypeInv, Known
    <3>2. CASE World
        BY <2>2, <3>1, <3>2, WorldKeepsRequests DEF ProofInv
    <3>3. ASSUME NEW r \in Requests, Moves(r)
          PROVE  Presents(q) /\ Confirmed(q)
      <4>1. PICK n \in RequestType : req' = [req EXCEPT ![r] = n] /\ Moved(req[r], n)
          BY <3>3 DEF Moves
      <4>2. PICK p \in RequestType : p = req[r]
          BY <1>1
      <4>3. Known(p) /\ Timed(p) /\ Presents(p) /\ Confirmed(p)
          BY <1>1, <4>2 DEF ProofInv, TimeInv, TypeInv
      <4>4. Presents(n) /\ Confirmed(n)
          BY <4>1, <4>2, <4>3, ConfirmedOn
      <4>5. q = n \/ q = req[s]
          BY <1>1, <2>2, <4>1
      <4> QED
          BY <4>4, <4>5 DEF ProofInv
    <3> QED
        BY <1>1, <1>3, <3>1, <3>2, <3>3, NextMoves
  <2>3. ASSUME NEW s \in Requests
        PROVE  (Presents(req[s]) /\ Confirmed(req[s]))'
    <3>1. PICK q \in RequestType : q = req'[s]
        BY <1>1
    <3>2. Presents(q) /\ Confirmed(q) /\ Known(q)
        BY <2>2, <3>1
    <3>3. /\ q.proof \subseteq proofs'
          /\ q.pc # "idle" => \A t \in q.token : \E l \in token'[q.user] : t.login <= l.login
          /\ q.pc \in {"audit", "hop"} /\ q.route \in DOMAIN ActionFor =>
               /\ q.start < typed'[q.user][ActionFor[q.route]] + ProofLife
               /\ budget'.recent =>
                    \E l \in token'[q.user] : q.start + 1 - ProofLife - MaxAge <= l.login
        BY <1>3, <3>2, ConfirmedKept
    <3> QED
        BY <3>1, <3>3 DEF Presents, Confirmed, LoggedSince
  <2> QED
      BY <1>1, <2>1, <2>3 DEF ProofInv, Typed, LoggedSince
<1> QED
    BY <1>2, <1>3

(* Only an operation of a request on its way does something.                  *)
LEMMA RanOnTheWay ==
    ASSUME TypeInv, [GatewayNext]_gatewayVars, NEW r \in Requests, NEW op \in Ran(r)
    PROVE  /\ req[r].pc = "hop"
           /\ \E t \in req[r].token : Serves(t, op)
<1>1. req \in [Requests -> RequestType] /\ op \in req'[r].done /\ op \notin req[r].done
    BY DEF TypeInv, GatewayTypeOK, Ran
<1>2. req'[r] # req[r]
    BY <1>1
<1>3. PICK n \in RequestType : req'[r] = n /\ Moved(req[r], n)
  <2>1. PICK s \in Requests : Moves(s)
      BY <1>2, NextMoves, WorldKeepsRequests DEF gatewayVars
  <2>2. PICK n \in RequestType : req' = [req EXCEPT ![s] = n] /\ Moved(req[s], n)
      BY <2>1 DEF Moves
  <2>3. s = r
      BY <1>1, <1>2, <2>2
  <2> QED
      BY <1>1, <2>2, <2>3
<1>4. PICK q \in RequestType : q = req[r]
    BY <1>1
<1>5. op \in n.done /\ op \notin q.done /\ Moved(q, n)
    BY <1>1, <1>3, <1>4
<1>6. Passed(q, n) \/ Broken(q, n)
    BY <1>5 DEF Moved, Sent, Refused, Issued, Entered, Logged, Denied, Freed, Answered, NoRequest
<1>7. q.pc = "hop" /\ \E t \in q.token : Serves(t, op)
    BY <1>5, <1>6 DEF Passed, Broken
<1> QED
    BY <1>4, <1>7

(* A sensitive operation is done only if its user typed the phrase for it no  *)
(* longer ago than a proof lives and a request takes and, where that is asked *)
(* for, logged in recently before that (SensitiveActionProofService).         *)
THEOREM SensitiveStaysFresh == GatewaySpec => SensitiveFresh
<1>1. GatewayInit => ProofInv
    BY ProofInit
<1>2. ProofInv /\ [GatewayNext]_gatewayVars => ProofInv'
    BY ProofNext
<1>3. ASSUME ProofInv, [GatewayNext]_gatewayVars, NEW r \in Requests,
             req[r].route \in DOMAIN ActionFor, Ran(r) # {}
      PROVE  /\ clock - typed[req[r].user][ActionFor[req[r].route]] < ProofLife + Latency
             /\ budget.recent => \E t \in token[req[r].user] :
                  clock - t.login < MaxAge + ProofLife + Latency
  <2>1. PICK q \in RequestType : q = req[r]
      BY <1>3 DEF ProofInv, TimeInv, TypeInv, GatewayTypeOK
  <2>2. TypeInv /\ Known(q) /\ Timed(q) /\ Confirmed(q)
      BY <1>3, <2>1 DEF ProofInv, TimeInv, TypeInv
  <2>3. q.pc = "hop" /\ q.route \in DOMAIN ActionFor
      BY <1>3, <2>1, <2>2, RanOnTheWay
  <2>4. PICK u \in Users, action \in Actions : u = q.user /\ action = ActionFor[q.route]
      BY <2>2, <2>3 DEF Known, Actions
  <2>5. q.start < typed[u][action] + ProofLife /\ clock <= q.start + Latency
        /\ (budget.recent => LoggedSince(u, q.start + 1 - ProofLife - MaxAge))
      BY <2>2, <2>3, <2>4 DEF Confirmed, Timed
  <2>6. typed[u][action] \in Int /\ clock \in Int /\ q.start \in Int /\ ProofLife \in Nat
        /\ MaxAge \in Nat /\ Latency \in Nat /\ \A t \in token[u] : t.login \in Int
      BY <2>2, Constants DEF TypeInv, GatewayTypeOK, RequestType, Token
  <2>7. clock - typed[u][action] < ProofLife + Latency
      BY <2>5, <2>6
  <2>8. ASSUME budget.recent
        PROVE  \E t \in token[u] : clock - t.login < MaxAge + ProofLife + Latency
    <3>1. PICK s \in token[u] : q.start + 1 - ProofLife - MaxAge <= s.login
        BY <2>5, <2>8 DEF LoggedSince
    <3>2. clock - s.login < MaxAge + ProofLife + Latency
        BY <2>5, <2>6, <3>1
    <3> QED
        BY <3>2
  <2> QED
      BY <2>1, <2>4, <2>7, <2>8
<1>4. ProofInv /\ [GatewayNext]_gatewayVars =>
        [\A r \in Requests : req[r].route \in DOMAIN ActionFor /\ Ran(r) # {} =>
           /\ clock - typed[req[r].user][ActionFor[req[r].route]] < ProofLife + Latency
           /\ budget.recent => \E t \in token[req[r].user] :
                clock - t.login < MaxAge + ProofLife + Latency]_gatewayVars
    BY <1>3
<1> QED
    BY <1>1, <1>2, <1>4, PTL DEF GatewaySpec, SensitiveFresh

-----------------------------------------------------------------------------
(* Roles. *)

(* What a token says of its user's roles was true at the login, and a role    *)
(* that is gone since then was lost since then.                               *)
Remembers(t) ==
    \A role \in Normalized(t.roles) :
      role \in Normalized(roles[t.user]) \/ t.login <= lost[t.user][role]

RolesInv ==
    /\ TimeInv
    /\ \A u \in Users : \A t \in token[u] : Remembers(t)
    /\ \A r \in Requests : \A t \in req[r].token : Remembers(t)

LEMMA NormalizedType ==
    ASSUME NEW rs \in SUBSET RealmRoles
    PROVE  Normalized(rs) \subseteq RealmRoles
BY GatewayAssumption DEF GatewayAssumption, Normalized

LEMMA RolesInit ==
    ASSUME GatewayInit
    PROVE  RolesInv
<1>1. \A r \in Requests : req[r].token = {}
    BY DEF GatewayInit, NoRequest
<1> QED
    BY <1>1, TimeInit DEF RolesInv, GatewayInit

(* A token that remembers does so after any step.                             *)
LEMMA StillRemembers ==
    ASSUME TimeInv, GatewayNext, NEW t \in Token, Aged(t), Remembers(t)
    PROVE  \A role \in Normalized(t.roles) :
             role \in Normalized(roles'[t.user]) \/ t.login <= lost'[t.user][role]
<1>1. t.user \in Users /\ t.login <= clock /\ t.login \in Int /\ Normalized(t.roles) \subseteq RealmRoles
      /\ roles \in [Users -> SUBSET RealmRoles] /\ lost \in [Users -> [RealmRoles -> Int]]
    BY NormalizedType DEF Token, Aged, TimeInv, TypeInv, GatewayTypeOK
<1>2. CASE UNCHANGED <<roles, lost>>
    BY <1>2 DEF Remembers
<1>3. ASSUME NEW u \in Users, ChangeRoles(u), NEW role \in Normalized(t.roles)
      PROVE  role \in Normalized(roles'[t.user]) \/ t.login <= lost'[t.user][role]
  <2>1. PICK rs \in budget.crews :
         /\ roles' = [roles EXCEPT ![u] = rs]
         /\ lost' = [lost EXCEPT ![u] = [r \in RealmRoles |->
              IF r \in Normalized(roles[u]) \ Normalized(rs) THEN clock ELSE lost[u][r]]]
      BY <1>3, Zenon DEF ChangeRoles
  <2>2. role \in Normalized(roles[t.user]) \/ t.login <= lost[t.user][role]
      BY DEF Remembers
  <2>3. CASE t.user # u
    <3>1. roles'[t.user] = roles[t.user] /\ lost'[t.user] = lost[t.user]
        BY <1>1, <2>1, <2>3
    <3> QED
        BY <2>2, <3>1
  <2>4. CASE t.user = u
    <3>1. roles'[u] = rs /\ role \in RealmRoles
          /\ lost'[u][role] = IF role \in Normalized(roles[u]) \ Normalized(rs) THEN clock
                              ELSE lost[u][role]
        BY <1>1, <2>1
    <3> QED
        BY <1>1, <2>2, <2>4, <3>1
  <2> QED
      BY <2>3, <2>4
<1>4. CASE WorldStep
    BY <1>2, <1>3, <1>4 DEF WorldStep, Login, Tick
<1> QED
    BY <1>2, <1>4, NextWorld DEF TimeInv

LEMMA RolesNext ==
    ASSUME RolesInv, [GatewayNext]_gatewayVars
    PROVE  RolesInv'
<1>1. TimeInv /\ TimeInv' /\ TypeInv /\ req \in [Requests -> RequestType]
      /\ token \in [Users -> SUBSET Token] /\ roles \in [Users -> SUBSET RealmRoles]
    BY TimeNext DEF RolesInv, TimeInv, TypeInv, GatewayTypeOK
<1>2. CASE UNCHANGED gatewayVars
    BY <1>1, <1>2 DEF gatewayVars, RolesInv, Remembers
<1>3. CASE GatewayNext
  <2>1. ASSUME NEW t \in Token, Aged(t), Remembers(t)
        PROVE  Remembers(t)'
      BY <1>1, <1>3, <2>1, StillRemembers DEF Remembers
  <2>2. \A u \in Users : \A t \in token[u] : Aged(t) /\ t \in Token
      BY <1>1 DEF TimeInv
  <2>3. ASSUME NEW r \in Requests, NEW t \in req[r].token
        PROVE  t \in Token /\ Aged(t) /\ Remembers(t)
    <3>1. req[r].pc # "idle" /\ t \in Token
        BY <1>1 DEF TypeInv, Known, NoRequest, RequestType
    <3> QED
        BY <3>1 DEF RolesInv, TimeInv, Timed
  <2>4. ASSUME NEW u \in Users, NEW t \in token'[u]
        PROVE  Remembers(t)'
    <3>1. CASE t \in token[u]
        BY <2>1, <2>2, <3>1 DEF RolesInv
    <3>2. CASE t \notin token[u]
      <4>1. PICK v \in Users : Login(v)
          BY <1>1, <1>3, <3>2, NextWorld DEF WorldStep, ChangeRoles, Tick
      <4>2. UNCHANGED <<roles, lost>> /\ token' = [token EXCEPT ![v] =
               {[user |-> v, roles |-> roles[v], login |-> clock, expires |-> clock + Life]}]
          BY <4>1 DEF Login
      <4>3. t.user = v /\ t.roles = roles[v]
          BY <1>1, <3>2, <4>2
      <4> QED
          BY <4>2, <4>3 DEF Remembers
    <3> QED
        BY <3>1, <3>2
  <2>5. ASSUME NEW s \in Requests, NEW t \in req'[s].token
        PROVE  Remembers(t)'
    <3>1. CASE World
        BY <2>1, <2>3, <2>5, <3>1, WorldKeepsRequests
    <3>2. ASSUME NEW r \in Requests, Moves(r) PROVE Remembers(t)'
      <4>1. PICK n \in RequestType : req' = [req EXCEPT ![r] = n] /\ Moved(req[r], n)
          BY <3>2 DEF Moves
      <4>2. n.token \subseteq req[r].token \/ \E u \in Users : \E l \in token[u] : n.token = {l}
          BY <4>1 DEF Moved, Sent, Refused, Issued, Entered, Logged, Passed, Denied, Broken, Freed,
                      Answered, SameRequest, NoRequest
      <4>3. t \in n.token \/ t \in req[s].token
          BY <1>1, <2>5, <4>1
      <4>4. Remembers(t) /\ Aged(t) /\ t \in Token
          BY <2>2, <2>3, <4>2, <4>3 DEF RolesInv
      <4> QED
          BY <2>1, <4>4
    <3> QED
        BY <1>1, <1>3, <3>1, <3>2, NextMoves
  <2> QED
      BY <1>1, <2>4, <2>5 DEF RolesInv
<1> QED
    BY <1>2, <1>3

(* An operation that asks for roles is done only for a user who held one of   *)
(* them no longer ago than a token lives: roles taken away stay in force for  *)
(* that long, and not longer (JwtStrategy.validate, RolesGuard).              *)
THEOREM RolesRunOut == GatewaySpec => RolesNotOlder
<1>1. GatewayInit => RolesInv
    BY RolesInit
<1>2. RolesInv /\ [GatewayNext]_gatewayVars => RolesInv'
    BY RolesNext
<1>3. ASSUME RolesInv, [GatewayNext]_gatewayVars, NEW r \in Requests, NEW op \in Ran(r)
      PROVE  \/ ServiceRoles[op] \in {AnyRole, NoCheck}
             \/ \E role \in ServiceRoles[op] \cap RealmRoles :
                  clock - HeldUntil(req[r].user, role) <= Life + Tolerance
  <2>1. PICK q \in RequestType : q = req[r]
      BY <1>3 DEF RolesInv, TimeInv, TypeInv, GatewayTypeOK
  <2>2. TypeInv /\ Known(q) /\ Timed(q)
      BY <1>3, <2>1 DEF RolesInv, TimeInv, TypeInv
  <2>3. PICK t \in q.token : Serves(t, op)
      BY <1>3, <2>1, <2>2, RanOnTheWay
  <2>4. q.pc = "hop" /\ t \in Token /\ t.user = q.user /\ q.user \in Users
      BY <1>3, <2>1, <2>2, <2>3, RanOnTheWay DEF Known
  <2>5. t.login <= clock /\ t.expires = t.login + Life
      BY <2>2, <2>3, <2>4 DEF Timed, Aged
  <2>6. SUFFICES ASSUME ServiceRoles[op] \notin {AnyRole, NoCheck}
                 PROVE  \E role \in ServiceRoles[op] \cap RealmRoles :
                          clock - HeldUntil(q.user, role) <= Life + Tolerance
      BY <2>1
  <2>7. Valid(t, clock) /\ Normalized(t.roles) \cap ServiceRoles[op] # {}
      BY <2>3, <2>6 DEF Serves, Holds
  <2>8. PICK role \in Normalized(t.roles) \cap ServiceRoles[op] : role \in RealmRoles
      BY <2>4, <2>7, NormalizedType DEF Token
  <2>9. role \in Normalized(roles[q.user]) \/ t.login <= lost[q.user][role]
      BY <1>3, <2>1, <2>3, <2>4, <2>8 DEF RolesInv, Remembers
  <2>10. /\ clock \in Int /\ Life \in Nat /\ Tolerance \in Nat /\ t.login \in Int
         /\ lost[q.user][role] \in Int
      BY <2>2, <2>4, <2>8, Constants DEF TypeInv, GatewayTypeOK, Token
  <2>11. clock <= t.login + Life + Tolerance
      BY <2>5, <2>7, <2>10 DEF Valid
  <2>12. clock - HeldUntil(q.user, role) <= Life + Tolerance
      BY <2>9, <2>10, <2>11 DEF HeldUntil
  <2> QED
      BY <2>8, <2>12
<1>4. RolesInv /\ [GatewayNext]_gatewayVars =>
        [\A r \in Requests : \A op \in Ran(r) :
           ServiceRoles[op] \in {AnyRole, NoCheck}
           \/ \E role \in ServiceRoles[op] \cap RealmRoles :
                clock - HeldUntil(req[r].user, role) <= Life + Tolerance]_gatewayVars
    BY <1>3
<1> QED
    BY <1>1, <1>2, <1>4, PTL DEF GatewaySpec, RolesNotOlder
=============================================================================
