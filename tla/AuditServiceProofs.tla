-------------------------- MODULE AuditServiceProofs --------------------------
(***************************************************************************)
(* Proofs about audit-service and the pages that read its log.             *)
(*                                                                         *)
(* First AuditChain, for any number of requests, instances, attempts,      *)
(* events, epochs, faults and damages.                                     *)
(*                                                                         *)
(*   types      TypeInv      types; an append holds a payload              *)
(*   lines      LineInv      the chain of a trusted epoch is one line      *)
(*   queue      FIFOInv      what waits in chainLock, and in which order   *)
(*   payloads   IdentityInv  what is in flight is stored nowhere yet       *)
(*   order      FIFOChainInv stored events come before what still waits    *)
(*   verifying  VerifyInv    nothing is stored twice behind one event     *)
(*   retries    RetryInv     what an append has seen of its chain          *)
(*   seals      SealInv      what an interrupted seal has left behind      *)
(*   refinement CallsInv     AuditChain implements AuditLog                *)
(*                                                                         *)
(* Each invariant contains the ones it needs; a step is reduced to a few   *)
(* shapes (QueueShapes, StoreShapes, TryShapes) before it is looked at.    *)
(*                                                                         *)
(* Then SecurityCenter, for any number of officers, requests, actors,      *)
(* documents and events, any log to start from and any limits of the       *)
(* lists: what is read out of a log (Orders to RecommendationsFacts), what *)
(* is made of it (RowsFacts to ShownFacts), SecurityInvariant with one     *)
(* lemma per action, and the properties of the pages.                      *)
(***************************************************************************)
EXTENDS AuditChain, SecurityCenter, SequenceTheorems, FiniteSetTheorems, WellFoundedInduction,
        TLAPS

(***************************************************************************)
(* TypeOK is not inductive: a request about to insert must hold a payload, *)
(* which is so because only appends get that far.                          *)
(***************************************************************************)
AppendsHoldBody ==
    \A p \in Procs :
        /\ proc[p].pc \in {"queued", "tail", "insert"} => proc[p].op = "append"
        /\ proc[p].pc # "idle" /\ proc[p].op = "append" => proc[p].body \in Body

TypeInv == TypeOK /\ AppendsHoldBody

-----------------------------------------------------------------------------
(* Sequences *)

LEMMA AppendPrefix ==
    ASSUME NEW S, NEW s \in Seq(S), NEW x \in S, NEW k \in 0 .. Len(s)
    PROVE  SubSeq(Append(s, x), 1, k) = SubSeq(s, 1, k)
OBVIOUS

LEMMA WholePrefix ==
    ASSUME NEW S, NEW s \in Seq(S)
    PROVE  SubSeq(s, 1, Len(s)) = s
OBVIOUS

LEMMA PrefixOfPrefix ==
    ASSUME NEW S, NEW s \in Seq(S), NEW m \in 0 .. Len(s), NEW k \in 0 .. m
    PROVE  SubSeq(SubSeq(s, 1, m), 1, k) = SubSeq(s, 1, k)
OBVIOUS

LEMMA AppendLen ==
    ASSUME NEW S, NEW s \in Seq(S), NEW x \in S
    PROVE  /\ Append(s, x) \in Seq(S)
           /\ Len(Append(s, x)) = Len(s) + 1
           /\ Len(s) \in Nat
OBVIOUS
-----------------------------------------------------------------------------
(* Type correctness *)

LEMMA IdleType == idle \in ProcType
<1>1. <<>> \in Hash
  BY DEF Hash
<1>2. 0 \in 0 .. MaxAttempts - 1 /\ 0 \in EpochIds
  BY ConstantsAssumption DEF EpochIds
<1> QED
  BY <1>1, <1>2 DEF idle, ProcType, Pcs

LEMMA ReleasedType ==
    ASSUME TypeInv, NEW p \in Procs
    PROVE  Released(p) \in [Instances -> Seq(Procs)]
BY ConstantsAssumption DEF TypeInv, TypeOK, Released, AtHead

LEMMA FinishType ==
    ASSUME TypeInv, NEW p \in Procs, Finish(p)
    PROVE  /\ proc' \in [Procs -> ProcType]
           /\ queue' \in [Instances -> Seq(Procs)]
           /\ AppendsHoldBody'
<1>1. queue' \in [Instances -> Seq(Procs)]
  BY ReleasedType DEF Finish
<1>2. proc' \in [Procs -> ProcType]
  BY IdleType DEF Finish, TypeInv, TypeOK
<1>3. AppendsHoldBody'
  BY DEF Finish, TypeInv, AppendsHoldBody, idle, TypeOK
<1> QED
  BY <1>1, <1>2, <1>3

(* Only the place of a request in its handler changes. *)
LEMMA GotoType ==
    ASSUME TypeInv, NEW p \in Procs, NEW pc \in Pcs, Goto(p, pc)
    PROVE  proc' \in [Procs -> ProcType]
<1>1. [proc[p] EXCEPT !.pc = pc] \in ProcType
  <2>1. proc[p] \in ProcType
    BY DEF TypeInv, TypeOK
  <2> QED
    BY <2>1 DEF ProcType
<1>2. proc' = [proc EXCEPT ![p] = [proc[p] EXCEPT !.pc = pc]]
  BY DEF Goto, TypeInv, TypeOK
<1> QED
  BY <1>1, <1>2 DEF TypeInv, TypeOK

(* Joining chainLock with a new event. *)
LEMMA EnqueueType ==
    ASSUME TypeInv, NEW p \in Procs, NEW e \in EpochIds,
           calls' = calls + 1,
           proc' = [proc EXCEPT ![p] =
                [idle EXCEPT !.pc = "queued",
                             !.body = [n |-> calls + 1, by |-> p, starts |-> e]]],
           queue' = [queue EXCEPT ![InstanceOf[p]] = Append(@, p)]
    PROVE  /\ proc' \in [Procs -> ProcType]
           /\ queue' \in [Instances -> Seq(Procs)]
           /\ calls' \in Nat
           /\ AppendsHoldBody'
<1> DEFINE b == [n |-> calls + 1, by |-> p, starts |-> e]
           r == [idle EXCEPT !.pc = "queued", !.body = b]
<1>1. b \in Body
  BY DEF Body, TypeInv, TypeOK
<1>2. r \in ProcType /\ r.pc = "queued" /\ r.op = "append" /\ r.body = b
  BY <1>1, IdleType DEF ProcType, Pcs, idle
<1> HIDE DEF b, r
<1>3. proc' = [proc EXCEPT ![p] = r]
  BY DEF b, r
<1>4. proc' \in [Procs -> ProcType]
  BY <1>2, <1>3 DEF TypeInv, TypeOK
<1>5. AppendsHoldBody'
  BY <1>1, <1>2, <1>3 DEF TypeInv, TypeOK, AppendsHoldBody
<1>6. queue' \in [Instances -> Seq(Procs)]
  <2>1. InstanceOf[p] \in Instances /\ queue \in [Instances -> Seq(Procs)]
    BY ConstantsAssumption DEF TypeInv, TypeOK
  <2>2. Append(queue[InstanceOf[p]], p) \in Seq(Procs)
    BY <2>1
  <2> QED
    BY <2>1, <2>2
<1> QED
  BY <1>4, <1>5, <1>6 DEF TypeInv, TypeOK

LEMMA TypeInit == Init => TypeInv
<1> SUFFICES ASSUME Init PROVE TypeInv
  OBVIOUS
<1>1. proc \in [Procs -> ProcType]
  BY IdleType DEF Init
<1>2. epochs \in [EpochIds -> EpochType]
  BY ConstantsAssumption DEF Init, NoEpoch, EpochIds, EpochType
<1>3. AppendsHoldBody
  BY DEF Init, AppendsHoldBody, idle
<1> QED
  BY <1>1, <1>2, <1>3, ConstantsAssumption DEF Init, TypeInv, TypeOK, EpochIds

(* Every action keeps the types. *)
LEMMA TypeStep == TypeInv /\ [Next]_vars => TypeInv'
<1> SUFFICES ASSUME TypeInv, [Next]_vars PROVE TypeInv'
  OBVIOUS
<1> USE DEF TypeInv
<1>1. ASSUME NEW p \in Procs, Create(p) PROVE TypeInv'
  <2>1. 0 \in EpochIds
    BY ConstantsAssumption DEF EpochIds
  <2>2. /\ proc' \in [Procs -> ProcType]
        /\ queue' \in [Instances -> Seq(Procs)]
        /\ calls' \in Nat
        /\ AppendsHoldBody'
    BY <1>1, <2>1, EnqueueType DEF Create
  <2> QED
    BY <1>1, <2>2 DEF Create, TypeOK
<1>2. ASSUME NEW p \in Procs, Seal(p) PROVE TypeInv'
  <2> DEFINE r == [idle EXCEPT !.pc = "seal", !.op = "seal", !.seal = seals + 1]
  <2>1. seals + 1 \in EpochIds /\ seals + 1 \in 0 .. MaxEpochs
    BY <1>2, ConstantsAssumption DEF Seal, TypeOK, EpochIds
  <2>2. r \in ProcType /\ r.pc = "seal" /\ r.op = "seal"
    BY <2>1, IdleType DEF ProcType, Pcs, idle
  <2> HIDE DEF r
  <2>3. proc' = [proc EXCEPT ![p] = r]
    BY <1>2 DEF Seal, r
  <2>4. proc' \in [Procs -> ProcType] /\ AppendsHoldBody'
    BY <2>2, <2>3 DEF TypeOK, AppendsHoldBody
  <2> QED
    BY <1>2, <2>1, <2>4 DEF Seal, TypeOK
<1>3. ASSUME NEW p \in Procs, NEW e \in EpochIds, EpochFound(p, e),
             proc[p].pc \in {"seal", "queued", "mkepoch", "refetch"}
      PROVE  proc' \in [Procs -> ProcType] /\ AppendsHoldBody'
  <2> DEFINE r == [proc[p] EXCEPT !.epoch = e,
                    !.pc = IF proc[p].op = "seal" THEN "verify" ELSE "tail"]
  <2>1. proc[p] \in ProcType
    BY DEF TypeOK
  <2>2. /\ r \in ProcType
        /\ r.op = proc[p].op /\ r.body = proc[p].body
        /\ r.op = "append" => r.pc = "tail"
        /\ r.op = "seal" => r.pc = "verify"
    BY <2>1 DEF ProcType, Pcs
  <2>3. proc' = [proc EXCEPT ![p] = r]
    BY <1>3 DEF EpochFound, TypeOK
  <2> HIDE DEF r
  <2>4. proc' \in [Procs -> ProcType]
    BY <2>2, <2>3 DEF TypeOK
  <2>5. r.op \in {"append", "seal"} /\ (r.op = "append" => r.body \in Body)
    BY <1>3, <2>1, <2>2 DEF ProcType, AppendsHoldBody
  <2>6. AppendsHoldBody'
    BY <2>2, <2>3, <2>5 DEF TypeOK, AppendsHoldBody
  <2> QED
    BY <2>4, <2>6
<1>4. ASSUME NEW p \in Procs, FindActiveEpoch(p) PROVE TypeInv'
  <2>1. proc[p].pc \in {"seal", "queued"}
    BY <1>4 DEF FindActiveEpoch
  <2>2. CASE \E e \in EpochIds : EpochFound(p, e)
    <3>1. proc' \in [Procs -> ProcType] /\ AppendsHoldBody'
      BY <1>3, <2>1, <2>2
    <3> QED
      BY <1>4, <3>1 DEF FindActiveEpoch, TypeOK
  <2>3. CASE Goto(p, "mkepoch")
    <3>1. proc' \in [Procs -> ProcType]
      <4>1. "mkepoch" \in Pcs
        BY DEF Pcs
      <4> QED
        BY <2>3, <4>1, GotoType
    <3>2. AppendsHoldBody'
      BY <2>1, <2>3 DEF Goto, TypeOK, ProcType, AppendsHoldBody
    <3> QED
      BY <1>4, <3>1, <3>2 DEF FindActiveEpoch, TypeOK
  <2> QED
    BY <1>4, <2>2, <2>3 DEF FindActiveEpoch
<1>5. ASSUME NEW p \in Procs, CreateDefaultEpoch(p) PROVE TypeInv'
  <2>1. proc[p].pc = "mkepoch" /\ DefaultEpoch \in EpochIds
    BY <1>5, ConstantsAssumption DEF CreateDefaultEpoch, DefaultEpoch, EpochIds
  <2>2. epochs' \in [EpochIds -> EpochType]
    <3>1. [epochs[DefaultEpoch] EXCEPT !.status = "ACTIVE"] \in EpochType
      BY <2>1 DEF TypeOK, EpochType
    <3> QED
      BY <1>5, <3>1 DEF CreateDefaultEpoch, TypeOK
  <2>3. CASE EpochFound(p, DefaultEpoch)
    BY <1>3, <1>5, <2>1, <2>2, <2>3 DEF CreateDefaultEpoch, TypeOK
  <2>4. CASE Goto(p, "refetch")
    <3>1. proc' \in [Procs -> ProcType]
      <4>1. "refetch" \in Pcs
        BY DEF Pcs
      <4> QED
        BY <2>4, <4>1, GotoType
    <3>2. AppendsHoldBody'
      BY <2>1, <2>4 DEF Goto, TypeOK, ProcType, AppendsHoldBody
    <3> QED
      BY <1>5, <2>2, <3>1, <3>2 DEF CreateDefaultEpoch, TypeOK
  <2> QED
    BY <1>5, <2>3, <2>4 DEF CreateDefaultEpoch
<1>6. ASSUME NEW p \in Procs, RefetchActiveEpoch(p) PROVE TypeInv'
  <2>1. proc[p].pc = "refetch" /\ DefaultEpoch \in EpochIds
    BY <1>6, ConstantsAssumption DEF RefetchActiveEpoch, DefaultEpoch, EpochIds
  <2>2. \E e \in EpochIds : EpochFound(p, e)
    BY <1>6, <2>1 DEF RefetchActiveEpoch
  <2>3. proc' \in [Procs -> ProcType] /\ AppendsHoldBody'
    BY <1>3, <2>1, <2>2
  <2> QED
    BY <1>6, <2>3 DEF RefetchActiveEpoch, TypeOK
<1>7. ASSUME NEW p \in Procs, ReadTail(p) PROVE TypeInv'
  <2> DEFINE r(h) == [proc[p] EXCEPT !.pc = "insert", !.prev = h]
  <2>1. \E h \in Hash : proc' = [proc EXCEPT ![p] = r(h)]
    <3>1. CASE proc' = [proc EXCEPT ![p].pc = "insert", ![p].prev = <<>>]
      <4>1. <<>> \in Hash
        BY DEF Hash
      <4> QED
        BY <3>1, <4>1 DEF TypeOK
    <3>2. ASSUME NEW tail \in Tails(events[proc[p].epoch]),
                 proc' = [proc EXCEPT ![p].pc = "insert", ![p].prev = tail.hash]
          PROVE  \E h \in Hash : proc' = [proc EXCEPT ![p] = r(h)]
      <4>1. tail.hash \in Hash
        BY DEF TypeOK, ProcType, Tails, Event
      <4> QED
        BY <3>2, <4>1 DEF TypeOK
    <3> QED
      BY <1>7, <3>1, <3>2 DEF ReadTail
  <2>2. proc' \in [Procs -> ProcType]
    <3>1. \A h \in Hash : r(h) \in ProcType
      BY DEF TypeOK, ProcType, Pcs
    <3> QED
      BY <2>1, <3>1 DEF TypeOK
  <2>3. AppendsHoldBody'
    <3>1. PICK h \in Hash : proc' = [proc EXCEPT ![p] = r(h)]
      BY <2>1
    <3>2. /\ r(h).pc = "insert" /\ r(h).op = "append"
          /\ r(h).body \in Body
      BY <1>7 DEF ReadTail, TypeOK, ProcType, AppendsHoldBody
    <3> QED
      BY <3>1, <3>2 DEF TypeOK, AppendsHoldBody
  <2> QED
    BY <1>7, <2>2, <2>3 DEF ReadTail, TypeOK
<1>8. ASSUME NEW p \in Procs, TailAmbiguous(p) PROVE TypeInv'
  BY <1>8, FinishType DEF TailAmbiguous, TypeOK
<1>9. ASSUME NEW p \in Procs, proc[p].pc = "insert", Store(p)
      PROVE  /\ events' \in [EpochIds -> SUBSET Event]
             /\ [epoch |-> proc[p].epoch, body |-> proc[p].body]
                    \in [epoch : EpochIds, body : Body]
  <2>1. proc[p] \in ProcType /\ proc[p].body \in Body
    BY <1>9 DEF TypeOK, AppendsHoldBody
  <2>2. NewEvent(p) \in Event
    BY <2>1 DEF NewEvent, Event, ProcType, Hash
  <2> QED
    BY <1>9, <2>1, <2>2 DEF Store, TypeOK, ProcType
<1>10. ASSUME NEW p \in Procs, Insert(p) PROVE TypeInv'
  BY <1>9, <1>10, FinishType DEF Insert, TypeOK
<1>11. ASSUME NEW p \in Procs, DuplicatePrevHash(p) PROVE TypeInv'
  <2>1. CASE Finish(p)
    BY <1>11, <2>1, FinishType DEF DuplicatePrevHash, TypeOK
  <2>2. CASE /\ proc[p].tries + 1 < MaxAttempts
             /\ proc' = [proc EXCEPT ![p].pc = "tail", ![p].tries = @ + 1]
             /\ UNCHANGED queue
    <3> DEFINE r == [proc[p] EXCEPT !.pc = "tail", !.tries = @ + 1]
    <3>1. proc' \in [Procs -> ProcType]
      <4>1. proc' = [proc EXCEPT ![p] = r]
        BY <2>2 DEF TypeOK
      <4>2. proc[p] \in ProcType
        BY DEF TypeOK
      <4>3. proc[p].tries + 1 \in 0 .. MaxAttempts - 1
        BY <2>2, <4>2, ConstantsAssumption DEF ProcType
      <4>4. r \in ProcType
        BY <4>2, <4>3 DEF ProcType, Pcs
      <4> QED
        BY <4>1, <4>4 DEF TypeOK
    <3>2. AppendsHoldBody'
      BY <1>11, <2>2 DEF DuplicatePrevHash, TypeOK, ProcType, AppendsHoldBody
    <3> QED
      BY <1>11, <2>2, <3>1, <3>2 DEF DuplicatePrevHash, TypeOK
  <2> QED
    BY <1>11, <2>1, <2>2 DEF DuplicatePrevHash
<1>12. ASSUME NEW p \in Procs, RefuseSeal(p) PROVE TypeInv'
  BY <1>12, FinishType DEF RefuseSeal, TypeOK
<1>13. ASSUME NEW p \in Procs, CreateIncident(p) PROVE TypeInv'
  <2>1. proc[p] \in ProcType
    BY DEF TypeOK
  <2>2. [id |-> proc[p].seal, epoch |-> proc[p].epoch] \in [id : EpochIds, epoch : EpochIds]
    BY <2>1 DEF ProcType
  <2>3. proc' \in [Procs -> ProcType]
    <3> DEFINE r == [proc[p] EXCEPT !.pc = "mark", !.now = clock + 1]
    <3>1. proc' = [proc EXCEPT ![p] = r]
      BY <1>13 DEF CreateIncident, TypeOK
    <3>2. clock + 1 \in Nat
      BY DEF TypeOK
    <3>3. r \in ProcType
      BY <2>1, <3>2 DEF ProcType, Pcs
    <3> QED
      BY <3>1, <3>3 DEF TypeOK
  <2>4. AppendsHoldBody'
    BY <1>13 DEF CreateIncident, TypeOK, ProcType, AppendsHoldBody
  <2> QED
    BY <1>13, <2>2, <2>3, <2>4 DEF CreateIncident, TypeOK
<1>14. ASSUME NEW p \in Procs, MarkCompromised(p) PROVE TypeInv'
  <2>1. epochs' \in [EpochIds -> EpochType]
    <3>1. \A e \in EpochIds : [epochs[e] EXCEPT !.status = "COMPROMISED"] \in EpochType
      BY DEF TypeOK, EpochType
    <3> QED
      BY <1>14, <3>1 DEF MarkCompromised, TypeOK, ProcType
  <2>2. proc' \in [Procs -> ProcType]
    <3>1. "newepoch" \in Pcs /\ Goto(p, "newepoch")
      BY <1>14 DEF MarkCompromised, Pcs
    <3> QED
      BY <3>1, GotoType
  <2>3. AppendsHoldBody'
    BY <1>14 DEF MarkCompromised, Goto, TypeOK, ProcType, AppendsHoldBody
  <2> QED
    BY <1>14, <2>1, <2>2, <2>3 DEF MarkCompromised, TypeOK
<1>15. ASSUME NEW p \in Procs, StartEpoch(p) PROVE TypeInv'
  <2>1. proc[p] \in ProcType
    BY DEF TypeOK
  <2>2. proc[p].seal \in EpochIds
    BY <2>1 DEF ProcType
  <2>3. /\ proc' \in [Procs -> ProcType]
        /\ queue' \in [Instances -> Seq(Procs)]
        /\ calls' \in Nat
        /\ AppendsHoldBody'
    BY <1>15, <2>2, EnqueueType DEF StartEpoch
  <2>4. epochs' \in [EpochIds -> EpochType]
    BY <1>15, <2>1 DEF StartEpoch, TypeOK, EpochType, ProcType
  <2> QED
    BY <1>15, <2>3, <2>4 DEF StartEpoch, TypeOK
<1>16. ASSUME NEW p \in Procs, DbError(p) PROVE TypeInv'
  BY <1>16, FinishType, ConstantsAssumption DEF DbError, TypeOK
<1>17. ASSUME NEW p \in Procs, InsertUnacknowledged(p) PROVE TypeInv'
  BY <1>9, <1>17, FinishType, ConstantsAssumption DEF InsertUnacknowledged, TypeOK
<1>18. ASSUME NEW i \in Instances, Crash(i) PROVE TypeInv'
  <2>1. proc' \in [Procs -> ProcType]
    BY <1>18, IdleType DEF Crash, TypeOK
  <2>2. AppendsHoldBody'
    BY <1>18 DEF Crash, TypeOK, AppendsHoldBody, idle
  <2> QED
    BY <1>18, <2>1, <2>2, ConstantsAssumption DEF Crash, TypeOK
<1>19. ASSUME NEW e \in EpochIds, NEW ev \in events[e], EditEvent(e, ev) PROVE TypeInv'
  <2>1. ev \in Event
    BY DEF TypeOK
  <2>2. [ev EXCEPT !.body = Damaged] \in Event
    BY <2>1 DEF Event
  <2>3. events' \in [EpochIds -> SUBSET Event]
    BY <1>19, <2>2 DEF EditEvent, TypeOK
  <2> QED
    BY <1>19, <2>3, ConstantsAssumption DEF EditEvent, TypeOK, AppendsHoldBody
<1>20. ASSUME NEW e \in EpochIds, NEW ev \in events[e], LoseEvent(e, ev) PROVE TypeInv'
  BY <1>20, ConstantsAssumption DEF LoseEvent, TypeOK, AppendsHoldBody
<1>21. CASE UNCHANGED vars
  BY <1>21 DEF vars, TypeOK, AppendsHoldBody
<1> QED
  BY <1>1, <1>2, <1>4, <1>5, <1>6, <1>7, <1>8, <1>10, <1>11, <1>12, <1>13, <1>14,
     <1>15, <1>16, <1>17, <1>18, <1>19, <1>20, <1>21
     DEF Next, AppendStep, SealStep, Fault

(***************************************************************************)
(* Every state the service reaches is well typed.                          *)
(***************************************************************************)
THEOREM TypeCorrect == Spec => []TypeOK
<1>1. TypeInv => TypeOK
  BY DEF TypeInv
<1> QED
  BY <1>1, TypeInit, TypeStep, PTL DEF Spec

-----------------------------------------------------------------------------
(***************************************************************************)
(* Linearity.  For one collection of events: hashes are well formed, any   *)
(* two events are on one line, and the line has no gaps.  The last part is *)
(* what makes the invariant inductive: an insert whose predecessor has no  *)
(* successor yet extends the end of the line only because there are no     *)
(* gaps behind the end.                                                    *)
(***************************************************************************)
WellFormed(evs) == \A a \in evs : a.body \in Body /\ a.hash = Append(a.prev, a.body)
OnOneLine(evs) == \A a, b \in evs : Precedes(a, b) \/ Precedes(b, a)
NoGaps(evs) ==
    \A b \in evs : \A k \in 1 .. Len(b.hash) :
        \E c \in evs : c.hash = SubSeq(b.hash, 1, k)

Line(evs) == WellFormed(evs) /\ OnOneLine(evs) /\ NoGaps(evs)

(* A pending insert was prepared for the empty epoch or for a stored event. *)
PendingInsert ==
    \A p \in Procs :
        proc[p].pc = "insert" /\ proc[p].epoch \in Trusted =>
            \/ proc[p].prev = <<>>
            \/ \E ev \in events[proc[p].epoch] : ev.hash = proc[p].prev

LineInv ==
    /\ TypeInv
    /\ \A e \in Trusted : Line(events[e])
    /\ PendingInsert

(* If no event follows the event t then no event has a longer hash. *)
LEMMA EndOfLine ==
    ASSUME NEW evs \in SUBSET Event, Line(evs), NEW t \in evs,
           \A ev \in evs : ev.prev # t.hash
    PROVE  \A b \in evs : Precedes(b, t)
<1> SUFFICES ASSUME NEW b \in evs, ~Precedes(b, t) PROVE FALSE
  OBVIOUS
<1> DEFINE n == Len(t.hash)
<1>1. /\ t.hash \in Hash /\ b.hash \in Hash
      /\ n \in Nat /\ Len(b.hash) \in Nat
  BY DEF Event, Hash
<1>2. Precedes(t, b)
  BY DEF Line, OnOneLine
<1>3. n < Len(b.hash)
  <2>1. CASE n = Len(b.hash)
    <3>1. t.hash = b.hash
      BY <1>1, <1>2, <2>1, WholePrefix DEF Precedes, Hash
    <3> QED
      BY <1>1, <1>2, <2>1, <3>1 DEF Precedes
  <2> QED
    BY <1>1, <1>2, <2>1 DEF Precedes
<1>4. PICK c \in evs : c.hash = SubSeq(b.hash, 1, n + 1)
  <2>1. n + 1 \in 1 .. Len(b.hash)
    BY <1>1, <1>3
  <2> QED
    BY <2>1 DEF Line, NoGaps
<1>5. c.prev \in Hash /\ c.body \in Body /\ c.hash = Append(c.prev, c.body)
  BY DEF Line, WellFormed, Event
<1>6. Len(c.hash) = n + 1
  BY <1>1, <1>3, <1>4 DEF Hash
<1>7. Len(c.prev) = n
  BY <1>1, <1>5, <1>6, AppendLen DEF Hash
<1>8. c.prev = SubSeq(c.hash, 1, n)
  BY <1>1, <1>5, <1>7, AppendPrefix, WholePrefix DEF Hash
<1>9. SubSeq(c.hash, 1, n) = SubSeq(b.hash, 1, n)
  BY <1>1, <1>3, <1>4, PrefixOfPrefix DEF Hash
<1>10. c.prev = t.hash
  BY <1>2, <1>8, <1>9 DEF Precedes
<1> QED
  BY <1>10

(* Without a genesis event the epoch is empty. *)
LEMMA NoGenesisNoEvents ==
    ASSUME NEW evs \in SUBSET Event, Line(evs), \A ev \in evs : ev.prev # <<>>
    PROVE  evs = {}
<1> SUFFICES ASSUME NEW b \in evs PROVE FALSE
  OBVIOUS
<1>1. /\ b.hash \in Hash /\ b.prev \in Hash
      /\ b.body \in Body /\ b.hash = Append(b.prev, b.body)
  BY DEF Line, WellFormed, Event
<1>2. Len(b.hash) \in Nat /\ 1 <= Len(b.hash)
  BY <1>1, AppendLen DEF Hash
<1>3. PICK c \in evs : c.hash = SubSeq(b.hash, 1, 1)
  BY <1>2 DEF Line, NoGaps
<1>4. c.prev \in Hash /\ c.body \in Body /\ c.hash = Append(c.prev, c.body)
  BY DEF Line, WellFormed, Event
<1>5. Len(c.hash) = 1
  BY <1>1, <1>2, <1>3 DEF Hash
<1>6. c.prev = <<>>
  BY <1>4, <1>5, AppendLen DEF Hash
<1> QED
  BY <1>6

(* All stored events come before one that is stored behind the last. *)
LEMMA BeforeNew ==
    ASSUME NEW evs \in SUBSET Event, Line(evs), NEW body \in Body, NEW prev \in Hash,
           \A ev \in evs : ev.prev # prev,
           prev = <<>> \/ \E ev \in evs : ev.hash = prev,
           NEW b \in evs, NEW new, new.hash = Append(prev, body)
    PROVE  Len(b.hash) <= Len(prev) /\ Precedes(b, new)
<1>1. /\ Len(prev) \in Nat
      /\ Len(new.hash) = Len(prev) + 1
      /\ SubSeq(new.hash, 1, Len(prev)) = prev
  BY AppendLen, AppendPrefix, WholePrefix DEF Hash
<1>2. b.hash \in Hash /\ Len(b.hash) \in Nat
  BY DEF Event, Hash
<1>3. Len(b.hash) <= Len(prev) /\ b.hash = SubSeq(prev, 1, Len(b.hash))
  <2>1. CASE prev = <<>>
    BY <2>1, NoGenesisNoEvents
  <2>2. CASE \E ev \in evs : ev.hash = prev
    BY <2>2, EndOfLine DEF Precedes
  <2> QED
    BY <2>1, <2>2
<1>4. SubSeq(new.hash, 1, Len(b.hash)) = SubSeq(prev, 1, Len(b.hash))
  BY <1>1, <1>2, <1>3, AppendPrefix DEF Hash
<1> QED
  BY <1>1, <1>2, <1>3, <1>4 DEF Precedes

(* Inserting behind an event that nobody refers to keeps the line. *)
LEMMA ExtendLine ==
    ASSUME NEW evs \in SUBSET Event, Line(evs), NEW body \in Body, NEW prev \in Hash,
           \A ev \in evs : ev.prev # prev,
           prev = <<>> \/ \E ev \in evs : ev.hash = prev
    PROVE  Line(evs \cup {[body |-> body, prev |-> prev, hash |-> Append(prev, body)]})
<1> DEFINE new == [body |-> body, prev |-> prev, hash |-> Append(prev, body)]
           all == evs \cup {new}
<1>1. /\ Len(prev) \in Nat
      /\ new.hash = Append(prev, body) /\ new.hash \in Hash
      /\ new.body = body
      /\ Len(new.hash) = Len(prev) + 1
      /\ SubSeq(new.hash, 1, Len(prev)) = prev
      /\ SubSeq(new.hash, 1, Len(new.hash)) = new.hash
  BY AppendLen, AppendPrefix, WholePrefix DEF Hash
<1>2. WellFormed(all)
  BY DEF Line, WellFormed
<1>3. \A b \in evs : b.hash \in Hash /\ Len(b.hash) \in Nat
  BY DEF Event, Hash
<1>5. \A b \in evs : Precedes(b, new)
  BY BeforeNew
<1>6. Precedes(new, new)
  BY <1>1 DEF Precedes
<1> HIDE DEF new
<1>7. OnOneLine(all)
  BY <1>5, <1>6 DEF Line, OnOneLine
<1>8. ASSUME NEW k \in 1 .. Len(new.hash)
      PROVE  \E c \in all : c.hash = SubSeq(new.hash, 1, k)
  <2>1. CASE k = Len(new.hash)
    BY <1>1, <2>1
  <2>2. CASE k # Len(new.hash)
    <3>1. k \in 1 .. Len(prev)
      BY <1>1, <2>2
    <3>2. SubSeq(new.hash, 1, k) = SubSeq(prev, 1, k)
      BY <1>1, <3>1, AppendPrefix DEF Hash
    <3>3. PICK t \in evs : t.hash = prev
      BY <3>1
    <3>4. PICK c \in evs : c.hash = SubSeq(prev, 1, k)
      BY <3>1, <3>3 DEF Line, NoGaps
    <3> QED
      BY <3>2, <3>4
  <2> QED
    BY <2>1, <2>2
<1>9. NoGaps(all)
  BY <1>8 DEF Line, NoGaps
<1> QED
  BY <1>2, <1>7, <1>9 DEF Line, new

LEMMA LineInit == Init => LineInv
BY TypeInit DEF Init, LineInv, Trusted, Line, WellFormed, OnOneLine, NoGaps,
                PendingInsert, idle

(* A stored event stays in an epoch for as long as the epoch is trusted. *)
LEMMA KeepPending ==
    ASSUME LineInv, TypeInv',
           \A e \in Trusted' : e \in Trusted /\ events[e] \subseteq events'[e],
           \A p \in Procs :
              proc'[p].pc = "insert" =>
                /\ proc[p].pc = "insert"
                /\ proc'[p].epoch = proc[p].epoch
                /\ proc'[p].prev = proc[p].prev
    PROVE  PendingInsert'
BY DEF LineInv, PendingInsert, TypeInv, TypeOK, ProcType

(* A finished request is no longer about to insert. *)
LEMMA FinishKeepsOthers ==
    ASSUME TypeInv, NEW p \in Procs, Finish(p)
    PROVE  \A q \in Procs :
              proc'[q].pc = "insert" =>
                /\ proc[q].pc = "insert"
                /\ proc'[q].epoch = proc[q].epoch
                /\ proc'[q].prev = proc[q].prev
BY DEF TypeInv, TypeOK, Finish, idle

(* Storing the event of a request whose predecessor is still free. *)
LEMMA StoreKeepsLines ==
    ASSUME LineInv, NEW p \in Procs, proc[p].pc = "insert",
           ~PrevHashTaken(proc[p].epoch, proc[p].prev), Store(p), UNCHANGED damaged
    PROVE  /\ \A e \in Trusted' : Line(events'[e])
           /\ \A e \in Trusted' : e \in Trusted /\ events[e] \subseteq events'[e]
<1> DEFINE f == proc[p].epoch
<1>1. /\ f \in EpochIds /\ proc[p].prev \in Hash /\ proc[p].body \in Body
      /\ events \in [EpochIds -> SUBSET Event]
  BY DEF LineInv, TypeInv, TypeOK, ProcType, AppendsHoldBody
<1>2. Trusted' = Trusted /\ Trusted \subseteq EpochIds
  BY DEF Trusted
<1>3. events' = [events EXCEPT ![f] = @ \cup {NewEvent(p)}]
  BY DEF Store
<1>4. ASSUME f \in Trusted PROVE Line(events[f] \cup {NewEvent(p)})
  <2>1. Line(events[f])
    BY <1>4 DEF LineInv
  <2>2. \A ev \in events[f] : ev.prev # proc[p].prev
    BY DEF PrevHashTaken
  <2>3. proc[p].prev = <<>> \/ \E ev \in events[f] : ev.hash = proc[p].prev
    BY <1>4 DEF LineInv, PendingInsert
  <2> QED
    BY <1>1, <2>1, <2>2, <2>3, ExtendLine DEF NewEvent
<1>5. \A e \in Trusted : e # f => events'[e] = events[e]
  BY <1>1, <1>2, <1>3
<1>6. \A e \in Trusted : Line(events'[e])
  BY <1>1, <1>2, <1>3, <1>4, <1>5 DEF LineInv
<1> QED
  BY <1>1, <1>2, <1>3, <1>6

LEMMA LineStep == LineInv /\ [Next]_vars => LineInv'
<1> SUFFICES ASSUME LineInv, [Next]_vars PROVE LineInv'
  OBVIOUS
<1>1. TypeInv /\ TypeInv'
  BY TypeStep DEF LineInv
<1> DEFINE Others == \A q \in Procs :
                        proc'[q].pc = "insert" =>
                            /\ proc[q].pc = "insert"
                            /\ proc'[q].epoch = proc[q].epoch
                            /\ proc'[q].prev = proc[q].prev
(* Most actions store nothing and prepare no insert. *)
<1>2. ASSUME UNCHANGED <<events, damaged>>, Others PROVE LineInv'
  <2>1. Trusted' = Trusted /\ events' = events
    BY <1>2 DEF Trusted
  <2>2. PendingInsert'
    BY <1>1, <1>2, <2>1, KeepPending
  <2> QED
    BY <1>1, <2>1, <2>2 DEF LineInv
<1>3. ASSUME NEW p \in Procs, Create(p) PROVE LineInv'
  <2>1. Others
    BY <1>1, <1>3 DEF Create, TypeInv, TypeOK, idle
  <2> QED
    BY <1>2, <1>3, <2>1 DEF Create
<1>4. ASSUME NEW p \in Procs, Seal(p) PROVE LineInv'
  <2>1. Others
    BY <1>1, <1>4 DEF Seal, TypeInv, TypeOK, idle
  <2> QED
    BY <1>2, <1>4, <2>1 DEF Seal
<1>5. ASSUME NEW p \in Procs, NEW e \in EpochIds, EpochFound(p, e) PROVE Others
  BY <1>1, <1>5 DEF EpochFound, TypeInv, TypeOK, ProcType
<1>6. ASSUME NEW p \in Procs, NEW pc \in Pcs, pc # "insert", Goto(p, pc) PROVE Others
  BY <1>1, <1>6 DEF Goto, TypeInv, TypeOK, ProcType
<1>7. ASSUME NEW p \in Procs, FindActiveEpoch(p) PROVE LineInv'
  <2>1. Others
    BY <1>5, <1>6, <1>7 DEF FindActiveEpoch, Pcs
  <2> QED
    BY <1>2, <1>7, <2>1 DEF FindActiveEpoch
<1>8. DefaultEpoch \in EpochIds
  BY ConstantsAssumption DEF DefaultEpoch, EpochIds
<1>9. ASSUME NEW p \in Procs, CreateDefaultEpoch(p) PROVE LineInv'
  <2>1. Others
    BY <1>5, <1>6, <1>8, <1>9 DEF CreateDefaultEpoch, Pcs
  <2> QED
    BY <1>2, <1>9, <2>1 DEF CreateDefaultEpoch
<1>10. ASSUME NEW p \in Procs, RefetchActiveEpoch(p) PROVE LineInv'
  <2>1. Others
    BY <1>5, <1>8, <1>10 DEF RefetchActiveEpoch
  <2> QED
    BY <1>2, <1>10, <2>1 DEF RefetchActiveEpoch
(* The tail just read is a stored event, or the epoch is empty. *)
<1>11. ASSUME NEW p \in Procs, ReadTail(p) PROVE LineInv'
  <2>1. Trusted' = Trusted /\ events' = events
    BY <1>11 DEF ReadTail, Trusted
  <2>2. ASSUME NEW q \in Procs, q # p PROVE proc'[q] = proc[q]
    BY <1>1, <1>11, <2>2 DEF ReadTail, TypeInv, TypeOK
  <2>3. /\ proc'[p].epoch = proc[p].epoch
        /\ \/ proc'[p].prev = <<>>
           \/ \E ev \in events[proc[p].epoch] : ev.hash = proc'[p].prev
    BY <1>1, <1>11 DEF ReadTail, TypeInv, TypeOK, ProcType, Tails
  <2>4. PendingInsert'
    BY <2>1, <2>2, <2>3 DEF LineInv, PendingInsert
  <2> QED
    BY <1>1, <2>1, <2>4 DEF LineInv
<1>12. ASSUME NEW p \in Procs, TailAmbiguous(p) PROVE LineInv'
  BY <1>1, <1>2, <1>12, FinishKeepsOthers DEF TailAmbiguous
<1>13. ASSUME NEW p \in Procs, proc[p].pc = "insert",
              ~PrevHashTaken(proc[p].epoch, proc[p].prev),
              Store(p), Finish(p), UNCHANGED damaged
       PROVE  LineInv'
  <2>1. Others
    BY <1>1, <1>13, FinishKeepsOthers
  <2>2. /\ \A e \in Trusted' : Line(events'[e])
        /\ \A e \in Trusted' : e \in Trusted /\ events[e] \subseteq events'[e]
    BY <1>13, StoreKeepsLines
  <2>3. PendingInsert'
    BY <1>1, <2>1, <2>2, KeepPending
  <2> QED
    BY <1>1, <2>2, <2>3 DEF LineInv
<1>14. ASSUME NEW p \in Procs, Insert(p) PROVE LineInv'
  BY <1>13, <1>14 DEF Insert
<1>15. ASSUME NEW p \in Procs, DuplicatePrevHash(p) PROVE LineInv'
  <2>1. CASE Finish(p)
    BY <1>1, <1>2, <1>15, <2>1, FinishKeepsOthers DEF DuplicatePrevHash
  <2>2. CASE proc' = [proc EXCEPT ![p].pc = "tail", ![p].tries = @ + 1]
    <3>1. Others
      BY <1>1, <2>2 DEF TypeInv, TypeOK, ProcType
    <3> QED
      BY <1>2, <1>15, <3>1 DEF DuplicatePrevHash
  <2> QED
    BY <1>15, <2>1, <2>2 DEF DuplicatePrevHash
<1>16. ASSUME NEW p \in Procs, RefuseSeal(p) PROVE LineInv'
  BY <1>1, <1>2, <1>16, FinishKeepsOthers DEF RefuseSeal
<1>17. ASSUME NEW p \in Procs, CreateIncident(p) PROVE LineInv'
  <2>1. Others
    BY <1>1, <1>17 DEF CreateIncident, TypeInv, TypeOK, ProcType
  <2> QED
    BY <1>2, <1>17, <2>1 DEF CreateIncident
<1>18. ASSUME NEW p \in Procs, MarkCompromised(p) PROVE LineInv'
  <2>1. Others
    BY <1>6, <1>18 DEF MarkCompromised, Pcs
  <2> QED
    BY <1>2, <1>18, <2>1 DEF MarkCompromised
<1>19. ASSUME NEW p \in Procs, StartEpoch(p) PROVE LineInv'
  <2>1. Others
    BY <1>1, <1>19 DEF StartEpoch, TypeInv, TypeOK, idle
  <2> QED
    BY <1>2, <1>19, <2>1 DEF StartEpoch
<1>20. ASSUME NEW p \in Procs, DbError(p) PROVE LineInv'
  BY <1>1, <1>2, <1>20, FinishKeepsOthers DEF DbError
<1>21. ASSUME NEW p \in Procs, InsertUnacknowledged(p) PROVE LineInv'
  BY <1>13, <1>21 DEF InsertUnacknowledged
<1>22. ASSUME NEW i \in Instances, Crash(i) PROVE LineInv'
  <2>1. Others
    BY <1>1, <1>22 DEF Crash, TypeInv, TypeOK, idle
  <2> QED
    BY <1>2, <1>22, <2>1 DEF Crash
(* A damaged epoch leaves the trusted ones; the others keep their events. *)
<1>23. ASSUME NEW e \in EpochIds, damaged' = damaged \cup {e}, UNCHANGED proc,
              \A f \in EpochIds : f # e => events'[f] = events[f]
       PROVE  LineInv'
  <2>1. \A f \in Trusted' : f \in Trusted /\ events'[f] = events[f]
    BY <1>23 DEF Trusted
  <2>2. PendingInsert'
    BY <1>1, <1>23, <2>1, KeepPending
  <2> QED
    BY <1>1, <2>1, <2>2 DEF LineInv
<1>24. ASSUME NEW e \in EpochIds, NEW ev \in events[e],
              EditEvent(e, ev) \/ LoseEvent(e, ev)
       PROVE  LineInv'
  BY <1>1, <1>23, <1>24 DEF EditEvent, LoseEvent, TypeInv, TypeOK
<1>25. CASE UNCHANGED vars
  BY <1>2, <1>25 DEF vars
<1> QED
  BY <1>3, <1>4, <1>7, <1>9, <1>10, <1>11, <1>12, <1>14, <1>15, <1>16, <1>17, <1>18,
     <1>19, <1>20, <1>21, <1>22, <1>24, <1>25
     DEF Next, AppendStep, SealStep, Fault

(***************************************************************************)
(* The chain of every epoch nobody damaged is one line.                    *)
(***************************************************************************)
THEOREM LinearChain == Spec => []ChainLinear
<1>1. LineInv => ChainLinear
  BY DEF LineInv, Line, WellFormed, OnOneLine, ChainLinear
<1> QED
  BY <1>1, LineInit, LineStep, PTL DEF Spec

-----------------------------------------------------------------------------
(***************************************************************************)
(* The queue.  A request is appending from create() until it is answered.  *)
(***************************************************************************)
Appending(p) == proc[p].pc # "idle" /\ proc[p].op = "append"

(* What the place of a request in its handler says of it. *)
FlowInv ==
    \A p \in Procs :
        /\ proc[p].pc \in {"seal", "verify", "mark", "newepoch"} => proc[p].op = "seal"
        /\ Appending(p) => proc[p].body.by = p

(* The queue of an instance holds requests of its own, in the order in       *)
(* which create() was called; only the first of them is past the queue.      *)
Ordered(local, i, q) ==
    \A k \in 1 .. Len(q) :
        /\ InstanceOf[q[k]] = i
        /\ local[q[k]].pc # "idle" /\ local[q[k]].op = "append"
        /\ \A l \in 1 .. k - 1 : local[q[l]].body.n < local[q[k]].body.n

QueueInv ==
    /\ \A i \in Instances : Ordered(proc, i, queue[i])
    /\ \A p \in Procs : Appending(p) =>
         /\ proc[p].body.n <= calls
         /\ proc[p].pc # "queued" => AtHead(p)

FlowTypeInv == TypeInv /\ FlowInv
FIFOInv == FlowTypeInv /\ QueueInv

(* The ways in which a step changes the queues and the payloads in flight. *)
Moves ==
    /\ UNCHANGED <<queue, calls>>
    /\ \A p \in Procs :
         /\ Appending(p)' => Appending(p)
         /\ Appending(p) => 
               /\ Appending(p)'
               /\ proc'[p].body = proc[p].body
               /\ proc'[p].pc # "queued" /\ proc[p].pc = "queued" => AtHead(p)

Ends(p) ==
    /\ Finish(p)
    /\ proc[p].pc = "queued" => AtHead(p)
    /\ UNCHANGED calls

Enqueues(p) ==
    /\ proc[p].pc \in {"idle", "newepoch"}
    /\ \E e \in EpochIds :
         proc' = [proc EXCEPT ![p] =
            [idle EXCEPT !.pc = "queued",
                         !.body = [n |-> calls + 1, by |-> p, starts |-> e]]]
    /\ queue' = [queue EXCEPT ![InstanceOf[p]] = Append(@, p)]
    /\ calls' = calls + 1
    /\ UNCHANGED <<events, acked, damaged>>

LEMMA FoundMoves ==
    ASSUME FlowTypeInv, NEW p \in Procs, NEW e \in EpochIds, EpochFound(p, e),
           proc[p].pc \in {"seal", "queued", "mkepoch", "refetch"},
           proc[p].pc = "queued" => AtHead(p), UNCHANGED <<queue, calls>>
    PROVE  Moves
BY DEF FlowTypeInv, TypeInv, TypeOK, ProcType, EpochFound, Moves, Appending

LEMMA GotoMoves ==
    ASSUME FlowTypeInv, NEW p \in Procs, NEW pc \in Pcs \ {"idle"}, Goto(p, pc),
           proc[p].pc # "idle",
           proc[p].pc = "queued" => AtHead(p), UNCHANGED <<queue, calls>>
    PROVE  Moves
BY DEF FlowTypeInv, TypeInv, TypeOK, ProcType, Goto, Moves, Appending

LEMMA QueueShapes ==
    ASSUME FlowTypeInv, [Next]_vars
    PROVE  \/ Moves
           \/ \E p \in Procs : Ends(p)
           \/ \E p \in Procs : Enqueues(p)
           \/ \E i \in Instances : Crash(i)
<1> DEFINE Goal == \/ Moves
                   \/ \E p \in Procs : Ends(p)
                   \/ \E p \in Procs : Enqueues(p)
                   \/ \E i \in Instances : Crash(i)
<1>0. 0 \in EpochIds /\ DefaultEpoch \in EpochIds
  BY ConstantsAssumption DEF EpochIds, DefaultEpoch
<1>1. ASSUME NEW p \in Procs, Create(p) PROVE Enqueues(p)
  BY <1>0, <1>1 DEF Create, Enqueues
<1>2. ASSUME NEW p \in Procs, Seal(p) PROVE Moves
  BY <1>2 DEF Seal, Moves, Appending, FlowTypeInv, TypeInv, TypeOK, ProcType, idle
<1>3. ASSUME NEW p \in Procs, FindActiveEpoch(p) PROVE Moves
  <2>1. /\ proc[p].pc \in {"seal", "queued"} /\ (proc[p].pc = "queued" => AtHead(p))
        /\ UNCHANGED <<queue, calls>>
        /\ (\E e \in EpochIds : EpochFound(p, e)) \/ Goto(p, "mkepoch")
    BY <1>3 DEF FindActiveEpoch
  <2>2. "mkepoch" \in Pcs \ {"idle"}
    BY DEF Pcs
  <2> QED
    BY <2>1, <2>2, FoundMoves, GotoMoves
<1>4. ASSUME NEW p \in Procs, CreateDefaultEpoch(p) PROVE Moves
  BY <1>0, <1>4, FoundMoves, GotoMoves DEF CreateDefaultEpoch, Pcs
<1>5. ASSUME NEW p \in Procs, RefetchActiveEpoch(p) PROVE Moves
  BY <1>0, <1>5, FoundMoves DEF RefetchActiveEpoch
<1>6. ASSUME NEW p \in Procs, ReadTail(p) PROVE Moves
  <2>1. proc[p].pc = "tail" /\ UNCHANGED <<queue, calls>>
    BY <1>6 DEF ReadTail
  <2>2. PICK h : proc' = [proc EXCEPT ![p].pc = "insert", ![p].prev = h]
    BY <1>6 DEF ReadTail
  <2>3. \A q \in Procs :
            /\ proc'[q].op = proc[q].op /\ proc'[q].body = proc[q].body
            /\ proc'[q].pc = IF q = p THEN "insert" ELSE proc[q].pc
    BY <2>2 DEF FlowTypeInv, TypeInv, TypeOK, ProcType
  <2> QED
    BY <2>1, <2>3 DEF Moves, Appending
<1>7. ASSUME NEW p \in Procs, DuplicatePrevHash(p) PROVE Moves \/ Ends(p)
  <2>1. CASE Finish(p)
    BY <1>7, <2>1 DEF DuplicatePrevHash, Ends
  <2>2. CASE /\ proc' = [proc EXCEPT ![p].pc = "tail", ![p].tries = @ + 1]
             /\ UNCHANGED queue
    BY <1>7, <2>2 DEF DuplicatePrevHash, Moves, Appending, FlowTypeInv, TypeInv, TypeOK, ProcType
  <2> QED
    BY <1>7, <2>1, <2>2 DEF DuplicatePrevHash
<1>8. ASSUME NEW p \in Procs, CreateIncident(p) PROVE Moves
  BY <1>8 DEF CreateIncident, Moves, Appending, FlowTypeInv, TypeInv, TypeOK, ProcType
<1>9. ASSUME NEW p \in Procs, MarkCompromised(p) PROVE Moves
  BY <1>9, GotoMoves DEF MarkCompromised, Pcs
<1>10. ASSUME NEW p \in Procs, StartEpoch(p) PROVE Enqueues(p)
  <2>1. proc[p].seal \in EpochIds
    BY DEF FlowTypeInv, TypeInv, TypeOK, ProcType
  <2> QED
    BY <1>10, <2>1 DEF StartEpoch, Enqueues
<1>11. ASSUME NEW p \in Procs,
              TailAmbiguous(p) \/ Insert(p) \/ RefuseSeal(p) \/ DbError(p) \/ InsertUnacknowledged(p)
       PROVE  Ends(p)
  BY <1>11 DEF TailAmbiguous, Insert, RefuseSeal, DbError, InsertUnacknowledged, Ends
<1>12. ASSUME NEW e \in EpochIds, NEW ev \in events[e], EditEvent(e, ev) \/ LoseEvent(e, ev)
       PROVE  Moves
  BY <1>12 DEF EditEvent, LoseEvent, Moves, Appending
<1>13. CASE UNCHANGED vars
  BY <1>13 DEF vars, Moves, Appending
<1>14. ASSUME NEW p \in Procs, AppendStep(p) PROVE Goal
  BY <1>3, <1>4, <1>5, <1>6, <1>7, <1>11, <1>14 DEF AppendStep
<1>15. ASSUME NEW p \in Procs, SealStep(p) PROVE Goal
  <2>1. CASE RefuseSeal(p) \/ StartEpoch(p)
    BY <1>10, <1>11, <2>1
  <2>2. CASE CreateIncident(p) \/ MarkCompromised(p)
    BY <1>8, <1>9, <2>2
  <2> QED
    BY <1>15, <2>1, <2>2 DEF SealStep
<1>16. ASSUME Fault PROVE Goal
  <2>1. CASE \E p \in Procs : DbError(p) \/ InsertUnacknowledged(p)
    BY <1>11, <2>1
  <2>2. CASE \E e \in EpochIds : \E ev \in events[e] : EditEvent(e, ev) \/ LoseEvent(e, ev)
    BY <1>12, <2>2
  <2> QED
    BY <1>16, <2>1, <2>2 DEF Fault
<1> HIDE DEF Goal
<1>17. Goal
  BY <1>1, <1>2, <1>13, <1>14, <1>15, <1>16 DEF Next, Goal
<1> QED
  BY <1>17 DEF Goal

LEMMA FlowStep == FlowTypeInv /\ [Next]_vars => FlowTypeInv'
<1> SUFFICES ASSUME FlowTypeInv, [Next]_vars PROVE FlowInv'
  BY TypeStep DEF FlowTypeInv
<1>1. TypeInv /\ FlowInv
  BY DEF FlowTypeInv
<1>2. ASSUME NEW p \in Procs, Finish(p) PROVE FlowInv'
  BY <1>1, <1>2 DEF Finish, FlowInv, Appending, TypeInv, TypeOK, idle
<1>3. ASSUME NEW p \in Procs, Enqueues(p) PROVE FlowInv'
  BY <1>1, <1>3 DEF Enqueues, FlowInv, Appending, TypeInv, TypeOK, idle
<1>4. ASSUME NEW i \in Instances, Crash(i) PROVE FlowInv'
  BY <1>1, <1>4 DEF Crash, FlowInv, Appending, TypeInv, TypeOK, idle
<1>5. ASSUME Moves PROVE FlowInv'
  <2> SUFFICES ASSUME NEW q \in Procs,
                      proc'[q].pc \in {"seal", "verify", "mark", "newepoch"}
               PROVE  proc'[q].op = "seal"
    BY <1>1, <1>5 DEF Moves, FlowInv, Appending
  <2>1. proc[q] \in ProcType /\ proc \in [Procs -> ProcType]
    BY <1>1 DEF TypeInv, TypeOK
  <2>2. ASSUME NEW p \in Procs, NEW e \in EpochIds, EpochFound(p, e) PROVE proc'[q].op = "seal"
    BY <1>1, <2>1, <2>2 DEF EpochFound, FlowInv, ProcType
  <2>3. ASSUME NEW p \in Procs,
               Goto(p, "mkepoch") \/ Goto(p, "refetch")
               \/ (Goto(p, "newepoch") /\ proc[p].pc = "mark")
        PROVE  proc'[q].op = "seal"
    BY <1>1, <2>1, <2>3 DEF Goto, FlowInv, ProcType
  <2>4. ASSUME NEW p \in Procs, AppendStep(p) PROVE proc'[q].op = "seal"
    <3>1. CASE FindActiveEpoch(p) \/ CreateDefaultEpoch(p) \/ RefetchActiveEpoch(p)
      <4>1. DefaultEpoch \in EpochIds
        BY ConstantsAssumption DEF EpochIds, DefaultEpoch
      <4> QED
        BY <2>2, <2>3, <3>1, <4>1 DEF FindActiveEpoch, CreateDefaultEpoch, RefetchActiveEpoch
    <3>2. CASE ReadTail(p)
      <4>1. \E h : proc' = [proc EXCEPT ![p].pc = "insert", ![p].prev = h]
        BY <3>2 DEF ReadTail
      <4> QED
        BY <1>1, <2>1, <4>1 DEF FlowInv, ProcType
    <3>3. CASE DuplicatePrevHash(p)
      <4>1. CASE Finish(p)
        BY <1>1, <2>1, <4>1 DEF Finish, FlowInv, idle
      <4>2. CASE proc' = [proc EXCEPT ![p].pc = "tail", ![p].tries = @ + 1]
        BY <1>1, <2>1, <4>2 DEF FlowInv, ProcType
      <4> QED
        BY <3>3, <4>1, <4>2 DEF DuplicatePrevHash
    <3>4. CASE TailAmbiguous(p) \/ Insert(p)
      BY <1>1, <2>1, <3>4 DEF TailAmbiguous, Insert, Finish, FlowInv, ProcType, idle
    <3> QED
      BY <2>4, <3>1, <3>2, <3>3, <3>4 DEF AppendStep
  <2>5. ASSUME NEW p \in Procs, SealStep(p) \/ Seal(p) \/ Create(p) PROVE proc'[q].op = "seal"
    <3>1. CASE Finish(p)
      BY <1>1, <2>1, <3>1 DEF Finish, FlowInv, idle
    <3>2. CASE Seal(p)
      BY <1>1, <2>1, <3>2 DEF Seal, FlowInv, idle
    <3>3. CASE Create(p) \/ StartEpoch(p)
      BY <1>1, <2>1, <3>3 DEF Create, StartEpoch, FlowInv, idle
    <3>4. CASE CreateIncident(p)
      BY <1>1, <2>1, <3>4 DEF CreateIncident, FlowInv, ProcType
    <3> QED
      BY <2>3, <2>5, <3>1, <3>2, <3>3, <3>4 DEF SealStep, RefuseSeal, MarkCompromised
  <2>6. ASSUME Fault PROVE proc'[q].op = "seal"
    <3>1. ASSUME NEW p \in Procs, Finish(p) PROVE proc'[q].op = "seal"
      BY <1>1, <2>1, <3>1 DEF Finish, FlowInv, idle
    <3>2. CASE UNCHANGED proc
      BY <1>1, <3>2 DEF FlowInv
    <3> QED
      BY <1>1, <1>4, <2>6, <3>1, <3>2
         DEF Fault, DbError, InsertUnacknowledged, EditEvent, LoseEvent, FlowInv
  <2> QED
    BY <1>1, <2>4, <2>5, <2>6 DEF Next, vars, FlowInv
<1> QED
  BY <1>2, <1>3, <1>4, <1>5, QueueShapes DEF Ends

(* A queue stays in order as long as its requests keep their payloads, ... *)
LEMMA OrderKept ==
    ASSUME NEW f, NEW g, NEW i, NEW q \in Seq(Procs), Ordered(f, i, q),
           \A k \in 1 .. Len(q) :
              /\ g[q[k]].pc # "idle" /\ g[q[k]].op = "append"
              /\ g[q[k]].body = f[q[k]].body
    PROVE  Ordered(g, i, q)
<1> SUFFICES ASSUME NEW k \in 1 .. Len(q)
             PROVE  \A l \in 1 .. k - 1 : g[q[l]].body.n < g[q[k]].body.n
  BY DEF Ordered
<1> TAKE l \in 1 .. k - 1
<1>1. Len(q) \in Nat
  OBVIOUS
<1>2. l \in 1 .. Len(q)
  BY <1>1
<1>3. f[q[l]].body.n < f[q[k]].body.n
  BY DEF Ordered
<1> QED
  BY <1>2, <1>3

(* ... when the first one leaves, ... *)
LEMMA OrderTail ==
    ASSUME NEW f, NEW g, NEW i, NEW q \in Seq(Procs), Ordered(f, i, q), q # <<>>,
           f[q[1]].body.n \in Nat,
           \A p \in Procs \ {q[1]} : g[p] = f[p]
    PROVE  Ordered(g, i, Tail(q))
<1> DEFINE t == Tail(q)
<1>1. /\ Len(q) \in Nat /\ Len(q) >= 1 /\ t \in Seq(Procs) /\ Len(t) = Len(q) - 1
      /\ \A k \in 1 .. Len(t) : t[k] = q[k + 1]
      /\ \A k \in 1 .. Len(q) : q[k] \in Procs
  OBVIOUS
<1> HIDE DEF t
<1>2. \A k \in 1 .. Len(t) : k + 1 \in 1 .. Len(q) /\ 1 \in 1 .. (k + 1) - 1
  BY <1>1
<1>3. \A k \in 1 .. Len(t) : t[k] \in Procs \ {q[1]}
  <2> SUFFICES ASSUME NEW k \in 1 .. Len(t), q[k + 1] = q[1] PROVE FALSE
    BY <1>1, <1>2
  <2>1. f[q[1]].body.n < f[q[k + 1]].body.n
    BY <1>2 DEF Ordered
  <2> QED
    BY <2>1
<1>4. ASSUME NEW k \in 1 .. Len(t)
      PROVE  \A l \in 1 .. k - 1 : g[t[l]].body.n < g[t[k]].body.n
  <2> TAKE l \in 1 .. k - 1
  <2>1. l \in 1 .. Len(t) /\ l + 1 \in 1 .. (k + 1) - 1
    BY <1>1
  <2>2. f[q[l + 1]].body.n < f[q[k + 1]].body.n
    BY <1>2, <2>1 DEF Ordered
  <2> QED
    BY <1>1, <1>3, <2>1, <2>2
<1>5. ASSUME NEW k \in 1 .. Len(t)
      PROVE  InstanceOf[t[k]] = i /\ g[t[k]].pc # "idle" /\ g[t[k]].op = "append"
  <2>1. t[k] = q[k + 1] /\ k + 1 \in 1 .. Len(q) /\ g[t[k]] = f[t[k]]
    BY <1>1, <1>2, <1>3
  <2> QED
    BY <2>1 DEF Ordered
<1> QED
  BY <1>4, <1>5 DEF Ordered, t

(* ... and when another one with a greater number joins. *)
LEMMA OrderAppend ==
    ASSUME NEW f, NEW i, NEW q \in Seq(Procs), Ordered(f, i, q), NEW p \in Procs,
           InstanceOf[p] = i, f[p].pc # "idle", f[p].op = "append",
           \A k \in 1 .. Len(q) : f[q[k]].body.n < f[p].body.n
    PROVE  Ordered(f, i, Append(q, p))
<1> DEFINE t == Append(q, p)
<1>1. /\ Len(q) \in Nat /\ Len(t) = Len(q) + 1
      /\ \A k \in 1 .. Len(q) : t[k] = q[k]
      /\ t[Len(q) + 1] = p
  OBVIOUS
<1> HIDE DEF t
<1>2. ASSUME NEW k \in 1 .. Len(t)
      PROVE  /\ InstanceOf[t[k]] = i /\ f[t[k]].pc # "idle" /\ f[t[k]].op = "append"
             /\ \A l \in 1 .. k - 1 : f[t[l]].body.n < f[t[k]].body.n
  <2>1. \A l \in 1 .. k - 1 : l \in 1 .. Len(q) /\ t[l] = q[l]
    BY <1>1
  <2>2. CASE k = Len(q) + 1
    BY <1>1, <2>1, <2>2
  <2>3. CASE k # Len(q) + 1
    <3>1. k \in 1 .. Len(q) /\ t[k] = q[k]
      BY <1>1, <2>3
    <3> QED
      BY <2>1, <3>1 DEF Ordered
  <2> QED
    BY <2>2, <2>3
<1> QED
  BY <1>2 DEF Ordered, t

LEMMA QueueStep ==
    ASSUME FIFOInv, TypeInv', [Next]_vars
    PROVE  QueueInv'
<1>1. TypeInv /\ FlowInv /\ QueueInv
  BY DEF FIFOInv, FlowTypeInv
<1>2. /\ proc \in [Procs -> ProcType] /\ queue \in [Instances -> Seq(Procs)] /\ calls \in Nat
      /\ \A p \in Procs : InstanceOf[p] \in Instances
      /\ \A i \in Instances : queue[i] \in Seq(Procs)
  BY <1>1, ConstantsAssumption DEF TypeInv, TypeOK
<1>3. \A p \in Procs : Appending(p) => proc[p].body.n \in Nat
  BY <1>1 DEF TypeInv, AppendsHoldBody, Appending, Body
<1>4. \A i \in Instances : \A k \in 1 .. Len(queue[i]) :
         queue[i][k] \in Procs /\ InstanceOf[queue[i][k]] = i /\ Appending(queue[i][k])
  <2>1. \A i \in Instances : \A k \in 1 .. Len(queue[i]) : queue[i][k] \in Procs
    BY <1>2
  <2> QED
    BY <1>1, <2>1 DEF QueueInv, Ordered, Appending
<1>5. CASE Moves
  <2>1. \A i \in Instances : Ordered(proc', i, queue[i])
    <3> TAKE i \in Instances
    <3>1. \A k \in 1 .. Len(queue[i]) :
              /\ proc'[queue[i][k]].pc # "idle" /\ proc'[queue[i][k]].op = "append"
              /\ proc'[queue[i][k]].body = proc[queue[i][k]].body
      BY <1>4, <1>5 DEF Moves, Appending
    <3> QED
      BY <1>1, <1>2, <3>1, OrderKept DEF QueueInv
  <2>2. \A p \in Procs : Appending(p)' =>
            proc'[p].body.n <= calls' /\ (proc'[p].pc # "queued" => AtHead(p)')
    BY <1>1, <1>5 DEF Moves, QueueInv, AtHead
  <2> QED
    BY <1>5, <2>1, <2>2 DEF Moves, QueueInv
<1>6. ASSUME NEW p \in Procs, Ends(p) PROVE QueueInv'
  <2> DEFINE i0 == InstanceOf[p]
             q0 == queue[i0]
  <2>1. /\ proc' = [proc EXCEPT ![p] = idle] /\ calls' = calls
        /\ \A q \in Procs \ {p} : proc'[q] = proc[q] /\ (Appending(q)' <=> Appending(q))
        /\ ~Appending(p)'
    BY <1>2, <1>6 DEF Ends, Finish, Appending, idle
  <2>2. ASSUME NEW i \in Instances, \A k \in 1 .. Len(queue[i]) : queue[i][k] # p
        PROVE  Ordered(proc', i, queue[i])
    <3>1. \A k \in 1 .. Len(queue[i]) :
              /\ proc'[queue[i][k]].pc # "idle" /\ proc'[queue[i][k]].op = "append"
              /\ proc'[queue[i][k]].body = proc[queue[i][k]].body
      BY <1>4, <2>1, <2>2 DEF Appending
    <3> QED
      BY <1>1, <1>2, <3>1, OrderKept DEF QueueInv
  <2>3. CASE AtHead(p)
    <3>1. /\ queue' = [queue EXCEPT ![i0] = Tail(q0)] /\ q0 # <<>> /\ q0[1] = p
          /\ q0 \in Seq(Procs) /\ i0 \in Instances
      BY <1>2, <1>6, <2>3 DEF Ends, Finish, Released, AtHead
    <3>2. 1 \in 1 .. Len(q0)
      BY <3>1
    <3>3. proc[q0[1]].body.n \in Nat
      BY <1>3, <1>4, <3>1, <3>2
    <3>4. Ordered(proc', i0, Tail(q0))
      BY <1>1, <2>1, <3>1, <3>3, OrderTail DEF QueueInv
    <3>5. /\ queue'[i0] = Tail(q0)
          /\ \A i \in Instances \ {i0} : queue'[i] = queue[i]
      BY <1>2, <3>1
    <3>6. \A i \in Instances \ {i0} : \A k \in 1 .. Len(queue[i]) : queue[i][k] # p
      BY <1>4
    <3>7. \A i \in Instances : Ordered(proc', i, queue'[i])
      BY <2>2, <3>4, <3>5, <3>6
    <3>8. ASSUME NEW q \in Procs, Appending(q)'
          PROVE  proc'[q].body.n <= calls' /\ (proc'[q].pc # "queued" => AtHead(q)')
      <4>1. q # p /\ Appending(q) /\ proc'[q] = proc[q]
        BY <2>1, <3>8
      <4>2. ASSUME proc[q].pc # "queued" PROVE AtHead(q)'
        <5>1. AtHead(q)
          BY <1>1, <4>1, <4>2 DEF QueueInv
        <5>2. InstanceOf[q] # i0
          BY <2>3, <4>1, <5>1 DEF AtHead
        <5> QED
          BY <1>2, <3>5, <5>1, <5>2 DEF AtHead
      <4> QED
        BY <1>1, <2>1, <4>1, <4>2 DEF QueueInv
    <3> QED
      BY <3>7, <3>8 DEF QueueInv
  <2>4. CASE ~AtHead(p)
    <3>1. queue' = queue
      BY <1>6, <2>4 DEF Ends, Finish, Released
    <3>2. ~Appending(p)
      BY <1>1, <1>6, <2>4 DEF QueueInv, Ends
    <3>3. \A i \in Instances : \A k \in 1 .. Len(queue[i]) : queue[i][k] # p
      BY <1>4, <3>2
    <3>4. \A q \in Procs : Appending(q)' =>
             proc'[q].body.n <= calls' /\ (proc'[q].pc # "queued" => AtHead(q)')
      BY <1>1, <2>1, <3>1 DEF QueueInv, AtHead
    <3> QED
      BY <2>2, <3>1, <3>3, <3>4 DEF QueueInv
  <2> QED
    BY <2>3, <2>4
<1>7. ASSUME NEW p \in Procs, Enqueues(p) PROVE QueueInv'
  <2> DEFINE i0 == InstanceOf[p]
             q0 == queue[i0]
  <2>1. ~Appending(p)
    BY <1>1, <1>7 DEF Enqueues, FlowInv, Appending
  <2>2. /\ calls' = calls + 1 /\ queue' = [queue EXCEPT ![i0] = Append(q0, p)]
        /\ proc'[p].pc = "queued" /\ proc'[p].op = "append" /\ proc'[p].body.n = calls + 1
        /\ \A q \in Procs \ {p} : proc'[q] = proc[q]
    BY <1>2, <1>7 DEF Enqueues, idle
  <2>3. \A i \in Instances : \A k \in 1 .. Len(queue[i]) : queue[i][k] # p
    BY <1>4, <2>1
  <2>4. ASSUME NEW i \in Instances PROVE Ordered(proc', i, queue[i])
    <3>1. \A k \in 1 .. Len(queue[i]) :
              /\ proc'[queue[i][k]].pc # "idle" /\ proc'[queue[i][k]].op = "append"
              /\ proc'[queue[i][k]].body = proc[queue[i][k]].body
      BY <1>4, <2>2, <2>3 DEF Appending
    <3> QED
      BY <1>1, <1>2, <3>1, OrderKept DEF QueueInv
  <2>5. \A k \in 1 .. Len(q0) : proc'[q0[k]].body.n < proc'[p].body.n
    <3> SUFFICES ASSUME NEW k \in 1 .. Len(q0) PROVE proc'[q0[k]].body.n < calls + 1
      BY <2>2
    <3>1. q0[k] \in Procs /\ Appending(q0[k]) /\ proc'[q0[k]] = proc[q0[k]]
      BY <1>2, <1>4, <2>2, <2>3
    <3>2. proc[q0[k]].body.n \in Nat /\ proc[q0[k]].body.n <= calls
      BY <1>1, <1>3, <3>1 DEF QueueInv
    <3> QED
      BY <1>2, <3>1, <3>2
  <2>6. Ordered(proc', i0, Append(q0, p))
    BY <1>2, <2>2, <2>4, <2>5, OrderAppend
  <2>7. queue'[i0] = Append(q0, p) /\ \A i \in Instances \ {i0} : queue'[i] = queue[i]
    BY <1>2, <2>2
  <2>8. \A i \in Instances : Ordered(proc', i, queue'[i])
    BY <2>4, <2>6, <2>7
  <2>9. ASSUME NEW q \in Procs, Appending(q)'
        PROVE  proc'[q].body.n <= calls' /\ (proc'[q].pc # "queued" => AtHead(q)')
    <3>1. CASE q = p
      BY <1>2, <2>2, <3>1
    <3>2. CASE q # p
      <4>1. Appending(q) /\ proc'[q] = proc[q]
        BY <2>2, <2>9, <3>2 DEF Appending
      <4>2. proc[q].body.n <= calls + 1
        BY <1>1, <1>2, <1>3, <4>1 DEF QueueInv
      <4>3. AtHead(q) => AtHead(q)'
        <5>1. Append(q0, p) # <<>> /\ (q0 # <<>> => Head(Append(q0, p)) = Head(q0))
          BY <1>2, AppendProperties, HeadTailAppend
        <5> QED
          BY <1>2, <2>7, <5>1 DEF AtHead
      <4> QED
        BY <1>1, <2>2, <4>1, <4>2, <4>3 DEF QueueInv
    <3> QED
      BY <3>1, <3>2
  <2> QED
    BY <2>8, <2>9 DEF QueueInv
<1>8. ASSUME NEW i0 \in Instances, Crash(i0) PROVE QueueInv'
  <2>1. /\ queue' = [queue EXCEPT ![i0] = <<>>] /\ calls' = calls
        /\ \A q \in Procs : proc'[q] = IF InstanceOf[q] = i0 THEN idle ELSE proc[q]
    BY <1>2, <1>8 DEF Crash
  <2>2. queue'[i0] = <<>> /\ \A i \in Instances \ {i0} : queue'[i] = queue[i]
    BY <1>2, <2>1
  <2>3. ASSUME NEW i \in Instances \ {i0} PROVE Ordered(proc', i, queue[i])
    <3>1. \A k \in 1 .. Len(queue[i]) :
              /\ proc'[queue[i][k]].pc # "idle" /\ proc'[queue[i][k]].op = "append"
              /\ proc'[queue[i][k]].body = proc[queue[i][k]].body
      BY <1>4, <2>1 DEF Appending
    <3> QED
      BY <1>1, <1>2, <3>1, OrderKept DEF QueueInv
  <2>4. Ordered(proc', i0, <<>>)
    BY DEF Ordered
  <2>5. \A i \in Instances : Ordered(proc', i, queue'[i])
    BY <2>2, <2>3, <2>4
  <2>6. ASSUME NEW q \in Procs, Appending(q)'
        PROVE  proc'[q].body.n <= calls' /\ (proc'[q].pc # "queued" => AtHead(q)')
    <3>1. InstanceOf[q] # i0 /\ proc'[q] = proc[q] /\ Appending(q)
      BY <2>1, <2>6 DEF Appending, idle
    <3>2. AtHead(q) => AtHead(q)'
      BY <1>2, <2>2, <3>1 DEF AtHead
    <3> QED
      BY <1>1, <2>1, <3>1, <3>2 DEF QueueInv
  <2> QED
    BY <2>5, <2>6 DEF QueueInv
<1> QED
  BY <1>5, <1>6, <1>7, <1>8, QueueShapes DEF FIFOInv

LEMMA FIFOInit == Init => FIFOInv
<1> SUFFICES ASSUME Init PROVE FIFOInv
  OBVIOUS
<1>1. TypeInv /\ \A p \in Procs : proc[p] = idle
  BY TypeInit DEF Init
<1>2. \A i \in Instances : Ordered(proc, i, queue[i])
  BY DEF Init, Ordered
<1> QED
  BY <1>1, <1>2 DEF FIFOInv, FlowTypeInv, FlowInv, QueueInv, Appending, idle

LEMMA FIFOStep == FIFOInv /\ [Next]_vars => FIFOInv'
BY FlowStep, QueueStep DEF FIFOInv, FlowTypeInv

-----------------------------------------------------------------------------
(***************************************************************************)
(* Payloads.  A payload in flight is in no stored event and behind none,   *)
(* and no two stored events were made for the same one.                    *)
(***************************************************************************)
Pending == {proc[p].body : p \in {q \in Procs : Appending(q)}}

(* No entry of a hash is still in flight. *)
Known(h, pending, n) == \A k \in 1 .. Len(h) : h[k].n <= n /\ h[k] \notin pending

Payload(ev) == ev.hash[Len(ev.hash)]

(* The hash of a stored event is that of the event as it was stored. *)
Genuine(ev) ==
    /\ Payload(ev) \in Body
    /\ ev.hash = Append(ev.prev, Payload(ev))
    /\ ev.body \in {Payload(ev), Damaged}

StoreInv ==
    /\ \A p \in Procs : Known(proc[p].prev, Pending, calls)
    /\ \A e \in EpochIds : \A ev \in events[e] : Genuine(ev) /\ Known(ev.hash, Pending, calls)
    /\ \A e, f \in EpochIds : \A a \in events[e], b \in events[f] :
          Payload(a) = Payload(b) => e = f /\ a = b

AckInv ==
    \A a \in acked :
        /\ a.body.n <= calls /\ a.body \notin Pending
        /\ a.epoch \in Trusted => \E ev \in events[a.epoch] : ev.body = a.body
        /\ \A e \in EpochIds : \A ev \in events[e] : Payload(ev) = a.body => e = a.epoch

IdentityInv == FIFOInv /\ StoreInv /\ AckInv

(* The ways in which a step changes what is stored, in flight or acknowledged. *)
Quiet ==
    /\ UNCHANGED <<events, acked, calls, damaged>>
    /\ Pending' \subseteq Pending
    /\ \A p \in Procs :
         \/ proc'[p].prev \in {proc[p].prev, <<>>}
         \/ \E ev \in events[proc[p].epoch] : proc'[p].prev = ev.hash

Stores(p) ==
    /\ proc[p].pc = "insert"
    /\ ~PrevHashTaken(proc[p].epoch, proc[p].prev)
    /\ Store(p)
    /\ Finish(p)
    /\ acked' \in {acked, acked \cup {[epoch |-> proc[p].epoch, body |-> proc[p].body]}}
    /\ UNCHANGED <<calls, damaged, epochs, incidents, seals, clock>>

Hurts(e, ev) ==
    /\ \/ /\ ev.body # Damaged
          /\ events' = [events EXCEPT ![e] = (@ \ {ev}) \cup {[ev EXCEPT !.body = Damaged]}]
       \/ events' = [events EXCEPT ![e] = @ \ {ev}]
    /\ damaged' = damaged \cup {e}
    /\ damages' = damages + 1
    /\ UNCHANGED <<acked, calls, proc, queue, epochs, incidents, seals, clock>>

LEMMA QuietMove ==
    ASSUME UNCHANGED <<events, acked, calls, damaged>>,
           \A p \in Procs :
             /\ Appending(p)' => Appending(p) /\ proc'[p].body = proc[p].body
             /\ \/ proc'[p].prev \in {proc[p].prev, <<>>}
                \/ \E ev \in events[proc[p].epoch] : proc'[p].prev = ev.hash
    PROVE  Quiet
BY DEF Quiet, Pending

LEMMA QuietFinish ==
    ASSUME TypeInv, NEW p \in Procs, Finish(p), UNCHANGED <<events, acked, calls, damaged>>
    PROVE  Quiet
<1>1. \A q \in Procs : proc'[q] = IF q = p THEN idle ELSE proc[q]
  BY DEF TypeInv, TypeOK, Finish
<1> QED
  BY <1>1, QuietMove DEF Appending, idle

LEMMA StoreShapes ==
    ASSUME FlowTypeInv, [Next]_vars
    PROVE  \/ Quiet
           \/ \E p \in Procs : Enqueues(p)
           \/ \E p \in Procs : Stores(p)
           \/ \E e \in EpochIds : \E ev \in events[e] : Hurts(e, ev)
<1> DEFINE Goal == \/ Quiet
                   \/ \E p \in Procs : Enqueues(p)
                   \/ \E p \in Procs : Stores(p)
                   \/ \E e \in EpochIds : \E ev \in events[e] : Hurts(e, ev)
<1>0. /\ 0 \in EpochIds /\ DefaultEpoch \in EpochIds /\ TypeInv
      /\ proc \in [Procs -> ProcType]
  BY ConstantsAssumption DEF EpochIds, DefaultEpoch, FlowTypeInv, TypeInv, TypeOK
<1>1. ASSUME NEW p \in Procs, Create(p) PROVE Enqueues(p)
  BY <1>0, <1>1 DEF Create, Enqueues
<1>2. ASSUME NEW p \in Procs, Seal(p) PROVE Quiet
  <2>1. \A q \in Procs : q # p => proc'[q] = proc[q]
    BY <1>0, <1>2 DEF Seal
  <2>2. proc'[p].op = "seal" /\ proc'[p].prev = <<>>
    BY <1>0, <1>2 DEF Seal, idle
  <2> QED
    BY <1>2, <2>1, <2>2, QuietMove DEF Seal, Appending
(* Most actions only move the request. *)
<1>3. ASSUME NEW p \in Procs, NEW r, proc' = [proc EXCEPT ![p] = r],
             proc[p].pc # "idle",
             r.op = proc[p].op, r.body = proc[p].body,
             r.prev = proc[p].prev \/ r.prev = <<>> \/ \E ev \in events[proc[p].epoch] : r.prev = ev.hash,
             UNCHANGED <<events, acked, calls, damaged>>
      PROVE  Quiet
  <2>1. \A q \in Procs : proc'[q] = IF q = p THEN r ELSE proc[q]
    BY <1>0, <1>3
  <2> QED
    BY <1>3, <2>1, QuietMove DEF Appending
<1>4. ASSUME NEW p \in Procs, NEW e, EpochFound(p, e), proc[p].pc # "idle",
             UNCHANGED <<events, acked, calls, damaged>>
      PROVE  Quiet
  <2> DEFINE r == [proc[p] EXCEPT !.epoch = e,
                    !.pc = IF proc[p].op = "seal" THEN "verify" ELSE "tail"]
  <2>1. proc' = [proc EXCEPT ![p] = r]
    BY <1>0, <1>4 DEF EpochFound
  <2>2. r.op = proc[p].op /\ r.body = proc[p].body /\ r.prev = proc[p].prev
    BY <1>0 DEF ProcType
  <2> HIDE DEF r
  <2> QED
    BY <1>3, <1>4, <2>1, <2>2
<1>5. ASSUME NEW p \in Procs, NEW pc, Goto(p, pc), proc[p].pc # "idle",
             UNCHANGED <<events, acked, calls, damaged>>
      PROVE  Quiet
  <2> DEFINE r == [proc[p] EXCEPT !.pc = pc]
  <2>1. proc' = [proc EXCEPT ![p] = r]
    BY <1>0, <1>5 DEF Goto
  <2>2. r.op = proc[p].op /\ r.body = proc[p].body /\ r.prev = proc[p].prev
    BY <1>0 DEF ProcType
  <2> HIDE DEF r
  <2> QED
    BY <1>3, <1>5, <2>1, <2>2
<1>6. ASSUME NEW p \in Procs, FindActiveEpoch(p) PROVE Quiet
  <2>1. /\ proc[p].pc # "idle" /\ UNCHANGED <<events, acked, calls, damaged>>
        /\ (\E e \in EpochIds : EpochFound(p, e)) \/ Goto(p, "mkepoch")
    BY <1>6 DEF FindActiveEpoch
  <2> QED
    BY <1>4, <1>5, <2>1
<1>7. ASSUME NEW p \in Procs, CreateDefaultEpoch(p) \/ RefetchActiveEpoch(p) PROVE Quiet
  <2>1. /\ proc[p].pc # "idle" /\ UNCHANGED <<events, acked, calls, damaged>>
        /\ (\E e \in EpochIds : EpochFound(p, e)) \/ Goto(p, "refetch")
    BY <1>0, <1>7 DEF CreateDefaultEpoch, RefetchActiveEpoch
  <2> QED
    BY <1>4, <1>5, <2>1
<1>8. ASSUME NEW p \in Procs, ReadTail(p) PROVE Quiet
  <2>1. /\ proc[p].pc = "tail" /\ UNCHANGED <<events, acked, calls, damaged>>
        /\ \E h : /\ proc' = [proc EXCEPT ![p].pc = "insert", ![p].prev = h]
                  /\ h = <<>> \/ \E ev \in events[proc[p].epoch] : h = ev.hash
    BY <1>8 DEF ReadTail, Tails
  <2>2. PICK h : /\ proc' = [proc EXCEPT ![p].pc = "insert", ![p].prev = h]
                 /\ h = <<>> \/ \E ev \in events[proc[p].epoch] : h = ev.hash
    BY <2>1
  <2> DEFINE r == [proc[p] EXCEPT !.pc = "insert", !.prev = h]
  <2>3. proc' = [proc EXCEPT ![p] = r]
    BY <1>0, <2>2
  <2>4. r.op = proc[p].op /\ r.body = proc[p].body /\ r.prev = h
    BY <1>0 DEF ProcType
  <2> HIDE DEF r
  <2> QED
    BY <1>3, <2>1, <2>2, <2>3, <2>4
<1>9. ASSUME NEW p \in Procs, DuplicatePrevHash(p) PROVE Quiet
  <2>1. proc[p].pc = "insert" /\ UNCHANGED <<events, acked, calls, damaged>>
    BY <1>9 DEF DuplicatePrevHash
  <2>2. CASE Finish(p)
    BY <1>0, <2>1, <2>2, QuietFinish
  <2>3. CASE proc' = [proc EXCEPT ![p].pc = "tail", ![p].tries = @ + 1]
    <3> DEFINE r == [proc[p] EXCEPT !.pc = "tail", !.tries = @ + 1]
    <3>1. proc' = [proc EXCEPT ![p] = r]
      BY <1>0, <2>3
    <3>2. r.op = proc[p].op /\ r.body = proc[p].body /\ r.prev = proc[p].prev
      BY <1>0 DEF ProcType
    <3> HIDE DEF r
    <3> QED
      BY <1>3, <2>1, <3>1, <3>2
  <2> QED
    BY <1>9, <2>2, <2>3 DEF DuplicatePrevHash
<1>10. ASSUME NEW p \in Procs, CreateIncident(p) PROVE Quiet
  <2> DEFINE r == [proc[p] EXCEPT !.pc = "mark", !.now = clock + 1]
  <2>1. proc' = [proc EXCEPT ![p] = r]
    BY <1>0, <1>10 DEF CreateIncident
  <2>2. r.op = proc[p].op /\ r.body = proc[p].body /\ r.prev = proc[p].prev
    BY <1>0 DEF ProcType
  <2>3. proc[p].pc # "idle" /\ UNCHANGED <<events, acked, calls, damaged>>
    BY <1>10 DEF CreateIncident
  <2> HIDE DEF r
  <2> QED
    BY <1>3, <2>1, <2>2, <2>3
<1>11. ASSUME NEW p \in Procs, MarkCompromised(p) PROVE Quiet
  BY <1>5, <1>11 DEF MarkCompromised
<1>12. ASSUME NEW p \in Procs, StartEpoch(p) PROVE Enqueues(p)
  <2>1. proc[p].seal \in EpochIds
    BY <1>0 DEF ProcType
  <2> QED
    BY <1>12, <2>1 DEF StartEpoch, Enqueues
<1>13. ASSUME NEW p \in Procs, TailAmbiguous(p) \/ RefuseSeal(p) \/ DbError(p)
       PROVE  Quiet
  BY <1>0, <1>13, QuietFinish DEF TailAmbiguous, RefuseSeal, DbError
<1>14. ASSUME NEW p \in Procs, Insert(p) \/ InsertUnacknowledged(p) PROVE Stores(p)
  BY <1>14 DEF Insert, InsertUnacknowledged, Stores
<1>15. ASSUME NEW i \in Instances, Crash(i) PROVE Quiet
  <2>1. \A q \in Procs : proc'[q] = IF InstanceOf[q] = i THEN idle ELSE proc[q]
    BY <1>15 DEF Crash
  <2> QED
    BY <1>15, <2>1, QuietMove DEF Crash, Appending, idle
<1>16. ASSUME NEW e \in EpochIds, NEW ev \in events[e], EditEvent(e, ev) \/ LoseEvent(e, ev)
       PROVE  Hurts(e, ev)
  BY <1>16 DEF EditEvent, LoseEvent, Hurts
<1>17. CASE UNCHANGED vars
  BY <1>17, QuietMove DEF vars, Appending
<1>18. ASSUME NEW p \in Procs, AppendStep(p) PROVE Goal
  BY <1>6, <1>7, <1>8, <1>9, <1>13, <1>14, <1>18 DEF AppendStep
<1>19. ASSUME NEW p \in Procs, SealStep(p) PROVE Goal
  BY <1>10, <1>11, <1>12, <1>13, <1>19 DEF SealStep
<1>20. ASSUME Fault PROVE Goal
  <2>1. CASE \E p \in Procs : DbError(p) \/ InsertUnacknowledged(p)
    BY <1>13, <1>14, <2>1
  <2>2. CASE \E i \in Instances : Crash(i)
    BY <1>15, <2>2
  <2>3. CASE \E e \in EpochIds : \E ev \in events[e] : EditEvent(e, ev) \/ LoseEvent(e, ev)
    BY <1>16, <2>3
  <2> QED
    BY <1>20, <2>1, <2>2, <2>3 DEF Fault
<1> HIDE DEF Goal
<1>21. Goal
  BY <1>1, <1>2, <1>17, <1>18, <1>19, <1>20 DEF Next, Goal
<1> QED
  BY <1>21 DEF Goal

LEMMA PendingType ==
    ASSUME FIFOInv
    PROVE  /\ \A b \in Pending : b \in Body /\ b.n \in Nat /\ b.n <= calls
           /\ \A p \in Procs : Appending(p) => proc[p].body \in Pending
BY DEF FIFOInv, FlowTypeInv, TypeInv, AppendsHoldBody, QueueInv, Pending, Appending, Body

LEMMA KnownKept ==
    ASSUME NEW h \in Hash, NEW P, NEW Q, NEW m \in Nat, NEW n \in Nat, Known(h, P, m),
           m <= n, \A b \in Q : b \in P \/ b.n > m
    PROVE  Known(h, Q, n)
<1> SUFFICES ASSUME NEW k \in 1 .. Len(h) PROVE h[k].n <= n /\ h[k] \notin Q
  BY DEF Known
<1>1. h[k] \in Body
  BY ElementOfSeq DEF Hash
<1>2. h[k].n \in Nat
  BY <1>1 DEF Body
<1>3. h[k].n <= m /\ h[k] \notin P
  BY DEF Known
<1> QED
  BY <1>2, <1>3

LEMMA GenuineKnown ==
    ASSUME NEW ev \in Event, Genuine(ev), NEW P, NEW n \in Nat, Known(ev.hash, P, n)
    PROVE  /\ Len(ev.hash) \in 1 .. Len(ev.hash)
           /\ Payload(ev) \notin P /\ Payload(ev).n <= n
           /\ ev.hash \in Hash /\ ev.prev \in Hash /\ Len(ev.hash) = Len(ev.prev) + 1
<1>1. ev.hash \in Hash /\ ev.prev \in Hash
  BY DEF Event
<1>2. Len(ev.hash) = Len(ev.prev) + 1 /\ Len(ev.prev) \in Nat
  BY <1>1, AppendLen DEF Genuine, Hash
<1>3. Len(ev.hash) \in 1 .. Len(ev.hash)
  BY <1>2
<1> QED
  BY <1>1, <1>2, <1>3 DEF Known, Payload

LEMMA IdentityInit == Init => IdentityInv
<1> SUFFICES ASSUME Init PROVE IdentityInv
  OBVIOUS
<1>1. FIFOInv
  BY FIFOInit
<1>2. \A p \in Procs : proc[p].prev = <<>>
  BY DEF Init, idle
<1>3. StoreInv
  BY <1>2 DEF Init, StoreInv, Known
<1> QED
  BY <1>1, <1>3 DEF Init, IdentityInv, AckInv

LEMMA IdentityStep == IdentityInv /\ [Next]_vars => IdentityInv'
<1> SUFFICES ASSUME IdentityInv, [Next]_vars PROVE IdentityInv'
  OBVIOUS
<1>1. /\ FIFOInv /\ FIFOInv' /\ StoreInv /\ AckInv /\ FlowTypeInv
      /\ TypeInv /\ TypeInv'
  BY FIFOStep DEF IdentityInv, FIFOInv, FlowTypeInv
<1>2. /\ events \in [EpochIds -> SUBSET Event] /\ calls \in Nat /\ calls' \in Nat
      /\ \A e \in EpochIds : \A ev \in events[e] : ev \in Event /\ ev.hash \in Hash
      /\ \A p \in Procs : proc[p] \in ProcType /\ proc[p].prev \in Hash
      /\ proc \in [Procs -> ProcType]
      /\ acked \subseteq [epoch : EpochIds, body : Body]
      /\ <<>> \in Hash
  <2>1. <<>> \in Hash
    BY DEF Hash
  <2> QED
    BY <1>1, <2>1 DEF TypeInv, TypeOK, Event, ProcType
<1>3. /\ \A b \in Pending : b \in Body /\ b.n \in Nat /\ b.n <= calls
      /\ \A p \in Procs : Appending(p) => proc[p].body \in Pending
  BY <1>1, PendingType
(* Nothing is known of the empty hash; what is known stays known. *)
<1>4. \A P, n : Known(<<>>, P, n)
  BY DEF Known
<1>5. CASE Quiet
  <2>1. \A h \in Hash : Known(h, Pending, calls) => Known(h, Pending', calls')
    BY <1>2, <1>5, KnownKept DEF Quiet
  <2>2. \A p \in Procs : Known(proc'[p].prev, Pending', calls')
    <3> TAKE p \in Procs
    <3>1. CASE proc'[p].prev = <<>>
      BY <1>4, <3>1
    <3>2. CASE proc'[p].prev = proc[p].prev
      BY <1>1, <1>2, <2>1, <3>2 DEF StoreInv
    <3>3. CASE \E ev \in events[proc[p].epoch] : proc'[p].prev = ev.hash
      <4>1. proc[p].epoch \in EpochIds
        BY <1>2 DEF ProcType
      <4> QED
        BY <1>1, <1>2, <2>1, <3>3, <4>1 DEF StoreInv
    <3> QED
      BY <1>5, <3>1, <3>2, <3>3 DEF Quiet
  <2>3. \A e \in EpochIds : \A ev \in events[e] : Genuine(ev) /\ Known(ev.hash, Pending', calls')
    BY <1>1, <1>2, <2>1 DEF StoreInv
  <2>4. StoreInv'
    BY <1>1, <1>5, <2>2, <2>3 DEF StoreInv, Quiet
  <2>5. Trusted' = Trusted /\ Pending' \subseteq Pending /\ UNCHANGED <<events, acked, calls>>
    BY <1>5 DEF Trusted, Quiet
  <2>6. AckInv'
    BY <1>1, <2>5 DEF AckInv
  <2> QED
    BY <1>1, <2>4, <2>6 DEF IdentityInv
<1>6. ASSUME NEW p \in Procs, Enqueues(p) PROVE IdentityInv'
  <2>1. PICK e \in EpochIds :
            proc' = [proc EXCEPT ![p] =
               [idle EXCEPT !.pc = "queued",
                            !.body = [n |-> calls + 1, by |-> p, starts |-> e]]]
    BY <1>6 DEF Enqueues
  <2> DEFINE b == [n |-> calls + 1, by |-> p, starts |-> e]
  <2>2. /\ proc'[p].prev = <<>> /\ proc'[p].body = b
        /\ \A q \in Procs \ {p} : proc'[q] = proc[q]
    BY <1>2, <2>1 DEF idle
  <2>3. b.n = calls + 1
    OBVIOUS
  <2> HIDE DEF b
  <2>4. \A c \in Pending' : c \in Pending \/ c = b
    BY <2>2 DEF Pending, Appending
  <2>5. \A c \in Pending' : c \in Pending \/ c.n > calls
    BY <1>2, <2>3, <2>4
  <2>6. calls <= calls' /\ UNCHANGED <<events, acked, damaged>>
    BY <1>2, <1>6 DEF Enqueues
  <2>7. \A h \in Hash : Known(h, Pending, calls) => Known(h, Pending', calls')
    BY <1>2, <2>5, <2>6, KnownKept
  <2>8. \A q \in Procs : Known(proc'[q].prev, Pending', calls')
    BY <1>1, <1>2, <1>4, <2>2, <2>7 DEF StoreInv
  <2>9. \A f \in EpochIds : \A ev \in events[f] : Genuine(ev) /\ Known(ev.hash, Pending', calls')
    BY <1>1, <1>2, <2>7 DEF StoreInv
  <2>10. StoreInv'
    BY <1>1, <2>6, <2>8, <2>9 DEF StoreInv
  <2>11. Trusted' = Trusted
    BY <2>6 DEF Trusted
  <2>12. \A a \in acked : a.body.n <= calls' /\ a.body \notin Pending'
    <3> TAKE a \in acked
    <3>1. a.body.n <= calls /\ a.body \notin Pending /\ a.body.n \in Nat
      BY <1>1, <1>2 DEF AckInv, Body
    <3> QED
      BY <1>2, <2>5, <2>6, <3>1
  <2>13. AckInv'
    BY <1>1, <2>6, <2>11, <2>12 DEF AckInv
  <2> QED
    BY <1>1, <2>10, <2>13 DEF IdentityInv
<1>7. ASSUME NEW p \in Procs, Stores(p) PROVE IdentityInv'
  <2> DEFINE f == proc[p].epoch
             b == proc[p].body
             new == NewEvent(p)
  <2>1. /\ f \in EpochIds /\ proc[p].prev \in Hash /\ proc[p].op = "append"
        /\ b \in Body /\ b \in Pending
    BY <1>1, <1>2, <1>3, <1>7 DEF Stores, TypeInv, AppendsHoldBody, ProcType, Appending
  <2>2. \A q \in Procs : proc'[q] = IF q = p THEN idle ELSE proc[q]
    BY <1>2, <1>7 DEF Stores, Finish
  <2>3. Pending' \subseteq Pending \ {b}
    <3> SUFFICES ASSUME NEW q \in Procs, Appending(q)' PROVE proc'[q].body \in Pending /\ proc'[q].body # b
      BY DEF Pending
    <3>1. q # p /\ proc'[q] = proc[q] /\ Appending(q)
      BY <2>2 DEF Appending, idle
    <3>2. proc[q].body.by = q /\ proc[p].body.by = p
      BY <1>1, <1>7, <2>1, <3>1 DEF FlowTypeInv, FlowInv, Appending, Stores
    <3> QED
      BY <1>3, <3>1, <3>2
  <2>4. /\ events' = [events EXCEPT ![f] = @ \cup {new}]
        /\ UNCHANGED <<calls, damaged>> /\ Trusted' = Trusted
        /\ acked' \in {acked, acked \cup {[epoch |-> f, body |-> b]}}
    BY <1>7 DEF Stores, Store, Trusted
  <2>5. /\ new.body = b /\ new.prev = proc[p].prev /\ new.hash = Append(proc[p].prev, b)
        /\ new.hash \in Hash /\ Len(new.hash) = Len(proc[p].prev) + 1
        /\ Payload(new) = b
        /\ \A k \in 1 .. Len(proc[p].prev) : new.hash[k] = proc[p].prev[k]
    BY <2>1, AppendProperties DEF NewEvent, Payload, Hash
  <2>6. Genuine(new)
    BY <2>1, <2>5 DEF Genuine
  <2>7. Known(new.hash, Pending', calls')
    <3> SUFFICES ASSUME NEW k \in 1 .. Len(new.hash)
                 PROVE  new.hash[k].n <= calls /\ new.hash[k] \notin Pending'
      BY <2>4 DEF Known
    <3>1. CASE k = Len(new.hash)
      BY <1>3, <2>1, <2>3, <2>5, <3>1 DEF Payload
    <3>2. CASE k # Len(new.hash)
      <4>1. k \in 1 .. Len(proc[p].prev)
        BY <2>1, <2>5, <3>2 DEF Hash
      <4> QED
        BY <1>1, <2>3, <2>5, <4>1 DEF StoreInv, Known
    <3> QED
      BY <3>1, <3>2
  <2> HIDE DEF new
  <2>8. \A h \in Hash : Known(h, Pending, calls) => Known(h, Pending', calls')
    BY <1>2, <2>3, <2>4, KnownKept
  <2>9. \A q \in Procs : Known(proc'[q].prev, Pending', calls')
    BY <1>1, <1>2, <1>4, <2>2, <2>8 DEF StoreInv, idle
  <2>10. \A e \in EpochIds : \A ev \in events'[e] :
            ev \in events[e] \/ (e = f /\ ev = new)
    BY <1>2, <2>1, <2>4
  <2>11. \A e \in EpochIds : \A ev \in events'[e] : Genuine(ev) /\ Known(ev.hash, Pending', calls')
    BY <1>1, <1>2, <2>6, <2>7, <2>8, <2>10 DEF StoreInv
  <2>12. \A e \in EpochIds : \A ev \in events[e] : Payload(ev) # b
    BY <1>1, <1>2, <2>1, GenuineKnown DEF StoreInv
  <2>13. \A e, g \in EpochIds : \A x \in events'[e], y \in events'[g] :
            Payload(x) = Payload(y) => e = g /\ x = y
    BY <1>1, <2>5, <2>10, <2>12 DEF StoreInv
  <2>14. StoreInv'
    BY <2>9, <2>11, <2>13 DEF StoreInv
  <2>15. new \in events'[f] /\ \A e \in EpochIds : events[e] \subseteq events'[e]
    BY <1>2, <2>1, <2>4
  <2>16. ASSUME NEW a \in acked'
         PROVE  /\ a.body.n <= calls' /\ a.body \notin Pending'
                /\ a.epoch \in Trusted' => \E ev \in events'[a.epoch] : ev.body = a.body
                /\ \A e \in EpochIds : \A ev \in events'[e] : Payload(ev) = a.body => e = a.epoch
    <3>1. CASE a = [epoch |-> f, body |-> b]
      <4>1. a.body = b /\ a.epoch = f
        BY <3>1
      <4> QED
        BY <1>3, <2>1, <2>3, <2>4, <2>5, <2>10, <2>12, <2>15, <4>1
    <3>2. CASE a \in acked
      <4>1. a.body # b /\ a.epoch \in EpochIds
        BY <1>1, <1>2, <2>1, <3>2 DEF AckInv
      <4>2. a.body.n <= calls' /\ a.body \notin Pending'
        BY <1>1, <2>3, <2>4, <3>2 DEF AckInv
      <4>3. a.epoch \in Trusted' => \E ev \in events'[a.epoch] : ev.body = a.body
        BY <1>1, <2>4, <2>15, <3>2, <4>1 DEF AckInv
      <4>4. \A e \in EpochIds : \A ev \in events'[e] : Payload(ev) = a.body => e = a.epoch
        BY <1>1, <2>5, <2>10, <3>2, <4>1 DEF AckInv
      <4> QED
        BY <4>2, <4>3, <4>4
    <3> QED
      BY <2>4, <3>1, <3>2
  <2>17. AckInv'
    BY <2>16 DEF AckInv
  <2> QED
    BY <1>1, <2>14, <2>17 DEF IdentityInv
<1>8. ASSUME NEW e \in EpochIds, NEW ev \in events[e], Hurts(e, ev) PROVE IdentityInv'
  <2>1. UNCHANGED <<acked, calls, proc>> /\ Pending' = Pending
    BY <1>8 DEF Hurts, Pending, Appending
  <2> DEFINE edited == [ev EXCEPT !.body = Damaged]
  <2>2. ev \in Event /\ edited.hash = ev.hash /\ edited.prev = ev.prev /\ edited.body = Damaged
    BY <1>2 DEF Event
  <2>3. Payload(edited) = Payload(ev) /\ Genuine(edited)
    BY <1>1, <2>2 DEF Payload, Genuine, StoreInv
  <2> HIDE DEF edited
  <2>4. /\ \A f \in EpochIds \ {e} : events'[f] = events[f]
        /\ \/ events'[e] = (events[e] \ {ev}) \cup {edited}
           \/ events'[e] = events[e] \ {ev}
    BY <1>2, <1>8 DEF Hurts, edited
  <2>5. \A f \in EpochIds : \A x \in events'[f] :
            (x \in events[f] /\ ~(f = e /\ x = ev)) \/ (f = e /\ x = edited)
    BY <2>4
  <2>6. \A f \in EpochIds : \A x \in events'[f] : Genuine(x) /\ Known(x.hash, Pending', calls')
    BY <1>1, <2>1, <2>2, <2>3, <2>5 DEF StoreInv
  <2>7. \A f, g \in EpochIds : \A x \in events'[f], y \in events'[g] :
            Payload(x) = Payload(y) => f = g /\ x = y
    BY <1>1, <2>3, <2>5 DEF StoreInv
  <2>8. StoreInv'
    BY <1>1, <2>1, <2>6, <2>7 DEF StoreInv
  <2>9. Trusted' = Trusted \ {e}
    BY <1>8 DEF Hurts, Trusted
  <2>10. ASSUME NEW a \in acked
         PROVE  /\ a.body.n <= calls' /\ a.body \notin Pending'
                /\ a.epoch \in Trusted' => \E x \in events'[a.epoch] : x.body = a.body
                /\ \A f \in EpochIds : \A x \in events'[f] : Payload(x) = a.body => f = a.epoch
    <3>1. a.epoch \in EpochIds
      BY <1>2
    <3> QED
      BY <1>1, <2>1, <2>3, <2>4, <2>5, <2>9, <3>1 DEF AckInv
  <2>11. AckInv'
    BY <2>1, <2>10 DEF AckInv
  <2> QED
    BY <1>1, <2>8, <2>11 DEF IdentityInv
<1> QED
  BY <1>1, <1>5, <1>6, <1>7, <1>8, StoreShapes

LEMMA SingletonCard ==
    ASSUME NEW x PROVE Cardinality({x}) = 1
BY FS_Singleton

(***************************************************************************)
(* An acknowledged append is stored in the epoch it was acknowledged for,  *)
(* once, and in no other.                                                  *)
(***************************************************************************)
THEOREM AckedStored == Spec => []AckedOnce
<1>1. ASSUME LineInv, IdentityInv PROVE AckedOnce
  <2> SUFFICES ASSUME NEW a \in acked, a.epoch \in Trusted, NEW e \in EpochIds
               PROVE  Cardinality({ev \in events[e] : ev.body = a.body}) =
                          IF e = a.epoch THEN 1 ELSE 0
    BY DEF AckedOnce
  <2>1. a.body \in Body /\ Damaged \notin Body
    BY <1>1, DamagedAssumption DEF IdentityInv, FIFOInv, FlowTypeInv, TypeInv, TypeOK
  <2>2. \A f \in EpochIds : \A ev \in events[f] : ev.body = a.body => Payload(ev) = a.body
    BY <1>1, <2>1 DEF IdentityInv, StoreInv, Genuine
  <2>3. CASE e = a.epoch
    <3>1. PICK ev \in events[e] : ev.body = a.body
      BY <1>1, <2>3 DEF IdentityInv, AckInv
    <3>2. {x \in events[e] : x.body = a.body} = {ev}
      BY <1>1, <2>2, <3>1 DEF IdentityInv, StoreInv
    <3> QED
      BY <2>3, <3>2, SingletonCard
  <2>4. CASE e # a.epoch
    <3>1. {x \in events[e] : x.body = a.body} = {}
      BY <1>1, <2>2, <2>4 DEF IdentityInv, AckInv
    <3> QED
      BY <2>4, <3>1, FS_EmptySet
  <2> QED
    BY <2>3, <2>4
<1> QED
  BY <1>1, LineInit, LineStep, IdentityInit, IdentityStep, PTL DEF Spec

-----------------------------------------------------------------------------
(***************************************************************************)
(* The order of the events of one instance.  What is stored was submitted  *)
(* before everything that still waits in the queue of the instance.        *)
(***************************************************************************)
Behind(n, local, q) == \A k \in 1 .. Len(q) : n < local[q[k]].body.n

OrderInv ==
    \A e \in Trusted : \A a \in events[e] :
        Behind(a.body.n, proc, queue[InstanceOf[a.body.by]])

LEMMA BehindKept ==
    ASSUME FIFOInv, [Next]_vars, NEW n \in Nat, n <= calls, NEW i \in Instances,
           Behind(n, proc, queue[i])
    PROVE  Behind(n, proc', queue'[i])
<1>1. TypeInv /\ FlowInv /\ QueueInv /\ FlowTypeInv
  BY DEF FIFOInv, FlowTypeInv
<1>2. /\ proc \in [Procs -> ProcType] /\ queue \in [Instances -> Seq(Procs)] /\ calls \in Nat
      /\ \A p \in Procs : InstanceOf[p] \in Instances
      /\ queue[i] \in Seq(Procs) /\ Len(queue[i]) \in Nat
  BY <1>1, ConstantsAssumption DEF TypeInv, TypeOK
<1>3. \A k \in 1 .. Len(queue[i]) :
         /\ queue[i][k] \in Procs /\ InstanceOf[queue[i][k]] = i /\ Appending(queue[i][k])
         /\ n < proc[queue[i][k]].body.n
  <2>1. \A k \in 1 .. Len(queue[i]) : queue[i][k] \in Procs
    BY <1>2
  <2> QED
    BY <1>1, <2>1 DEF QueueInv, Ordered, Appending, Behind
<1>4. CASE Moves
  BY <1>3, <1>4 DEF Moves, Behind
<1>5. ASSUME NEW p \in Procs, Ends(p) PROVE Behind(n, proc', queue'[i])
  <2>1. \A q \in Procs \ {p} : proc'[q] = proc[q]
    BY <1>2, <1>5 DEF Ends, Finish
  <2>2. CASE \A k \in 1 .. Len(queue[i]) : queue[i][k] # p
    <3>1. InstanceOf[p] # i \/ ~AtHead(p)
      <4> SUFFICES ASSUME AtHead(p), InstanceOf[p] = i PROVE FALSE
        OBVIOUS
      <4>1. queue[i] # <<>> /\ Head(queue[i]) = p
        BY DEF AtHead
      <4>2. 1 \in 1 .. Len(queue[i]) /\ queue[i][1] = p
        BY <1>2, <4>1
      <4> QED
        BY <2>2, <4>2
    <3>2. queue'[i] = queue[i]
      BY <1>2, <1>5, <3>1 DEF Ends, Finish, Released
    <3> QED
      BY <1>3, <2>1, <2>2, <3>2 DEF Behind
  <2>3. CASE \E k \in 1 .. Len(queue[i]) : queue[i][k] = p
    <3>1. InstanceOf[p] = i /\ Appending(p)
      BY <1>3, <2>3
    <3>2. AtHead(p)
      BY <1>1, <1>5, <3>1 DEF QueueInv, Ends
    <3>3. queue'[i] = Tail(queue[i]) /\ queue[i] # <<>> /\ queue[i][1] = p
      BY <1>2, <1>5, <3>1, <3>2 DEF Ends, Finish, Released, AtHead
    <3>4. 1 \in 1 .. Len(queue[i]) /\ proc[p].body.n \in Nat
      BY <1>1, <1>2, <3>1, <3>3 DEF TypeInv, AppendsHoldBody, Appending, Body
    <3>5. /\ Tail(queue[i]) \in Seq(Procs) /\ Len(Tail(queue[i])) = Len(queue[i]) - 1
          /\ \A k \in 1 .. Len(Tail(queue[i])) : Tail(queue[i])[k] = queue[i][k + 1]
      BY <1>2, <3>3
    <3>6. ASSUME NEW k \in 1 .. Len(Tail(queue[i])) PROVE n < proc'[Tail(queue[i])[k]].body.n
      <4>1. k + 1 \in 1 .. Len(queue[i]) /\ 1 \in 1 .. (k + 1) - 1
        BY <1>2, <3>5
      <4>2. proc[queue[i][1]].body.n < proc[queue[i][k + 1]].body.n
        BY <1>1, <4>1 DEF QueueInv, Ordered
      <4>3. queue[i][k + 1] # p
        BY <3>3, <3>4, <4>2
      <4>4. proc'[queue[i][k + 1]] = proc[queue[i][k + 1]]
        BY <1>3, <2>1, <4>1, <4>3
      <4> QED
        BY <1>3, <3>5, <4>1, <4>4
    <3> QED
      BY <3>3, <3>6 DEF Behind
  <2> QED
    BY <2>2, <2>3
<1>6. ASSUME NEW p \in Procs, Enqueues(p) PROVE Behind(n, proc', queue'[i])
  <2>1. ~Appending(p)
    BY <1>1, <1>6 DEF Enqueues, FlowInv, Appending
  <2>2. /\ queue' = [queue EXCEPT ![InstanceOf[p]] = Append(@, p)]
        /\ proc'[p].body.n = calls + 1
        /\ \A q \in Procs \ {p} : proc'[q] = proc[q]
    BY <1>2, <1>6 DEF Enqueues, idle
  <2>3. \A k \in 1 .. Len(queue[i]) : n < proc'[queue[i][k]].body.n
    BY <1>3, <2>1, <2>2
  <2>4. CASE InstanceOf[p] # i
    BY <1>2, <2>2, <2>3, <2>4 DEF Behind
  <2>5. CASE InstanceOf[p] = i
    <3>1. /\ queue'[i] = Append(queue[i], p) /\ Len(Append(queue[i], p)) = Len(queue[i]) + 1
          /\ \A k \in 1 .. Len(queue[i]) : Append(queue[i], p)[k] = queue[i][k]
          /\ Append(queue[i], p)[Len(queue[i]) + 1] = p
      BY <1>2, <2>2, <2>5
    <3>2. n < proc'[p].body.n
      BY <1>2, <2>2
    <3>3. ASSUME NEW k \in 1 .. Len(Append(queue[i], p))
          PROVE  n < proc'[Append(queue[i], p)[k]].body.n
      <4>1. k \in 1 .. Len(queue[i]) \/ k = Len(queue[i]) + 1
        BY <1>2, <3>1
      <4> QED
        BY <2>3, <3>1, <3>2, <4>1
    <3> QED
      BY <3>1, <3>3 DEF Behind
  <2> QED
    BY <2>4, <2>5
<1>7. ASSUME NEW j \in Instances, Crash(j) PROVE Behind(n, proc', queue'[i])
  <2>1. /\ queue' = [queue EXCEPT ![j] = <<>>]
        /\ \A q \in Procs : proc'[q] = IF InstanceOf[q] = j THEN idle ELSE proc[q]
    BY <1>7 DEF Crash
  <2>2. CASE i = j
    <3>1. queue'[i] = <<>>
      BY <1>2, <2>1, <2>2
    <3> QED
      BY <3>1 DEF Behind
  <2>3. CASE i # j
    BY <1>2, <1>3, <2>1, <2>3 DEF Behind
  <2> QED
    BY <2>2, <2>3
<1> QED
  BY <1>1, <1>4, <1>5, <1>6, <1>7, QueueShapes

(* The request that stores an event is the first of its queue. *)
LEMMA StoredIsFirst ==
    ASSUME FIFOInv, NEW p \in Procs, Stores(p)
    PROVE  /\ Behind(proc[p].body.n, proc', queue'[InstanceOf[p]])
           /\ InstanceOf[p] \in Instances
           /\ queue[InstanceOf[p]] # <<>> /\ queue[InstanceOf[p]][1] = p
           /\ 1 \in 1 .. Len(queue[InstanceOf[p]])
           /\ proc[p].body \in Body /\ proc[p].body.by = p
<1> DEFINE i == InstanceOf[p]
<1>1. TypeInv /\ FlowInv /\ QueueInv
  BY DEF FIFOInv, FlowTypeInv
<1>2. /\ proc \in [Procs -> ProcType] /\ queue \in [Instances -> Seq(Procs)]
      /\ i \in Instances /\ queue[i] \in Seq(Procs) /\ Len(queue[i]) \in Nat
  BY <1>1, ConstantsAssumption DEF TypeInv, TypeOK
<1>3. Appending(p) /\ AtHead(p) /\ proc[p].body \in Body /\ proc[p].body.by = p
  BY <1>1 DEF Stores, TypeInv, AppendsHoldBody, QueueInv, FlowInv, Appending
<1>4. queue[i] # <<>> /\ queue[i][1] = p /\ queue'[i] = Tail(queue[i])
  BY <1>2, <1>3 DEF AtHead, Stores, Finish, Released
<1>5. /\ Len(queue[i]) >= 1 /\ Len(Tail(queue[i])) = Len(queue[i]) - 1
      /\ \A k \in 1 .. Len(Tail(queue[i])) : Tail(queue[i])[k] = queue[i][k + 1]
      /\ \A k \in 1 .. Len(queue[i]) : queue[i][k] \in Procs
  BY <1>2, <1>4
<1>6. ASSUME NEW k \in 1 .. Len(Tail(queue[i]))
      PROVE  proc[p].body.n < proc'[Tail(queue[i])[k]].body.n
  <2>1. k + 1 \in 1 .. Len(queue[i]) /\ 1 \in 1 .. (k + 1) - 1
    BY <1>2, <1>5
  <2>2. proc[queue[i][1]].body.n < proc[queue[i][k + 1]].body.n
    BY <1>1, <1>2, <2>1 DEF QueueInv, Ordered
  <2>3. proc[p].body.n \in Nat
    BY <1>3 DEF Body
  <2>4. queue[i][k + 1] # p
    BY <1>4, <2>2, <2>3
  <2>5. proc'[queue[i][k + 1]] = proc[queue[i][k + 1]]
    BY <1>2, <1>5, <2>1, <2>4 DEF Stores, Finish
  <2> QED
    BY <1>4, <1>5, <2>2, <2>5
<1>7. Behind(proc[p].body.n, proc', Tail(queue[i]))
  BY <1>6 DEF Behind
<1>8. 1 \in 1 .. Len(queue[i])
  BY <1>2, <1>5
<1> QED
  BY <1>2, <1>3, <1>4, <1>7, <1>8

ChainInv == LineInv /\ IdentityInv
FIFOChainInv == ChainInv /\ OrderInv /\ InstanceOrder

(* The event of a request that stores it fits behind the chain. *)
LEMMA StoredFits ==
    ASSUME LineInv, NEW p \in Procs, Stores(p), proc[p].epoch \in Trusted
    PROVE  /\ proc[p].epoch \in EpochIds
           /\ events[proc[p].epoch] \in SUBSET Event
           /\ Line(events[proc[p].epoch])
           /\ proc[p].body \in Body /\ proc[p].prev \in Hash
           /\ \A ev \in events[proc[p].epoch] : ev.prev # proc[p].prev
           /\ proc[p].prev = <<>> \/ \E ev \in events[proc[p].epoch] : ev.hash = proc[p].prev
BY DEF LineInv, TypeInv, TypeOK, ProcType, AppendsHoldBody, PendingInsert, PrevHashTaken,
       Stores

LEMMA OrderStep == FIFOChainInv /\ [Next]_vars => FIFOChainInv'
<1> SUFFICES ASSUME FIFOChainInv, [Next]_vars PROVE FIFOChainInv'
  OBVIOUS
<1>1. /\ LineInv /\ IdentityInv /\ OrderInv /\ InstanceOrder /\ FIFOInv /\ FlowTypeInv
      /\ LineInv' /\ IdentityInv' /\ TypeInv
  BY LineStep, IdentityStep DEF FIFOChainInv, ChainInv, IdentityInv, FIFOInv, FlowTypeInv
<1>2. /\ events \in [EpochIds -> SUBSET Event] /\ calls \in Nat
      /\ InstanceOf \in [Procs -> Instances]
      /\ Trusted \subseteq EpochIds
  BY <1>1, ConstantsAssumption DEF TypeInv, TypeOK, Trusted
<1>3. \A e \in Trusted : \A a \in events[e] :
        /\ a.body \in Body /\ a.body.n \in Nat /\ a.body.n <= calls
        /\ InstanceOf[a.body.by] \in Instances /\ a \in Event
  <2> TAKE e \in Trusted
  <2> TAKE a \in events[e]
  <2>1. a \in Event /\ a.body \in Body /\ Genuine(a) /\ Known(a.hash, Pending, calls)
    BY <1>1, <1>2 DEF LineInv, Line, WellFormed, IdentityInv, StoreInv
  <2>2. a.body = Payload(a)
    BY <2>1, DamagedAssumption DEF Genuine
  <2>3. a.body.n <= calls
    BY <1>2, <2>1, <2>2, GenuineKnown
  <2> QED
    BY <1>2, <2>1, <2>3 DEF Body
<1>4. \A e \in Trusted : \A a \in events[e] :
        Behind(a.body.n, proc', queue'[InstanceOf[a.body.by]])
  BY <1>1, <1>3, BehindKept DEF OrderInv
<1>5. ASSUME \A e \in Trusted' : e \in Trusted /\ events'[e] = events[e] PROVE FIFOChainInv'
  <2>1. OrderInv'
    BY <1>4, <1>5 DEF OrderInv
  <2>2. InstanceOrder'
    BY <1>1, <1>5 DEF InstanceOrder
  <2> QED
    BY <1>1, <2>1, <2>2 DEF FIFOChainInv, ChainInv
<1>6. ASSUME NEW p \in Procs, Stores(p) PROVE FIFOChainInv'
  <2> DEFINE f == proc[p].epoch
             new == NewEvent(p)
  <2>1. /\ f \in EpochIds /\ Trusted' = Trusted
        /\ events' = [events EXCEPT ![f] = @ \cup {new}]
    BY <1>1, <1>6 DEF TypeInv, TypeOK, ProcType, Stores, Store, Trusted
  <2>2. /\ Behind(proc[p].body.n, proc', queue'[InstanceOf[p]])
        /\ queue[InstanceOf[p]] # <<>> /\ queue[InstanceOf[p]][1] = p
        /\ 1 \in 1 .. Len(queue[InstanceOf[p]])
        /\ proc[p].body \in Body /\ proc[p].body.by = p
    BY <1>1, <1>6, StoredIsFirst
  <2>3. new.body = proc[p].body /\ new.hash = Append(proc[p].prev, proc[p].body)
    BY DEF NewEvent
  <2> HIDE DEF new
  <2>4. \A e \in Trusted : \A a \in events'[e] : a \in events[e] \/ (e = f /\ a = new)
    BY <1>2, <2>1
  <2>5. OrderInv'
    BY <1>4, <2>1, <2>2, <2>3, <2>4 DEF OrderInv
  <2>6. ASSUME NEW e \in Trusted, NEW a \in events'[e], NEW b \in events'[e],
               InstanceOf[a.body.by] = InstanceOf[b.body.by], a.body.n < b.body.n
        PROVE  Precedes(a, b)
    <3>1. CASE a \in events[e] /\ b \in events[e]
      BY <1>1, <2>6, <3>1 DEF InstanceOrder
    <3>2. CASE e = f /\ a = new /\ b = new
      <4>1. new.body.n \in Nat
        BY <2>2, <2>3 DEF Body
      <4> QED
        BY <2>6, <3>2, <4>1
    <3>3. CASE e = f /\ a = new /\ b \in events[e]
      <4>1. Behind(b.body.n, proc, queue[InstanceOf[b.body.by]])
        BY <1>1, <3>3 DEF OrderInv
      <4>2. InstanceOf[b.body.by] = InstanceOf[p]
        BY <2>2, <2>3, <2>6, <3>3
      <4>3. b.body.n < proc[p].body.n
        BY <2>2, <4>1, <4>2 DEF Behind
      <4>4. b.body.n \in Nat /\ proc[p].body.n \in Nat
        BY <1>3, <2>2, <3>3 DEF Body
      <4> QED
        BY <2>3, <2>6, <3>3, <4>3, <4>4
    <3>4. CASE e = f /\ a \in events[e] /\ b = new
      BY <1>1, <1>6, <2>3, <3>4, StoredFits, BeforeNew
    <3> QED
      BY <2>4, <3>1, <3>2, <3>3, <3>4
  <2>7. InstanceOrder'
    BY <2>1, <2>6 DEF InstanceOrder
  <2> QED
    BY <1>1, <2>5, <2>7 DEF FIFOChainInv, ChainInv
<1>7. CASE Quiet
  <2>1. Trusted' = Trusted /\ events' = events
    BY <1>7 DEF Quiet, Trusted
  <2> QED
    BY <1>5, <2>1
<1>8. ASSUME NEW p \in Procs, Enqueues(p) PROVE FIFOChainInv'
  <2>1. Trusted' = Trusted /\ events' = events
    BY <1>8 DEF Enqueues, Trusted
  <2> QED
    BY <1>5, <2>1
<1>9. ASSUME NEW e \in EpochIds, NEW ev \in events[e], Hurts(e, ev) PROVE FIFOChainInv'
  <2>1. \A f \in Trusted' : f \in Trusted /\ events'[f] = events[f]
    BY <1>2, <1>9 DEF Hurts, Trusted
  <2> QED
    BY <1>5, <2>1
<1> QED
  BY <1>1, <1>6, <1>7, <1>8, <1>9, StoreShapes

LEMMA OrderInit == Init => FIFOChainInv
<1> SUFFICES ASSUME Init PROVE FIFOChainInv
  OBVIOUS
<1>1. LineInv /\ IdentityInv
  BY LineInit, IdentityInit
<1>2. \A e \in Trusted : events[e] = {}
  BY DEF Init, Trusted
<1> QED
  BY <1>1, <1>2 DEF FIFOChainInv, ChainInv, OrderInv, InstanceOrder

(***************************************************************************)
(* The events of one instance are linked in the order in which create()    *)
(* was called, whatever had to be retried.                                 *)
(***************************************************************************)
THEOREM InstanceInOrder == Spec => []InstanceOrder
<1>1. FIFOChainInv => InstanceOrder
  BY DEF FIFOChainInv
<1> QED
  BY <1>1, OrderInit, OrderStep, PTL DEF Spec

-----------------------------------------------------------------------------
(***************************************************************************)
(* What verifyChain finds.  The k-th level of its walk holds the events    *)
(* with k + 1 entries all of whose prefixes are stored.                    *)
(***************************************************************************)
Level(evs, k) ==
    {ev \in evs : /\ Len(ev.hash) = k + 1
                  /\ \A j \in 1 .. k + 1 : \E c \in evs : c.hash = SubSeq(ev.hash, 1, j)}

LEMMA GenuineHash ==
    ASSUME NEW ev \in Event, Genuine(ev)
    PROVE  /\ ev.hash \in Hash /\ ev.prev \in Hash /\ Len(ev.prev) \in Nat
           /\ Len(ev.hash) = Len(ev.prev) + 1
           /\ \A j \in 0 .. Len(ev.prev) : SubSeq(ev.hash, 1, j) = SubSeq(ev.prev, 1, j)
           /\ SubSeq(ev.hash, 1, Len(ev.prev)) = ev.prev
           /\ SubSeq(ev.hash, 1, Len(ev.hash)) = ev.hash
<1>1. ev.hash \in Seq(Body) /\ ev.prev \in Seq(Body) /\ Payload(ev) \in Body
  BY DEF Event, Hash, Genuine
<1>2. ev.hash = Append(ev.prev, Payload(ev))
  BY DEF Genuine
<1> QED
  BY <1>1, <1>2, AppendLen, AppendPrefix, WholePrefix DEF Hash

LEMMA FirstLevel ==
    ASSUME NEW evs \in SUBSET Event, \A ev \in evs : Genuine(ev)
    PROVE  Level(evs, 0) = {ev \in evs : ev.prev = <<>>}
<1> SUFFICES ASSUME NEW ev \in evs PROVE ev \in Level(evs, 0) <=> ev.prev = <<>>
  BY DEF Level
<1>1. /\ ev.prev \in Hash /\ Len(ev.prev) \in Nat /\ Len(ev.hash) = Len(ev.prev) + 1
      /\ SubSeq(ev.hash, 1, Len(ev.hash)) = ev.hash
  BY GenuineHash
<1>2. ev.prev = <<>> <=> Len(ev.prev) = 0
  BY <1>1, EmptySeq DEF Hash
<1>3. ASSUME ev.prev = <<>> PROVE ev \in Level(evs, 0)
  <2>1. \A j \in 1 .. 0 + 1 : SubSeq(ev.hash, 1, j) = ev.hash
    BY <1>1, <1>2, <1>3
  <2> QED
    BY <1>1, <1>2, <1>3, <2>1 DEF Level
<1>4. ASSUME ev \in Level(evs, 0) PROVE ev.prev = <<>>
  <2>1. Len(ev.hash) = 1
    BY <1>4 DEF Level
  <2>2. ASSUME NEW a \in Nat, a + 1 = 1 PROVE a = 0
    BY <2>2
  <2>3. Len(ev.prev) + 1 = 1
    BY <1>1, <2>1
  <2>4. Len(ev.prev) = 0
    BY <1>1, <2>2, <2>3
  <2> QED
    BY <1>2, <2>4
<1> QED
  BY <1>3, <1>4

LEMMA NextLevel ==
    ASSUME NEW evs \in SUBSET Event, \A ev \in evs : Genuine(ev), NEW k \in Nat \ {0}
    PROVE  Level(evs, k) =
              {ev \in evs : \E before \in Level(evs, k - 1) : ev.prev = before.hash}
<1> SUFFICES ASSUME NEW ev \in evs
             PROVE  ev \in Level(evs, k) <=> \E before \in Level(evs, k - 1) : ev.prev = before.hash
  BY DEF Level
<1>1. /\ ev.hash \in Hash /\ ev.prev \in Hash /\ Len(ev.prev) \in Nat
      /\ Len(ev.hash) = Len(ev.prev) + 1
      /\ \A j \in 0 .. Len(ev.prev) : SubSeq(ev.hash, 1, j) = SubSeq(ev.prev, 1, j)
      /\ SubSeq(ev.hash, 1, Len(ev.prev)) = ev.prev
      /\ SubSeq(ev.hash, 1, Len(ev.hash)) = ev.hash
  BY GenuineHash
<1>2. ASSUME ev \in Level(evs, k)
      PROVE  \E before \in Level(evs, k - 1) : ev.prev = before.hash
  <2>1. Len(ev.prev) = k /\ k \in 1 .. k + 1
    BY <1>1, <1>2 DEF Level
  <2>2. PICK c \in evs : c.hash = SubSeq(ev.hash, 1, k)
    BY <1>2, <2>1 DEF Level
  <2>3. c.hash = ev.prev
    BY <1>1, <2>1, <2>2
  <2>4. ASSUME NEW j \in 1 .. (k - 1) + 1 PROVE \E d \in evs : d.hash = SubSeq(c.hash, 1, j)
    <3>1. j \in 1 .. k + 1 /\ j \in 0 .. Len(ev.prev)
      BY <2>1
    <3>2. PICK d \in evs : d.hash = SubSeq(ev.hash, 1, j)
      BY <1>2, <3>1 DEF Level
    <3> QED
      BY <1>1, <2>3, <3>1, <3>2
  <2>5. Len(c.hash) = (k - 1) + 1
    BY <2>1, <2>3
  <2>6. c \in Level(evs, k - 1)
    BY <2>4, <2>5 DEF Level
  <2> QED
    BY <2>3, <2>6
<1>3. ASSUME NEW c \in Level(evs, k - 1), ev.prev = c.hash
      PROVE  ev \in Level(evs, k)
  <2>1. c \in evs /\ Len(ev.prev) = k /\ Len(ev.hash) = k + 1
    BY <1>1, <1>3 DEF Level
  <2>2. ASSUME NEW j \in 1 .. k + 1 PROVE \E d \in evs : d.hash = SubSeq(ev.hash, 1, j)
    <3>1. CASE j = k + 1
      BY <1>1, <2>1, <3>1
    <3>2. CASE j # k + 1
      <4>1. j \in 1 .. (k - 1) + 1 /\ j \in 0 .. Len(ev.prev)
        BY <2>1, <3>2
      <4>2. PICK d \in evs : d.hash = SubSeq(c.hash, 1, j)
        BY <4>1 DEF Level
      <4> QED
        BY <1>1, <1>3, <4>1, <4>2
    <3> QED
      BY <3>1, <3>2
  <2> QED
    BY <2>1, <2>2 DEF Level
<1> QED
  BY <1>2, <1>3

(* Every set of numbers has a least one, which serves for induction on k.    *)
LEMMA LeastNumber ==
    ASSUME NEW T, T \subseteq Nat, T # {}
    PROVE  \E m \in T : \A j \in T : ~(j < m)
<1>1. PICK R : IsWellFoundedOn(R, Nat) /\ \A i, j \in Nat : i < j => <<i, j>> \in R
  BY NatLessThanWellFounded DEF OpToRel
<1>2. \E m \in T : \A j \in T : ~(<<j, m>> \in R)
  <2>1. IsWellFoundedOn(R, Nat)
    BY <1>1
  <2> QED
    BY <2>1, WFMin, Zenon
<1> QED
  BY <1>1, <1>2

LEMMA WalkLevels ==
    ASSUME NEW evs \in SUBSET Event, \A ev \in evs : Genuine(ev), IsFiniteSet(evs)
    PROVE  \A k \in 0 .. Cardinality(evs) : Walk(evs)[k] = Level(evs, k)
<1> DEFINE n == Cardinality(evs)
           Rule(f) == [k \in 0 .. n |->
                IF k = 0 THEN {ev \in evs : ev.prev = <<>>}
                ELSE {ev \in evs : \E before \in f[k - 1] : ev.prev = before.hash}]
           levels == [k \in 0 .. n |-> Level(evs, k)]
<1>1. n \in Nat
  BY FS_CardinalityType
<1>2. levels = Rule(levels)
  <2> SUFFICES ASSUME NEW k \in 0 .. n
               PROVE  Level(evs, k) = IF k = 0 THEN {ev \in evs : ev.prev = <<>>}
                        ELSE {ev \in evs : \E before \in levels[k - 1] : ev.prev = before.hash}
    OBVIOUS
  <2>1. CASE k = 0
    BY <2>1, FirstLevel
  <2>2. CASE k # 0
    <3>1. k \in Nat \ {0} /\ k - 1 \in 0 .. n
      BY <1>1, <2>2
    <3> QED
      BY <2>2, <3>1, NextLevel
  <2> QED
    BY <2>1, <2>2
<1>3. Walk(evs) = CHOOSE f : f = Rule(f)
  BY DEF Walk
<1>4. Walk(evs) = Rule(Walk(evs))
  <2> HIDE DEF levels, Rule
  <2> QED
    BY <1>2, <1>3
<1> DEFINE bad == {k \in 0 .. n : Walk(evs)[k] # Level(evs, k)}
<1>5. SUFFICES ASSUME bad # {} PROVE FALSE
  OBVIOUS
<1>6. PICK m \in bad : \A j \in bad : ~(j < m)
  <2>1. bad \subseteq Nat
    BY <1>1
  <2> HIDE DEF bad
  <2> QED
    BY <1>5, <2>1, LeastNumber
<1>7. m \in 0 .. n /\ m \in Nat
  BY <1>1
<1> SUFFICES Walk(evs)[m] = Level(evs, m)
  OBVIOUS
<1>8. Walk(evs)[m] = IF m = 0 THEN {ev \in evs : ev.prev = <<>>}
                     ELSE {ev \in evs : \E before \in Walk(evs)[m - 1] : ev.prev = before.hash}
  BY <1>4, <1>7
<1>9. CASE m = 0
  BY <1>8, <1>9, FirstLevel
<1>10. CASE m # 0
  <2>1. m - 1 \in 0 .. n /\ m - 1 < m /\ m \in Nat \ {0}
    BY <1>1, <1>7, <1>10
  <2>2. Walk(evs)[m - 1] = Level(evs, m - 1)
    BY <1>6, <2>1
  <2> QED
    BY <1>8, <1>10, <2>1, <2>2, NextLevel
<1> QED
  BY <1>9, <1>10

-----------------------------------------------------------------------------
(* The chain of a trusted epoch has one event of each length up to its size. *)
Counted(evs) ==
    /\ \A ev \in evs : Len(ev.hash) <= Cardinality(evs)
    /\ \A k \in 1 .. Cardinality(evs) : \E ev \in evs : Len(ev.hash) = k

(* The unique index, which holds of damaged epochs as well: an edit keeps the *)
(* link of an event, a loss takes it away.                                     *)
OnePrev(evs) == \A a, b \in evs : a.prev = b.prev => a = b

VerifyInv ==
    /\ ChainInv
    /\ \A e \in EpochIds : IsFiniteSet(events[e]) /\ OnePrev(events[e])
    /\ \A e \in Trusted : Counted(events[e])

LEMMA CountNew ==
    ASSUME NEW evs \in SUBSET Event, Line(evs), IsFiniteSet(evs), Counted(evs),
           NEW body \in Body, NEW prev \in Hash,
           \A ev \in evs : ev.prev # prev,
           prev = <<>> \/ \E ev \in evs : ev.hash = prev,
           NEW new, new.prev = prev, new.hash = Append(prev, body)
    PROVE  /\ Len(prev) = Cardinality(evs)
           /\ Cardinality(evs \cup {new}) = Cardinality(evs) + 1
           /\ Counted(evs \cup {new})
<1> DEFINE n == Cardinality(evs)
           all == evs \cup {new}
<1>1. n \in Nat /\ Len(prev) \in Nat /\ Len(new.hash) = Len(prev) + 1
  BY FS_CardinalityType, AppendLen DEF Hash
<1>2. new \notin evs
  OBVIOUS
<1>3. Cardinality(all) = n + 1
  BY <1>2, FS_AddElement
<1>4. \A b \in evs : Len(b.hash) <= Len(prev)
  BY BeforeNew
<1>5. Len(prev) = n
  <2>1. CASE n = 0
    <3>1. evs = {}
      BY <2>1, FS_EmptySet
    <3> QED
      BY <2>1, <3>1
  <2>2. CASE n # 0
    <3>1. n \in 1 .. n
      BY <1>1, <2>2
    <3>2. PICK t \in evs : Len(t.hash) = n
      BY <3>1 DEF Counted
    <3>3. prev # <<>>
      <4> SUFFICES ASSUME prev = <<>> PROVE FALSE
        OBVIOUS
      <4>1. evs = {}
        BY NoGenesisNoEvents
      <4> QED
        BY <3>2, <4>1
    <3>4. Len(prev) <= n
      BY <3>3 DEF Counted
    <3> QED
      BY <1>1, <1>4, <3>2, <3>4
  <2> QED
    BY <2>1, <2>2
<1> HIDE DEF n, all
<1>6. ASSUME NEW ev \in all PROVE Len(ev.hash) <= n + 1
  <2>1. CASE ev = new
    BY <1>1, <1>5, <2>1
  <2>2. CASE ev \in evs
    <3>1. Len(ev.hash) \in Nat
      BY <2>2 DEF Event, Hash
    <3> QED
      BY <1>1, <1>4, <1>5, <2>2, <3>1
  <2> QED
    BY <2>1, <2>2 DEF all
<1>7. ASSUME NEW k \in 1 .. n + 1 PROVE \E ev \in all : Len(ev.hash) = k
  <2>1. CASE k = n + 1
    BY <1>1, <1>5, <2>1 DEF all
  <2>2. CASE k # n + 1
    <3>1. k \in 1 .. n
      BY <1>1, <2>2
    <3> QED
      BY <3>1 DEF Counted, n, all
  <2> QED
    BY <2>1, <2>2
<1>8. Counted(all)
  BY <1>3, <1>6, <1>7 DEF Counted
<1> QED
  BY <1>3, <1>5, <1>8 DEF n, all

LEMMA VerifyInit == Init => VerifyInv
<1> SUFFICES ASSUME Init PROVE VerifyInv
  OBVIOUS
<1>1. ChainInv
  BY LineInit, IdentityInit DEF ChainInv
<1>2. \A e \in EpochIds : events[e] = {}
  BY DEF Init
<1>3. IsFiniteSet({}) /\ Counted({}) /\ OnePrev({})
  BY FS_EmptySet DEF Counted, OnePrev
<1>4. Trusted \subseteq EpochIds /\ damaged = {}
  BY DEF Init, Trusted
<1> QED
  BY <1>1, <1>2, <1>3, <1>4 DEF VerifyInv

LEMMA VerifyStep == VerifyInv /\ [Next]_vars => VerifyInv'
<1> SUFFICES ASSUME VerifyInv, [Next]_vars PROVE VerifyInv'
  OBVIOUS
<1>1. /\ ChainInv /\ LineInv /\ IdentityInv /\ StoreInv /\ FlowTypeInv /\ TypeInv
      /\ ChainInv' /\ FIFOInv
  BY LineStep, IdentityStep DEF VerifyInv, ChainInv, IdentityInv, FIFOInv, FlowTypeInv
<1>2. /\ events \in [EpochIds -> SUBSET Event]
      /\ Trusted \subseteq EpochIds /\ damaged \subseteq EpochIds
      /\ \A e \in EpochIds : IsFiniteSet(events[e]) /\ OnePrev(events[e])
      /\ \A e \in Trusted : Counted(events[e])
  BY <1>1 DEF TypeInv, TypeOK, Trusted, VerifyInv
<1>3. ASSUME UNCHANGED <<events, damaged>> PROVE VerifyInv'
  BY <1>1, <1>2, <1>3 DEF VerifyInv, Trusted
<1>4. ASSUME NEW p \in Procs, Stores(p) PROVE VerifyInv'
  <2> DEFINE f == proc[p].epoch
             new == NewEvent(p)
             prev == proc[p].prev
             body == proc[p].body
  <2>1. /\ f \in EpochIds /\ prev \in Hash /\ body \in Body /\ body \in Pending
        /\ Trusted' = Trusted /\ damaged' = damaged
        /\ events' = [events EXCEPT ![f] = @ \cup {new}]
    BY <1>1, <1>4, PendingType
       DEF TypeInv, TypeOK, ProcType, AppendsHoldBody, Stores, Store, Trusted, Appending
  <2>2. new.prev = prev /\ new.hash = Append(prev, body)
    BY DEF NewEvent
  <2>3. Len(prev) \in Nat /\ Len(new.hash) = Len(prev) + 1 /\ new.hash[Len(prev) + 1] = body
    BY <2>1, <2>2, AppendProperties DEF Hash
  <2> HIDE DEF new
  <2>4. \A e \in EpochIds : events'[e] = IF e = f THEN events[f] \cup {new} ELSE events[e]
    BY <1>2, <2>1
  <2>5. \A e \in EpochIds : IsFiniteSet(events'[e])
    <3>1. IsFiniteSet(events[f])
      BY <1>2, <2>1
    <3>2. IsFiniteSet(events[f] \cup {new})
      BY <3>1, FS_AddElement
    <3>3. ASSUME NEW e \in EpochIds, e = f PROVE IsFiniteSet(events'[e])
      <4>1. events'[e] = events[f] \cup {new}
        BY <2>4, <3>3
      <4> QED
        BY <3>2, <4>1
    <3>4. ASSUME NEW e \in EpochIds, e # f PROVE IsFiniteSet(events'[e])
      <4>1. events'[e] = events[e]
        BY <2>4, <3>4
      <4> QED
        BY <1>2, <4>1
    <3> QED
      BY <3>3, <3>4
  <2>6. ASSUME f \in Trusted PROVE Counted(events[f] \cup {new})
    BY <1>1, <1>2, <1>4, <2>1, <2>2, <2>6, StoredFits, CountNew
  <2>7. \A e \in Trusted' : Counted(events'[e])
    BY <1>2, <2>1, <2>4, <2>6
  <2>8. ASSUME NEW e \in EpochIds PROVE OnePrev(events'[e])
    <3>1. OnePrev(events[e]) /\ \A ev \in events[f] : ev.prev # prev
      BY <1>2, <1>4 DEF Stores, PrevHashTaken
    <3> QED
      BY <2>2, <2>4, <3>1 DEF OnePrev
  <2> QED
    BY <1>1, <2>5, <2>7, <2>8 DEF VerifyInv
<1>5. ASSUME NEW e \in EpochIds, NEW ev \in events[e], Hurts(e, ev) PROVE VerifyInv'
  <2> DEFINE edited == [ev EXCEPT !.body = Damaged]
  <2>1. edited.prev = ev.prev
    BY <1>2 DEF Event
  <2> HIDE DEF edited
  <2>2. /\ \A f \in EpochIds \ {e} : events'[f] = events[f]
        /\ \/ events'[e] = (events[e] \ {ev}) \cup {edited}
           \/ events'[e] = events[e] \ {ev}
        /\ damaged' = damaged \cup {e} /\ Trusted' = Trusted \ {e}
    BY <1>2, <1>5 DEF Hurts, Trusted, edited
  <2>3. IsFiniteSet(events'[e])
    <3>1. IsFiniteSet(events[e])
      BY <1>2
    <3>2. IsFiniteSet(events[e] \ {ev})
      BY <3>1, FS_RemoveElement
    <3>3. IsFiniteSet((events[e] \ {ev}) \cup {edited})
      BY <3>2, FS_AddElement
    <3> QED
      BY <2>2, <3>2, <3>3
  <2>4. OnePrev(events'[e])
    <3>1. OnePrev(events[e])
      BY <1>2
    <3> QED
      BY <2>1, <2>2, <3>1 DEF OnePrev
  <2> QED
    BY <1>1, <1>2, <2>2, <2>3, <2>4 DEF VerifyInv
<1>6. CASE Quiet
  BY <1>3, <1>6 DEF Quiet
<1>7. ASSUME NEW p \in Procs, Enqueues(p) PROVE VerifyInv'
  BY <1>3, <1>7 DEF Enqueues
<1> QED
  BY <1>1, <1>4, <1>5, <1>6, <1>7, StoreShapes

(* In an epoch without gaps no two events have the same length: the shortest  *)
(* two that had would follow the same event.                                  *)
LEMMA SameLength ==
    ASSUME NEW evs \in SUBSET Event, \A ev \in evs : Genuine(ev), OnePrev(evs), NoGaps(evs)
    PROVE  \A a, b \in evs : Len(a.hash) = Len(b.hash) => a = b
<1> DEFINE twice == {k \in Nat : \E a, b \in evs : Len(a.hash) = k /\ Len(b.hash) = k /\ a # b}
<1>1. ASSUME NEW ev \in evs
      PROVE  /\ Len(ev.hash) \in Nat \ {0} /\ Len(ev.prev) = Len(ev.hash) - 1
             /\ SubSeq(ev.hash, 1, Len(ev.hash) - 1) = ev.prev
             /\ Len(ev.hash) = 1 => ev.prev = <<>>
  <2>1. ev \in Event /\ Genuine(ev)
    OBVIOUS
  <2>2. /\ ev.prev \in Hash /\ Len(ev.prev) \in Nat /\ Len(ev.hash) = Len(ev.prev) + 1
        /\ SubSeq(ev.hash, 1, Len(ev.prev)) = ev.prev
    BY <2>1, GenuineHash
  <2>3. Len(ev.prev) = Len(ev.hash) - 1
    BY <2>2
  <2> QED
    BY <2>2, <2>3 DEF Hash
<1>2. SUFFICES ASSUME twice # {} PROVE FALSE
  BY <1>1
<1>3. PICK m \in twice : \A j \in twice : ~(j < m)
  <2>1. twice \subseteq Nat
    OBVIOUS
  <2> HIDE DEF twice
  <2> QED
    BY <1>2, <2>1, LeastNumber
<1>4. PICK a \in evs, b \in evs : Len(a.hash) = m /\ Len(b.hash) = m /\ a # b
  OBVIOUS
<1>5. m \in Nat \ {0}
  BY <1>1, <1>4
<1>6. CASE m = 1
  BY <1>1, <1>4, <1>6 DEF OnePrev
<1>7. CASE m # 1
  <2>1. m - 1 \in 1 .. m /\ m - 1 < m /\ m - 1 \in Nat /\ m - 1 \in 1 .. Len(a.hash) /\ m - 1 \in 1 .. Len(b.hash)
    BY <1>4, <1>5, <1>7
  <2>2. PICK c \in evs : c.hash = SubSeq(a.hash, 1, m - 1)
    BY <2>1 DEF NoGaps
  <2>3. PICK d \in evs : d.hash = SubSeq(b.hash, 1, m - 1)
    BY <2>1 DEF NoGaps
  <2>4. c.hash = a.prev /\ d.hash = b.prev /\ Len(c.hash) = m - 1 /\ Len(d.hash) = m - 1
    BY <1>1, <1>4, <2>2, <2>3
  <2>5. c = d
    <3> SUFFICES ASSUME c # d PROVE FALSE
      OBVIOUS
    <3>1. m - 1 \in twice
      BY <2>1, <2>4
    <3> HIDE DEF twice
    <3> QED
      BY <1>3, <2>1, <3>1
  <2> QED
    BY <1>4, <2>4, <2>5 DEF OnePrev
<1> QED
  BY <1>6, <1>7

(* So their lengths are the numbers up to how many there are. *)
LEMMA LengthsCount ==
    ASSUME NEW evs \in SUBSET Event, \A ev \in evs : Genuine(ev), OnePrev(evs), NoGaps(evs),
           IsFiniteSet(evs)
    PROVE  Counted(evs)
<1> DEFINE lens == {Len(ev.hash) : ev \in evs}
           f == [ev \in evs |-> Len(ev.hash)]
           n == Cardinality(evs)
<1>1. \A ev \in evs : Len(ev.hash) \in Nat \ {0} /\ ev.hash \in Seq(Body)
  <2> TAKE ev \in evs
  <2>1. ev \in Event /\ Genuine(ev)
    OBVIOUS
  <2>2. Len(ev.prev) \in Nat /\ Len(ev.hash) = Len(ev.prev) + 1 /\ ev.hash \in Hash
    BY <2>1, GenuineHash
  <2> QED
    BY <2>2 DEF Hash
<1>2. f \in Bijection(evs, lens)
  <2>1. f \in Injection(evs, lens)
    BY SameLength DEF Injection, IsInjective
  <2>2. f \in Surjection(evs, lens)
    BY DEF Surjection
  <2> QED
    BY <2>1, <2>2 DEF Bijection
<1>3. n \in Nat /\ IsFiniteSet(lens) /\ Cardinality(lens) = n
  <2> HIDE DEF f, lens
  <2>1. IsFiniteSet(lens) /\ Cardinality(lens) = Cardinality(evs)
    BY <1>2, FS_Bijection DEF ExistsBijection
  <2>2. Cardinality(evs) \in Nat
    BY FS_CardinalityType
  <2> QED
    BY <2>1, <2>2
<1>4. ASSUME NEW k \in lens PROVE 1 .. k \subseteq lens
  <2>1. PICK ev \in evs : Len(ev.hash) = k
    OBVIOUS
  <2>2. ASSUME NEW j \in 1 .. k PROVE \E c \in evs : Len(c.hash) = j
    <3>1. PICK c \in evs : c.hash = SubSeq(ev.hash, 1, j)
      BY <2>1 DEF NoGaps
    <3> QED
      BY <1>1, <2>1, <3>1
  <2> QED
    BY <2>2
<1>5. lens \subseteq Nat \ {0}
  BY <1>1
<1> HIDE DEF lens, n
<1>6. ASSUME NEW k \in Nat PROVE IsFiniteSet(1 .. k) /\ Cardinality(1 .. k) = k
  <2>1. IsFiniteSet(1 .. k) /\ Cardinality(1 .. k) = IF 1 > k THEN 0 ELSE k - 1 + 1
    BY FS_Interval
  <2> QED
    BY <2>1
<1>7. ASSUME NEW k \in lens PROVE k \in 1 .. n
  <2>1. Cardinality(1 .. k) <= Cardinality(lens)
    BY <1>3, <1>4, FS_Subset
  <2> QED
    BY <1>3, <1>5, <1>6, <2>1
<1>8. lens = 1 .. n
  <2>1. lens \subseteq 1 .. n
    BY <1>7
  <2> QED
    BY <1>3, <1>6, <2>1, FS_Subset
<1> QED
  BY <1>3, <1>8 DEF Counted, lens, n

(* The walk through a chain without gaps is a single line, in which an edited *)
(* event is met at its place.                                                 *)
LEMMA IntactVerified ==
    ASSUME NEW evs \in SUBSET Event, \A ev \in evs : Genuine(ev), OnePrev(evs), IsFiniteSet(evs),
           NEW limit \in Nat, Intact(evs, limit)
    PROVE  VerifyChain(evs, limit)
<1> DEFINE n == Cardinality(evs)
<1>1. n \in Nat /\ \A k \in 0 .. n : Walk(evs)[k] = Level(evs, k)
  BY FS_CardinalityType, WalkLevels
<1>2. \A ev \in evs : ev.hash \in Hash /\ Len(ev.hash) \in Nat /\ Len(ev.hash) >= 1
  <2> TAKE ev \in evs
  <2>1. ev \in Event /\ Genuine(ev)
    OBVIOUS
  <2>2. ev.hash \in Hash /\ Len(ev.prev) \in Nat /\ Len(ev.hash) = Len(ev.prev) + 1
    BY <2>1, GenuineHash
  <2> QED
    BY <2>2
<1>0. NoGaps(evs)
  BY DEF NoGaps, Intact
<1>3. ASSUME NEW ev \in evs, NEW k \in Nat, Len(ev.hash) = k + 1 PROVE ev \in Level(evs, k)
  BY <1>0, <1>3 DEF Level, NoGaps
<1>4. \A a, b \in evs : Len(a.hash) = Len(b.hash) => a = b
  BY <1>0, SameLength
<1>9. Counted(evs)
  BY <1>0, LengthsCount
<1>5. ASSUME NEW k \in 0 .. n - 1 PROVE Cardinality(Walk(evs)[k]) = 1
  <2>1. k \in Nat /\ k + 1 \in 1 .. n /\ k \in 0 .. n
    BY <1>1
  <2>2. PICK ev \in evs : Len(ev.hash) = k + 1
    BY <1>9, <2>1 DEF Counted
  <2>3. Level(evs, k) = {ev}
    <3>1. ev \in Level(evs, k)
      BY <1>3, <2>1, <2>2
    <3>2. \A x \in Level(evs, k) : x \in evs /\ Len(x.hash) = k + 1
      BY DEF Level
    <3> QED
      BY <1>4, <2>2, <3>1, <3>2
  <2> QED
    BY <1>1, <2>1, <2>3, SingletonCard
<1>6. UNION {Walk(evs)[k] : k \in 0 .. n - 1} = evs
  <2>1. ASSUME NEW k \in 0 .. n - 1 PROVE Walk(evs)[k] \subseteq evs
    <3>1. k \in 0 .. n
      BY <1>1
    <3> QED
      BY <1>1, <3>1 DEF Level
  <2>2. ASSUME NEW ev \in evs PROVE \E k \in 0 .. n - 1 : ev \in Walk(evs)[k]
    <3>1. Len(ev.hash) <= n
      BY <1>9 DEF Counted
    <3>2. Len(ev.hash) - 1 \in 0 .. n - 1 /\ Len(ev.hash) - 1 \in 0 .. n /\ Len(ev.hash) - 1 \in Nat
      BY <1>1, <1>2, <3>1
    <3>3. Len(ev.hash) = (Len(ev.hash) - 1) + 1
      BY <1>2
    <3>4. ev \in Level(evs, Len(ev.hash) - 1)
      BY <1>3, <3>2, <3>3
    <3> QED
      BY <1>1, <3>2, <3>4
  <2> HIDE DEF n
  <2> QED
    BY <2>1, <2>2
<1>7. SingleLine(evs)
  BY <1>5, <1>6 DEF SingleLine
<1>8. HashesMatch(evs, limit)
  <2> SUFFICES ASSUME NEW k \in 0 .. n - 1, k < limit, NEW ev \in Walk(evs)[k]
               PROVE  ev.hash = Append(ev.prev, ev.body)
    BY DEF HashesMatch
  <2>1. ev \in evs
    BY <1>6
  <2>2. k \in Nat /\ k \in 0 .. n
    BY <1>1
  <2>3. ev \in Level(evs, k)
    BY <1>1, <2>2
  <2>4. Len(ev.hash) = k + 1 /\ k + 1 <= limit /\ k + 1 \in 1 .. Len(ev.hash)
    BY <2>2, <2>3 DEF Level
  <2>5. PICK x \in evs : x.hash = SubSeq(ev.hash, 1, k + 1) /\ x.body = ev.hash[k + 1]
    BY <2>1, <2>4 DEF Intact
  <2>6. SubSeq(ev.hash, 1, k + 1) = ev.hash
    BY <1>2, <2>1, <2>4 DEF Hash
  <2>7. x = ev
    BY <1>4, <2>1, <2>5, <2>6
  <2> QED
    BY <2>1, <2>4, <2>5, <2>7 DEF Genuine, Payload
<1> QED
  BY <1>7, <1>8 DEF VerifyChain

(* What the walk has reached has all its predecessors. *)
LEMMA VerifiedIntact ==
    ASSUME NEW evs \in SUBSET Event, \A ev \in evs : Genuine(ev), IsFiniteSet(evs),
           NEW limit \in Nat, VerifyChain(evs, limit)
    PROVE  Intact(evs, limit)
<1> DEFINE n == Cardinality(evs)
<1>1. n \in Nat /\ \A k \in 0 .. n : Walk(evs)[k] = Level(evs, k)
  BY FS_CardinalityType, WalkLevels
<1>2. ASSUME NEW ev \in evs PROVE \E k \in 0 .. n - 1 : ev \in Walk(evs)[k] /\ ev \in Level(evs, k)
  <2>1. PICK k \in 0 .. n - 1 : ev \in Walk(evs)[k]
    BY DEF VerifyChain, SingleLine
  <2>2. k \in 0 .. n
    BY <1>1
  <2> QED
    BY <1>1, <2>1, <2>2
<1> SUFFICES ASSUME NEW ev \in evs, NEW k \in 1 .. Len(ev.hash)
             PROVE  \E x \in evs : x.hash = SubSeq(ev.hash, 1, k) /\ (k <= limit => x.body = ev.hash[k])
  BY DEF Intact
<1>3. PICK j \in 0 .. n - 1 : ev \in Level(evs, j)
  BY <1>2
<1>4. Len(ev.hash) = j + 1 /\ j \in Nat /\ k \in 1 .. j + 1 /\ k \in Nat
  BY <1>1, <1>3 DEF Level
<1>5. PICK x \in evs : x.hash = SubSeq(ev.hash, 1, k)
  BY <1>3, <1>4 DEF Level
<1>6. /\ ev.hash \in Seq(Body) /\ x \in Event /\ Genuine(x) /\ x.prev \in Seq(Body)
  BY DEF Event, Hash
<1>7. Len(x.hash) = k /\ x.hash[k] = ev.hash[k]
  BY <1>4, <1>5, <1>6
<1>8. ASSUME k <= limit PROVE x.body = ev.hash[k]
  <2>1. PICK i \in 0 .. n - 1 : x \in Walk(evs)[i] /\ x \in Level(evs, i)
    BY <1>2
  <2>2. i \in Nat /\ Len(x.hash) = i + 1
    BY <1>1, <2>1 DEF Level
  <2>3. i < limit
    BY <1>4, <1>7, <1>8, <2>2
  <2>4. x.hash = Append(x.prev, x.body)
    BY <2>1, <2>3 DEF VerifyChain, HashesMatch
  <2>5. Len(x.hash) = Len(x.prev) + 1 /\ x.hash[Len(x.prev) + 1] = x.body
    BY <1>6, <2>4
  <2> QED
    BY <1>6, <1>7, <2>5
<1> QED
  BY <1>5, <1>8

(* A line has no gaps and no edits. *)
LEMMA LineIntact ==
    ASSUME NEW evs \in SUBSET Event, Line(evs), NEW limit
    PROVE  Intact(evs, limit)
<1> SUFFICES ASSUME NEW ev \in evs, NEW k \in 1 .. Len(ev.hash)
             PROVE  \E x \in evs : x.hash = SubSeq(ev.hash, 1, k) /\ x.body = ev.hash[k]
  BY DEF Intact
<1>1. PICK x \in evs : x.hash = SubSeq(ev.hash, 1, k)
  BY DEF Line, NoGaps
<1>2. x.prev \in Seq(Body) /\ x.body \in Body /\ x.hash = Append(x.prev, x.body) /\ ev.hash \in Seq(Body)
  BY DEF Event, Hash, Line, WellFormed
<1>3. Len(x.hash) = k /\ x.hash[k] = ev.hash[k]
  BY <1>1, <1>2
<1>4. Len(x.hash) = Len(x.prev) + 1 /\ x.hash[Len(x.prev) + 1] = x.body
  BY <1>2
<1> QED
  BY <1>1, <1>2, <1>3, <1>4

LEMMA TrustedVerified ==
    ASSUME VerifyInv, NEW e \in Trusted, NEW limit \in Nat
    PROVE  VerifyChain(events[e], limit)
<1>1. /\ e \in EpochIds /\ events[e] \in SUBSET Event /\ Line(events[e]) /\ OnePrev(events[e])
      /\ IsFiniteSet(events[e]) /\ \A ev \in events[e] : Genuine(ev)
  BY DEF VerifyInv, ChainInv, LineInv, TypeInv, TypeOK, IdentityInv, StoreInv, Trusted
<1> QED
  BY <1>1, LineIntact, IntactVerified

(* An event that is stored now was linked to by nobody, so what misses an     *)
(* event goes on missing it.                                                  *)
LEMMA BreaksKept ==
    ASSUME VerifyInv, NEW p \in Procs, Stores(p), NEW e \in EpochIds, NEW limit,
           Intact(events'[e], limit)
    PROVE  Intact(events[e], limit)
<1> DEFINE f == proc[p].epoch
           new == NewEvent(p)
           prev == proc[p].prev
           body == proc[p].body
<1>1. /\ FIFOInv /\ StoreInv /\ TypeInv
  BY DEF VerifyInv, ChainInv, IdentityInv, FIFOInv, FlowTypeInv
<1>2. /\ f \in EpochIds /\ prev \in Hash /\ body \in Body /\ body \in Pending
      /\ events' = [events EXCEPT ![f] = @ \cup {new}] /\ events \in [EpochIds -> SUBSET Event]
  BY <1>1, PendingType
     DEF TypeInv, TypeOK, ProcType, AppendsHoldBody, Stores, Store, Appending
<1>3. new.hash = Append(prev, body)
  BY DEF NewEvent
<1>4. Len(prev) \in Nat /\ Len(new.hash) = Len(prev) + 1 /\ new.hash[Len(prev) + 1] = body
  BY <1>2, <1>3, AppendProperties DEF Hash
<1> HIDE DEF new
<1>5. events'[e] = IF e = f THEN events[f] \cup {new} ELSE events[e]
  BY <1>2
<1> SUFFICES ASSUME NEW ev \in events[e], NEW k \in 1 .. Len(ev.hash)
             PROVE  \E x \in events[e] : x.hash = SubSeq(ev.hash, 1, k) /\ (k <= limit => x.body = ev.hash[k])
  BY DEF Intact
<1>6. PICK x \in events'[e] : x.hash = SubSeq(ev.hash, 1, k) /\ (k <= limit => x.body = ev.hash[k])
  <2>1. ev \in events'[e]
    BY <1>5
  <2> QED
    BY <2>1 DEF Intact
<1>7. x # new
  <2> SUFFICES ASSUME x = new PROVE FALSE
    OBVIOUS
  <2>1. ev \in Event /\ Known(ev.hash, Pending, calls) /\ ev.hash \in Seq(Body)
    BY <1>1, <1>2 DEF StoreInv, Event, Hash
  <2>2. Len(x.hash) = k /\ x.hash[k] = ev.hash[k] /\ k \in Nat
    BY <1>6, <2>1
  <2>3. ev.hash[k] = body
    BY <1>4, <2>2
  <2> QED
    BY <1>2, <2>1, <2>3 DEF Known
<1> QED
  BY <1>5, <1>6, <1>7

LEMMA BreakStep ==
    ASSUME VerifyInv, VerifyInv', [Next]_vars PROVE BreaksStay
<1>1. /\ LineInv /\ IdentityInv /\ StoreInv /\ FlowTypeInv /\ TypeInv /\ ChainInv /\ FIFOInv
  BY DEF VerifyInv, ChainInv, IdentityInv, FIFOInv, FlowTypeInv
<1>2. VerifyLimit \in Nat
  BY ConstantsAssumption
<1>3. ASSUME NEW e \in EpochIds, events'[e] = events[e]
      PROVE  /\ VerifyChain(events'[e], VerifyLimit) => VerifyChain(events[e], VerifyLimit)
             /\ VerifyChain(events'[e], Cardinality(events'[e])) =>
                   VerifyChain(events[e], Cardinality(events[e]))
  BY <1>3
<1>4. ASSUME NEW e \in EpochIds
      PROVE  /\ events[e] \in SUBSET Event /\ IsFiniteSet(events[e]) /\ OnePrev(events[e])
             /\ \A ev \in events[e] : Genuine(ev)
             /\ events'[e] \in SUBSET Event /\ IsFiniteSet(events'[e])
             /\ \A ev \in events'[e] : Genuine(ev)
  BY DEF VerifyInv, ChainInv, LineInv, TypeInv, TypeOK, IdentityInv, StoreInv, Genuine, Payload
<1>5. ASSUME NEW p \in Procs, Stores(p) PROVE BreaksStay
  <2> SUFFICES ASSUME NEW e \in EpochIds
               PROVE  /\ VerifyChain(events'[e], VerifyLimit) => VerifyChain(events[e], VerifyLimit)
                      /\ VerifyChain(events'[e], Cardinality(events'[e])) =>
                            VerifyChain(events[e], Cardinality(events[e]))
    BY DEF BreaksStay
  <2>1. Cardinality(events[e]) \in Nat /\ Cardinality(events'[e]) \in Nat
        /\ Cardinality(events[e]) <= Cardinality(events'[e])
    <3>1. events \in [EpochIds -> SUBSET Event] /\ proc[p].epoch \in EpochIds
      BY <1>1 DEF TypeInv, TypeOK, ProcType
    <3>2. events[e] \subseteq events'[e]
      BY <1>5, <3>1 DEF Stores, Store
    <3> QED
      BY <1>4, <3>2, FS_Subset, FS_CardinalityType
  <2>2. ASSUME NEW limit \in Nat, NEW least \in Nat, least <= limit, VerifyChain(events'[e], limit)
        PROVE  VerifyChain(events[e], least)
    <3>1. Intact(events'[e], limit)
      BY <1>4, <2>2, VerifiedIntact
    <3>2. Intact(events[e], limit)
      BY <1>5, <3>1, BreaksKept
    <3>3. Intact(events[e], least)
      <4>1. \A ev \in events[e] : Len(ev.hash) \in Nat
        BY <1>4 DEF Event, Hash
      <4> QED
        BY <2>2, <3>2, <4>1 DEF Intact
    <3> QED
      BY <1>4, <3>3, IntactVerified
  <2> QED
    BY <1>2, <2>1, <2>2
<1>6. ASSUME NEW e \in EpochIds, NEW ev \in events[e], Hurts(e, ev) PROVE BreaksStay
  <2>1. damages \in Nat /\ damages' = damages + 1
    BY <1>1, <1>6, ConstantsAssumption DEF Hurts, TypeInv, TypeOK
  <2>2. damages' # damages
    BY <2>1
  <2> QED
    BY <2>2 DEF BreaksStay
<1>7. ASSUME UNCHANGED events PROVE BreaksStay
  BY <1>3, <1>7 DEF BreaksStay
<1>8. Quiet => UNCHANGED events
  BY DEF Quiet
<1>9. ASSUME NEW p \in Procs, Enqueues(p) PROVE UNCHANGED events
  BY <1>9 DEF Enqueues
<1> QED
  BY <1>1, <1>5, <1>6, <1>7, <1>8, <1>9, StoreShapes

(***************************************************************************)
(* Verification passes exactly what has all its predecessors and, within   *)
(* the limit, its payloads, whatever was edited or lost; and what the      *)
(* service stores never hides a break.                                     *)
(***************************************************************************)
THEOREM VerifiedExactly == Spec => VerifyExact
<1>1. ASSUME VerifyInv PROVE VerifiedIsIntact
  <2> SUFFICES ASSUME NEW e \in EpochIds, NEW limit \in {VerifyLimit, Cardinality(events[e])}
               PROVE  /\ VerifyChain(events[e], limit) <=> Intact(events[e], limit)
                      /\ e \in Trusted => VerifyChain(events[e], limit)
    BY DEF VerifiedIsIntact
  <2>1. /\ events[e] \in SUBSET Event /\ IsFiniteSet(events[e]) /\ OnePrev(events[e])
        /\ \A ev \in events[e] : Genuine(ev)
    BY <1>1 DEF VerifyInv, ChainInv, LineInv, TypeInv, TypeOK, IdentityInv, StoreInv
  <2>2. limit \in Nat
    BY <2>1, ConstantsAssumption, FS_CardinalityType
  <2> QED
    BY <1>1, <2>1, <2>2, IntactVerified, VerifiedIntact, TrustedVerified
<1>2. VerifyInv /\ VerifyInv' /\ [Next]_vars => [BreaksStay]_vars
  BY BreakStep
<1> QED
  BY <1>1, <1>2, VerifyInit, VerifyStep, PTL DEF Spec, VerifyExact

-----------------------------------------------------------------------------
(***************************************************************************)
(* Retries.  An append has tried once for every event another instance     *)
(* stored, as far as it has seen them; what it has not seen of the chain   *)
(* was stored by others, because it is the first of its own queue.         *)
(***************************************************************************)
ByOthers(p, evs) == {ev \in evs : InstanceOf[ev.body.by] # InstanceOf[p]}

Seen(evs, prev) == {ev \in evs : Len(ev.hash) <= Len(prev)}

Untried(r) == r.pc \notin {"tail", "insert"} => r.tries = 0

Paid(p, r, evs) ==
    /\ r.pc = "tail" => r.tries <= Cardinality(ByOthers(p, evs))
    /\ r.pc = "insert" =>
         /\ r.tries <= Cardinality(ByOthers(p, Seen(evs, r.prev)))
         /\ evs \ Seen(evs, r.prev) \subseteq ByOthers(p, evs)

RetryInv ==
    /\ VerifyInv
    /\ \A p \in Procs :
         /\ Untried(proc[p])
         /\ proc[p].epoch \in Trusted => Paid(p, proc[p], events[proc[p].epoch])

Retries(q) ==
    /\ DuplicatePrevHash(q)
    /\ proc' = [proc EXCEPT ![q].pc = "tail", ![q].tries = @ + 1]

(* The ways in which a step changes one request. *)
LEMMA TryShapes ==
    ASSUME TypeInv, \A p \in Procs : Untried(proc[p]), [Next]_vars, NEW q \in Procs
    PROVE  \/ proc'[q] = proc[q]
           \/ proc'[q].tries = 0 /\ proc'[q].pc # "insert"
           \/ ReadTail(q)
           \/ Retries(q)
<1> DEFINE Goal == \/ proc'[q] = proc[q]
                   \/ proc'[q].tries = 0 /\ proc'[q].pc # "insert"
                   \/ ReadTail(q)
                   \/ Retries(q)
<1>1. proc \in [Procs -> ProcType] /\ \A p \in Procs : proc[p] \in ProcType
  BY DEF TypeInv, TypeOK
<1>2. ASSUME NEW p \in Procs, NEW r, proc' = [proc EXCEPT ![p] = r],
             r.tries = 0 /\ r.pc # "insert"
      PROVE  Goal
  BY <1>1, <1>2
<1>3. ASSUME NEW p \in Procs, Finish(p) PROVE Goal
  BY <1>2, <1>3 DEF Finish, idle
<1>4. ASSUME NEW p \in Procs, Create(p) \/ Seal(p) \/ StartEpoch(p) PROVE Goal
  <2> DEFINE body(k) == [n |-> calls + 1, by |-> p, starts |-> k]
             post(k) == [idle EXCEPT !.pc = "queued", !.body = body(k)]
             seal == [idle EXCEPT !.pc = "seal", !.op = "seal", !.seal = seals + 1]
  <2>1. \/ proc' = [proc EXCEPT ![p] = post(0)]
        \/ proc' = [proc EXCEPT ![p] = post(proc[p].seal)]
        \/ proc' = [proc EXCEPT ![p] = seal]
    BY <1>4, Zenon DEF Create, Seal, StartEpoch
  <2>2. seal.tries = 0 /\ seal.pc # "insert"
    BY DEF idle
  <2>3. \A k : post(k).tries = 0 /\ post(k).pc # "insert"
    <3> HIDE DEF body
    <3> QED
      BY DEF idle
  <2> HIDE DEF post, seal
  <2> QED
    BY <1>2, <2>1, <2>2, <2>3
<1>5. ASSUME NEW p \in Procs, NEW e, EpochFound(p, e), proc[p].pc \notin {"tail", "insert"}
      PROVE  Goal
  <2> DEFINE r == [proc[p] EXCEPT !.epoch = e,
                    !.pc = IF proc[p].op = "seal" THEN "verify" ELSE "tail"]
  <2>1. proc' = [proc EXCEPT ![p] = r]
    BY <1>1, <1>5 DEF EpochFound
  <2>2. r.tries = proc[p].tries /\ r.pc # "insert"
    BY <1>1 DEF ProcType
  <2>3. proc[p].tries = 0
    BY <1>5 DEF Untried
  <2> HIDE DEF r
  <2> QED
    BY <1>2, <2>1, <2>2, <2>3
<1>6. ASSUME NEW p \in Procs, NEW pc, Goto(p, pc), pc # "insert", proc[p].pc \notin {"tail", "insert"}
      PROVE  Goal
  <2> DEFINE r == [proc[p] EXCEPT !.pc = pc]
  <2>1. proc' = [proc EXCEPT ![p] = r]
    BY <1>1, <1>6 DEF Goto
  <2>2. r.tries = proc[p].tries /\ r.pc = pc
    BY <1>1 DEF ProcType
  <2>3. proc[p].tries = 0
    BY <1>6 DEF Untried
  <2> HIDE DEF r
  <2> QED
    BY <1>2, <1>6, <2>1, <2>2, <2>3
<1>7. ASSUME NEW p \in Procs, FindActiveEpoch(p) PROVE Goal
  <2>1. /\ proc[p].pc \in {"seal", "queued"}
        /\ (\E e \in EpochIds : EpochFound(p, e)) \/ Goto(p, "mkepoch")
    BY <1>7 DEF FindActiveEpoch
  <2> QED
    BY <1>5, <1>6, <2>1
<1>8. ASSUME NEW p \in Procs, CreateDefaultEpoch(p) \/ RefetchActiveEpoch(p) PROVE Goal
  <2>1. /\ proc[p].pc \in {"mkepoch", "refetch"}
        /\ (\E e : EpochFound(p, e)) \/ Goto(p, "refetch")
    BY <1>8 DEF CreateDefaultEpoch, RefetchActiveEpoch
  <2> QED
    BY <1>5, <1>6, <2>1
<1>9. ASSUME NEW p \in Procs, ReadTail(p) PROVE Goal
  <2>1. CASE p = q
    BY <1>9, <2>1
  <2>2. CASE p # q
    <3>1. \E h : proc' = [proc EXCEPT ![p].pc = "insert", ![p].prev = h]
      BY <1>9 DEF ReadTail
    <3> QED
      BY <1>1, <2>2, <3>1
  <2> QED
    BY <2>1, <2>2
<1>10. ASSUME NEW p \in Procs, DuplicatePrevHash(p) PROVE Goal
  <2>1. CASE Finish(p)
    BY <1>3, <2>1
  <2>2. CASE proc' = [proc EXCEPT ![p].pc = "tail", ![p].tries = @ + 1]
    <3>1. CASE p = q
      BY <1>10, <2>2, <3>1 DEF Retries
    <3>2. CASE p # q
      BY <1>1, <2>2, <3>2
    <3> QED
      BY <3>1, <3>2
  <2> QED
    BY <1>10, <2>1, <2>2 DEF DuplicatePrevHash
<1>11. ASSUME NEW p \in Procs, CreateIncident(p) PROVE Goal
  <2> DEFINE r == [proc[p] EXCEPT !.pc = "mark", !.now = clock + 1]
  <2>1. proc' = [proc EXCEPT ![p] = r]
    BY <1>1, <1>11 DEF CreateIncident
  <2>2. r.tries = proc[p].tries /\ r.pc = "mark"
    BY <1>1 DEF ProcType
  <2>3. proc[p].tries = 0
    BY <1>11 DEF CreateIncident, Untried
  <2> HIDE DEF r
  <2> QED
    BY <1>2, <2>1, <2>2, <2>3
<1>12. ASSUME NEW p \in Procs, MarkCompromised(p) PROVE Goal
  BY <1>6, <1>12 DEF MarkCompromised
<1>13. ASSUME NEW p \in Procs,
              TailAmbiguous(p) \/ Insert(p) \/ RefuseSeal(p) \/ DbError(p) \/ InsertUnacknowledged(p)
       PROVE  Goal
  BY <1>3, <1>13 DEF TailAmbiguous, Insert, RefuseSeal, DbError, InsertUnacknowledged
<1>14. ASSUME NEW i \in Instances, Crash(i) PROVE Goal
  BY <1>1, <1>14 DEF Crash, idle
<1>15. ASSUME NEW e \in EpochIds, NEW ev \in events[e], EditEvent(e, ev) \/ LoseEvent(e, ev)
       PROVE  Goal
  BY <1>15 DEF EditEvent, LoseEvent
<1>16. ASSUME UNCHANGED vars PROVE Goal
  BY <1>16 DEF vars
<1> HIDE DEF Goal
<1>17. ASSUME NEW p \in Procs, AppendStep(p) PROVE Goal
  BY <1>7, <1>8, <1>9, <1>10, <1>13, <1>17 DEF AppendStep
<1>18. ASSUME NEW p \in Procs, SealStep(p) PROVE Goal
  BY <1>4, <1>11, <1>12, <1>13, <1>18 DEF SealStep
<1>19. ASSUME Fault PROVE Goal
  <2>1. CASE \E p \in Procs : DbError(p) \/ InsertUnacknowledged(p)
    BY <1>13, <2>1
  <2>2. CASE \E i \in Instances : Crash(i)
    BY <1>14, <2>2
  <2>3. CASE \E e \in EpochIds : \E ev \in events[e] : EditEvent(e, ev) \/ LoseEvent(e, ev)
    BY <1>15, <2>3
  <2> QED
    BY <1>19, <2>1, <2>2, <2>3 DEF Fault
<1>20. Goal
  BY <1>4, <1>16, <1>17, <1>18, <1>19 DEF Next
<1> QED
  BY <1>20 DEF Goal

(* The size of a part of a finite set. *)
LEMMA PartSize ==
    ASSUME NEW S, IsFiniteSet(S), NEW T, T \subseteq S
    PROVE  /\ IsFiniteSet(T) /\ Cardinality(T) \in Nat /\ Cardinality(S) \in Nat
           /\ Cardinality(T) <= Cardinality(S)
BY FS_Subset, FS_CardinalityType

(* More events never make the retries unpaid. *)
LEMMA PaidKept ==
    ASSUME NEW p, NEW r, r.tries \in Nat, NEW old, NEW new, IsFiniteSet(new), old \subseteq new,
           r.pc = "insert" => new \ old \subseteq ByOthers(p, new),
           Paid(p, r, old)
    PROVE  Paid(p, r, new)
<1>1. ByOthers(p, old) \subseteq ByOthers(p, new) /\ ByOthers(p, new) \subseteq new
  BY DEF ByOthers
<1>2. /\ ByOthers(p, Seen(old, r.prev)) \subseteq ByOthers(p, Seen(new, r.prev))
      /\ ByOthers(p, Seen(new, r.prev)) \subseteq new
  BY DEF ByOthers, Seen
<1>3. /\ IsFiniteSet(ByOthers(p, new)) /\ IsFiniteSet(ByOthers(p, Seen(new, r.prev)))
  BY <1>1, <1>2, PartSize
<1>4. /\ Cardinality(ByOthers(p, old)) \in Nat /\ Cardinality(ByOthers(p, new)) \in Nat
      /\ Cardinality(ByOthers(p, old)) <= Cardinality(ByOthers(p, new))
  BY <1>1, <1>3, PartSize
<1>5. /\ Cardinality(ByOthers(p, Seen(old, r.prev))) \in Nat
      /\ Cardinality(ByOthers(p, Seen(new, r.prev))) \in Nat
      /\ Cardinality(ByOthers(p, Seen(old, r.prev))) <= Cardinality(ByOthers(p, Seen(new, r.prev)))
  BY <1>2, <1>3, PartSize
<1>6. ASSUME r.pc = "tail" PROVE r.tries <= Cardinality(ByOthers(p, new))
  BY <1>4, <1>6 DEF Paid
<1>7. ASSUME r.pc = "insert"
      PROVE  /\ r.tries <= Cardinality(ByOthers(p, Seen(new, r.prev)))
             /\ new \ Seen(new, r.prev) \subseteq ByOthers(p, new)
  <2>1. r.tries <= Cardinality(ByOthers(p, Seen(new, r.prev)))
    BY <1>5, <1>7 DEF Paid
  <2>2. old \ Seen(old, r.prev) \subseteq ByOthers(p, old) /\ new \ old \subseteq ByOthers(p, new)
    BY <1>7 DEF Paid
  <2>3. Seen(old, r.prev) \subseteq Seen(new, r.prev)
    BY DEF Seen
  <2> QED
    BY <1>1, <2>1, <2>2, <2>3
<1> QED
  BY <1>6, <1>7 DEF Paid
(* Two requests of one instance are never about to store at the same time. *)
LEMMA OneStoresAtATime ==
    ASSUME FIFOInv, NEW p \in Procs, NEW q \in Procs, proc[p].pc = "insert", proc[q].pc = "insert",
           InstanceOf[p] = InstanceOf[q]
    PROVE  p = q
<1>1. Appending(p) /\ Appending(q)
  BY DEF FIFOInv, FlowTypeInv, TypeInv, AppendsHoldBody, Appending
<1>2. AtHead(p) /\ AtHead(q)
  BY <1>1 DEF FIFOInv, QueueInv
<1> QED
  BY <1>2 DEF AtHead

LEMMA RetryInit == Init => RetryInv
<1> SUFFICES ASSUME Init PROVE RetryInv
  OBVIOUS
<1>1. \A p \in Procs : proc[p] = idle
  BY DEF Init
<1> QED
  BY <1>1, VerifyInit DEF RetryInv, Untried, Paid, idle

LEMMA RetryStep == RetryInv /\ [Next]_vars => RetryInv'
<1> SUFFICES ASSUME RetryInv, [Next]_vars PROVE RetryInv'
  OBVIOUS
<1>1. /\ VerifyInv /\ ChainInv /\ LineInv /\ FIFOInv /\ FlowTypeInv /\ TypeInv /\ VerifyInv'
      /\ \A p \in Procs : Untried(proc[p])
      /\ TypeInv' /\ StoreInv
  BY VerifyStep DEF RetryInv, VerifyInv, ChainInv, IdentityInv, FIFOInv, FlowTypeInv
<1>2. /\ events \in [EpochIds -> SUBSET Event] /\ Trusted \subseteq EpochIds
      /\ proc \in [Procs -> ProcType] /\ proc' \in [Procs -> ProcType]
      /\ \A e \in EpochIds : IsFiniteSet(events[e]) /\ IsFiniteSet(events'[e])
      /\ \A p \in Procs : proc[p] \in ProcType /\ proc'[p] \in ProcType
      /\ \A p \in Procs : proc[p].tries \in Nat /\ proc[p].epoch \in EpochIds /\ proc[p].prev \in Hash
  <2>1. proc \in [Procs -> ProcType] /\ proc' \in [Procs -> ProcType]
    BY <1>1 DEF TypeInv, TypeOK
  <2>2. \A p \in Procs : proc[p].tries \in 0 .. MaxAttempts - 1
    BY <2>1 DEF ProcType
  <2>3. \A p \in Procs : proc[p].tries \in Nat
    BY <2>2, ConstantsAssumption
  <2> QED
    BY <1>1, <2>1, <2>3 DEF TypeInv, TypeOK, Trusted, VerifyInv, ProcType
(* The events of a trusted epoch only grow, by what the first of a queue stores. *)
<1>3. ASSUME NEW p \in Procs, proc[p].epoch \in Trusted'
      PROVE  /\ proc[p].epoch \in Trusted
             /\ events[proc[p].epoch] \subseteq events'[proc[p].epoch]
             /\ proc'[p] = proc[p] /\ proc[p].pc = "insert" =>
                    events'[proc[p].epoch] \ events[proc[p].epoch]
                        \subseteq ByOthers(p, events'[proc[p].epoch])
  <2> DEFINE f == proc[p].epoch
  <2>1. CASE UNCHANGED <<events, damaged>>
    BY <1>3, <2>1 DEF Trusted
  <2>2. ASSUME NEW q \in Procs, Stores(q)
        PROVE  /\ f \in Trusted /\ events[f] \subseteq events'[f]
               /\ proc'[p] = proc[p] /\ proc[p].pc = "insert" =>
                    events'[f] \ events[f] \subseteq ByOthers(p, events'[f])
    <3>1. /\ f \in Trusted /\ f \in EpochIds /\ proc[q].epoch \in EpochIds
          /\ events' = [events EXCEPT ![proc[q].epoch] = @ \cup {NewEvent(q)}]
      BY <1>2, <1>3, <2>2 DEF Stores, Store, Trusted
    <3>2. events'[f] = IF f = proc[q].epoch THEN events[f] \cup {NewEvent(q)} ELSE events[f]
      BY <1>2, <3>1
    <3>3. NewEvent(q).body = proc[q].body /\ proc[q].body.by = q
      BY <1>1, <2>2, StoredIsFirst DEF NewEvent
    <3>4. proc[q].pc = "insert" /\ proc'[q].pc = "idle"
      BY <1>2, <2>2 DEF Stores, Finish, idle
    <3>5. ASSUME proc'[p] = proc[p], proc[p].pc = "insert" PROVE InstanceOf[q] # InstanceOf[p]
      BY <1>1, <3>4, <3>5, OneStoresAtATime
    <3> QED
      BY <3>1, <3>2, <3>3, <3>5 DEF ByOthers
  <2>3. ASSUME NEW e \in EpochIds, NEW ev \in events[e], Hurts(e, ev)
        PROVE  f \in Trusted /\ events'[f] = events[f]
    BY <1>2, <1>3, <2>3 DEF Hurts, Trusted
  <2>4. CASE Quiet \/ \E q \in Procs : Enqueues(q)
    BY <2>1, <2>4 DEF Quiet, Enqueues
  <2> HIDE DEF f
  <2>5. /\ f \in Trusted /\ events[f] \subseteq events'[f]
        /\ proc'[p] = proc[p] /\ proc[p].pc = "insert" =>
                    events'[f] \ events[f] \subseteq ByOthers(p, events'[f])
    BY <1>1, <2>2, <2>3, <2>4, StoreShapes DEF f
  <2> QED
    BY <2>5 DEF f
<1>4. ASSUME NEW p \in Procs
      PROVE  /\ Untried(proc'[p])
             /\ proc'[p].epoch \in Trusted' => Paid(p, proc'[p], events'[proc'[p].epoch])
  <2> DEFINE Goal == /\ Untried(proc'[p])
                     /\ proc'[p].epoch \in Trusted' => Paid(p, proc'[p], events'[proc'[p].epoch])
  <2>1. CASE proc'[p] = proc[p]
    <3>1. Untried(proc'[p])
      BY <1>1, <2>1
    <3>2. ASSUME proc[p].epoch \in Trusted' PROVE Paid(p, proc[p], events'[proc[p].epoch])
      <4>1. /\ proc[p].epoch \in Trusted
            /\ events[proc[p].epoch] \subseteq events'[proc[p].epoch]
            /\ proc[p].pc = "insert" =>
                    events'[proc[p].epoch] \ events[proc[p].epoch]
                        \subseteq ByOthers(p, events'[proc[p].epoch])
        BY <1>3, <2>1, <3>2
      <4>2. Paid(p, proc[p], events[proc[p].epoch])
        BY <4>1 DEF RetryInv
      <4>3. proc[p].tries \in Nat /\ IsFiniteSet(events'[proc[p].epoch])
        BY <1>2
      <4> QED
        BY <4>1, <4>2, <4>3, PaidKept
    <3> QED
      BY <2>1, <3>1, <3>2
  <2>2. CASE proc'[p].tries = 0 /\ proc'[p].pc # "insert"
    <3>1. Untried(proc'[p])
      BY <2>2 DEF Untried
    <3>2. ASSUME proc'[p].epoch \in Trusted' PROVE Paid(p, proc'[p], events'[proc'[p].epoch])
      <4>1. proc'[p].epoch \in EpochIds
        BY <1>2 DEF ProcType
      <4>2. ByOthers(p, events'[proc'[p].epoch]) \subseteq events'[proc'[p].epoch]
        BY DEF ByOthers
      <4>3. Cardinality(ByOthers(p, events'[proc'[p].epoch])) \in Nat
        BY <1>2, <4>1, <4>2, PartSize
      <4> QED
        BY <2>2, <4>3 DEF Paid
    <3> QED
      BY <3>1, <3>2
  <2>3. CASE ReadTail(p)
    <3> DEFINE f == proc[p].epoch
               evs == events[f]
    <3>1. proc[p].pc = "tail" /\ UNCHANGED <<events, damaged>>
      BY <2>3 DEF ReadTail
    <3>2. PICK h : /\ proc' = [proc EXCEPT ![p].pc = "insert", ![p].prev = h]
                   /\ evs = {} \/ \E tail \in Tails(evs) : h = tail.hash /\ Cardinality(Tails(evs)) = 1
      BY <2>3 DEF ReadTail
    <3>3. /\ proc'[p].pc = "insert" /\ proc'[p].prev = h /\ proc'[p].epoch = f
          /\ proc'[p].tries = proc[p].tries
      BY <1>2, <3>2 DEF ProcType
    <3>4. ASSUME f \in Trusted PROVE Seen(evs, h) = evs
      <4>1. CASE evs = {}
        BY <4>1 DEF Seen
      <4>2. ASSUME NEW tail \in Tails(evs), h = tail.hash PROVE Seen(evs, h) = evs
        <5>1. evs \in SUBSET Event /\ Line(evs) /\ tail \in evs
          BY <1>1, <1>2, <3>4, <4>2 DEF LineInv, Tails
        <5>2. \A a \in evs : Precedes(a, tail)
          BY <4>2, <5>1, EndOfLine DEF Tails
        <5> QED
          BY <4>2, <5>2 DEF Seen, Precedes
      <4> QED
        BY <3>2, <4>1, <4>2
    <3>5. ASSUME f \in Trusted PROVE Paid(p, proc'[p], evs)
      <4>1. Paid(p, proc[p], evs)
        BY <3>5 DEF RetryInv
      <4> QED
        BY <3>1, <3>3, <3>4, <3>5, <4>1 DEF Paid
    <3>6. Trusted' = Trusted /\ events' = events
      BY <3>1 DEF Trusted
    <3>7. Untried(proc'[p])
      BY <3>3 DEF Untried
    <3> HIDE DEF f, evs
    <3>8. proc'[p].epoch \in Trusted' => Paid(p, proc'[p], events'[proc'[p].epoch])
      BY <3>3, <3>5, <3>6 DEF evs
    <3> QED
      BY <3>7, <3>8
  <2>4. CASE Retries(p)
    <3> DEFINE f == proc[p].epoch
               evs == events[f]
               prev == proc[p].prev
    <3>1. /\ proc[p].pc = "insert" /\ UNCHANGED <<events, damaged>>
          /\ proc' = [proc EXCEPT ![p].pc = "tail", ![p].tries = @ + 1]
          /\ \E ev \in evs : ev.prev = prev
      BY <2>4 DEF Retries, DuplicatePrevHash, PrevHashTaken
    <3>2. /\ proc'[p].pc = "tail" /\ proc'[p].epoch = f /\ proc'[p].tries = proc[p].tries + 1
      BY <1>2, <3>1 DEF ProcType
    <3>3. PICK ev \in evs : ev.prev = prev
      BY <3>1
    <3>4. ev \in Event /\ f \in EpochIds /\ Genuine(ev)
      BY <1>1, <1>2 DEF StoreInv
    <3>5. Len(prev) \in Nat /\ Len(ev.hash) = Len(prev) + 1
      BY <3>3, <3>4, GenuineHash
    <3>6. ev \notin Seen(evs, prev)
      BY <3>5 DEF Seen
    <3>7. ASSUME f \in Trusted PROVE Paid(p, proc'[p], evs)
      <4>1. Paid(p, proc[p], evs)
        BY <3>7 DEF RetryInv
      <4>2. ev \in ByOthers(p, evs) /\ proc[p].tries <= Cardinality(ByOthers(p, Seen(evs, prev)))
        BY <3>1, <3>6, <4>1 DEF Paid
      <4>3. /\ ev \notin ByOthers(p, Seen(evs, prev))
            /\ ByOthers(p, Seen(evs, prev)) \subseteq evs /\ ByOthers(p, evs) \subseteq evs
            /\ ByOthers(p, Seen(evs, prev)) \cup {ev} \subseteq ByOthers(p, evs)
        BY <3>6, <4>2 DEF ByOthers, Seen
      <4>4. IsFiniteSet(evs)
        BY <1>2, <3>4
      <4>5. IsFiniteSet(ByOthers(p, evs)) /\ IsFiniteSet(ByOthers(p, Seen(evs, prev)))
        BY <4>3, <4>4, PartSize
      <4>6. Cardinality(ByOthers(p, Seen(evs, prev)) \cup {ev}) = Cardinality(ByOthers(p, Seen(evs, prev))) + 1
        BY <4>3, <4>5, FS_AddElement
      <4>7. /\ Cardinality(ByOthers(p, Seen(evs, prev)) \cup {ev}) <= Cardinality(ByOthers(p, evs))
            /\ Cardinality(ByOthers(p, evs)) \in Nat
        BY <4>3, <4>5, PartSize
      <4>8. Cardinality(ByOthers(p, Seen(evs, prev))) \in Nat
        BY <4>5, FS_CardinalityType
      <4>9. proc[p].tries + 1 <= Cardinality(ByOthers(p, evs))
        BY <1>2, <4>2, <4>6, <4>7, <4>8
      <4> QED
        BY <3>2, <4>9 DEF Paid
    <3>8. Trusted' = Trusted /\ events' = events
      BY <3>1 DEF Trusted
    <3>9. Untried(proc'[p])
      BY <3>2 DEF Untried
    <3> HIDE DEF f, evs
    <3>10. proc'[p].epoch \in Trusted' => Paid(p, proc'[p], events'[proc'[p].epoch])
      BY <3>2, <3>7, <3>8 DEF evs
    <3> QED
      BY <3>9, <3>10
  <2> HIDE DEF Goal
  <2>5. Goal
    BY <1>1, <2>1, <2>2, <2>3, <2>4, TryShapes DEF Goal
  <2> QED
    BY <2>5 DEF Goal
<1> QED
  BY <1>1, <1>4 DEF RetryInv

(***************************************************************************)
(* Every retry of an append is paid for by an event that another instance  *)
(* stored: the requests of one instance never contend with each other.     *)
(***************************************************************************)
THEOREM OthersPayForRetries == Spec => []RetriesPaidByOthers
<1>1. ASSUME RetryInv PROVE RetriesPaidByOthers
  <2> SUFFICES ASSUME NEW p \in Procs, proc[p].epoch \in Trusted
               PROVE  proc[p].tries <= Cardinality(ByOthers(p, events[proc[p].epoch]))
    BY DEF RetriesPaidByOthers, ByOthers
  <2> DEFINE evs == events[proc[p].epoch]
  <2>1. IsFiniteSet(evs) /\ Paid(p, proc[p], evs) /\ Untried(proc[p])
    BY <1>1 DEF RetryInv, VerifyInv, Trusted
  <2>2. ByOthers(p, evs) \subseteq evs /\ ByOthers(p, Seen(evs, proc[p].prev)) \subseteq ByOthers(p, evs)
    BY DEF ByOthers, Seen
  <2>3. /\ IsFiniteSet(ByOthers(p, evs)) /\ Cardinality(ByOthers(p, evs)) \in Nat
    BY <2>1, <2>2, PartSize
  <2>4. /\ Cardinality(ByOthers(p, Seen(evs, proc[p].prev))) \in Nat
        /\ Cardinality(ByOthers(p, Seen(evs, proc[p].prev))) <= Cardinality(ByOthers(p, evs))
    BY <2>2, <2>3, PartSize
  <2>5. proc[p].tries \in Nat
    <3>1. proc[p].tries \in 0 .. MaxAttempts - 1
      BY <1>1 DEF RetryInv, VerifyInv, ChainInv, LineInv, TypeInv, TypeOK, ProcType
    <3> QED
      BY <3>1, ConstantsAssumption
  <2> HIDE DEF evs
  <2>6. proc[p].tries <= Cardinality(ByOthers(p, evs))
    BY <2>1, <2>3, <2>4, <2>5 DEF Paid, Untried
  <2> QED
    BY <2>6 DEF evs
<1> QED
  BY <1>1, RetryInit, RetryStep, PTL DEF Spec

-----------------------------------------------------------------------------
(***************************************************************************)
(* Seals.  What a request that seals an epoch has left in the database,    *)
(* wherever it is interrupted; its new epoch is its own.                   *)
(***************************************************************************)
Sealing(r) == r.pc # "idle" /\ r.op = "seal"

Recorded(r, eps, incs, broken, n) ==
    /\ Sealing(r) =>
         /\ r.seal \in 1 .. n
         /\ r.pc = "verify" => eps[r.epoch].status # "ABSENT"
         /\ r.pc \in {"mark", "newepoch"} =>
              /\ [id |-> r.seal, epoch |-> r.epoch] \in incs
              /\ r.epoch \in broken
              /\ eps[r.epoch].status # "ABSENT"
         /\ r.pc = "newepoch" => eps[r.epoch].status = "COMPROMISED"
    /\ r.pc = "refetch" => eps[DefaultEpoch].status # "ABSENT"

SealInv ==
    /\ VerifyInv
    /\ SealTrail
    /\ \A e \in EpochIds : epochs[e].status # "ABSENT" => e <= seals
    /\ \A p \in Procs :
         /\ Recorded(proc[p], epochs, incidents, damaged, seals)
         /\ Sealing(proc[p]) =>
              /\ epochs[proc[p].seal].status = "ABSENT"
              /\ \A q \in Procs \ {p} : Sealing(proc[q]) => proc[q].seal # proc[p].seal

(* No record of a seal is ever taken back. *)
SealsKept ==
    /\ incidents \subseteq incidents' /\ damaged \subseteq damaged' /\ seals <= seals'
    /\ \A e \in EpochIds :
         /\ epochs[e].status # "ABSENT" => epochs'[e].status # "ABSENT"
         /\ epochs[e].status = "COMPROMISED" => epochs'[e].status = "COMPROMISED"

LEMMA RecordedKept ==
    ASSUME TypeInv, TypeInv', SealsKept, NEW r \in ProcType,
           Recorded(r, epochs, incidents, damaged, seals)
    PROVE  Recorded(r, epochs', incidents', damaged', seals')
<1>1. seals \in Nat /\ seals' \in Nat /\ r.epoch \in EpochIds /\ DefaultEpoch \in EpochIds
  BY ConstantsAssumption DEF TypeInv, TypeOK, ProcType, EpochIds, DefaultEpoch
<1>2. \A k \in 1 .. seals : k \in 1 .. seals'
  BY <1>1 DEF SealsKept
<1> QED
  BY <1>1, <1>2 DEF Recorded, SealsKept

(* One request moves, the others see what they recorded. *)
LEMMA SealMove ==
    ASSUME SealInv, VerifyInv', SealsKept, SealTrail',
           NEW p \in Procs, NEW r, proc' = [proc EXCEPT ![p] = r],
           \A e \in EpochIds : epochs'[e].status # "ABSENT" => e <= seals',
           Recorded(r, epochs', incidents', damaged', seals'),
           \A q \in Procs : Sealing(proc'[q]) => epochs'[proc'[q].seal].status = "ABSENT",
           Sealing(r) => \A q \in Procs \ {p} : Sealing(proc[q]) => proc[q].seal # r.seal
    PROVE  SealInv'
<1>1. TypeInv /\ TypeInv' /\ proc \in [Procs -> ProcType]
  BY DEF SealInv, VerifyInv, ChainInv, LineInv, TypeInv, TypeOK
<1>2. proc'[p] = r /\ \A q \in Procs \ {p} : proc'[q] = proc[q]
  BY <1>1
<1>3. \A q \in Procs \ {p} : Recorded(proc'[q], epochs', incidents', damaged', seals')
  BY <1>1, <1>2, RecordedKept DEF SealInv
<1>4. \A q, s \in Procs :
        q # s /\ Sealing(proc'[q]) /\ Sealing(proc'[s]) => proc'[s].seal # proc'[q].seal
  BY <1>2 DEF SealInv
<1> QED
  BY <1>2, <1>3, <1>4 DEF SealInv

(* Nothing is written about epochs and incidents. *)
SealsSame == UNCHANGED <<epochs, incidents, seals>> /\ damaged \subseteq damaged'

LEMMA SealsSameKept ==
    ASSUME SealInv, SealsSame
    PROVE  /\ SealsKept /\ SealTrail'
           /\ \A e \in EpochIds : epochs'[e].status # "ABSENT" => e <= seals'
<1>1. seals \in Nat
  BY ConstantsAssumption DEF SealInv, VerifyInv, ChainInv, LineInv, TypeInv, TypeOK
<1> QED
  BY <1>1 DEF SealInv, SealTrail, SealsSame, SealsKept

LEMMA SealsSameMove ==
    ASSUME SealInv, VerifyInv', SealsSame,
           NEW p \in Procs, NEW r, proc' = [proc EXCEPT ![p] = r],
           Sealing(r) => Sealing(proc[p]) /\ r.seal = proc[p].seal,
           Recorded(r, epochs', incidents', damaged', seals')
    PROVE  SealInv'
<1>1. TypeInv /\ proc \in [Procs -> ProcType]
  BY DEF SealInv, VerifyInv, ChainInv, LineInv, TypeInv, TypeOK
<1>2. proc'[p] = r /\ \A q \in Procs \ {p} : proc'[q] = proc[q]
  BY <1>1
<1>3. \A q \in Procs : Sealing(proc'[q]) => epochs'[proc'[q].seal].status = "ABSENT"
  BY <1>2 DEF SealsSame, SealInv
<1>4. Sealing(r) => \A q \in Procs \ {p} : Sealing(proc[q]) => proc[q].seal # r.seal
  BY DEF SealInv
<1> QED
  BY <1>3, <1>4, SealsSameKept, SealMove

LEMMA SealInit == Init => SealInv
<1> SUFFICES ASSUME Init PROVE SealInv
  OBVIOUS
<1>1. \A p \in Procs : proc[p] = idle
  BY DEF Init
<1>2. \A e \in EpochIds : epochs[e].status = "ABSENT"
  BY DEF Init, NoEpoch
<1> QED
  BY <1>1, <1>2, VerifyInit DEF SealInv, SealTrail, Recorded, Sealing, idle

LEMMA SealStepKeeps == SealInv /\ [Next]_vars => SealInv'
<1> SUFFICES ASSUME SealInv, [Next]_vars PROVE SealInv'
  OBVIOUS
<1>1. VerifyInv /\ VerifyInv' /\ ChainInv /\ LineInv /\ StoreInv /\ FlowInv /\ TypeInv /\ TypeInv'
  BY VerifyStep DEF SealInv, VerifyInv, ChainInv, LineInv, IdentityInv, FIFOInv, FlowTypeInv
<1>2. /\ proc \in [Procs -> ProcType] /\ epochs \in [EpochIds -> EpochType]
      /\ seals \in Nat /\ DefaultEpoch \in EpochIds
      /\ \A p \in Procs : proc[p] \in ProcType
  BY <1>1, ConstantsAssumption DEF TypeInv, TypeOK, EpochIds, DefaultEpoch
<1>3. ASSUME NEW p \in Procs, Finish(p), SealsSame PROVE SealInv'
  BY <1>1, <1>3, SealsSameMove DEF Finish, Sealing, Recorded, idle
<1>4. ASSUME NEW p \in Procs, Create(p) PROVE SealInv'
  <2> DEFINE b == [n |-> calls + 1, by |-> p, starts |-> 0]
             r == [idle EXCEPT !.pc = "queued", !.body = b]
  <2>1. proc' = [proc EXCEPT ![p] = r] /\ SealsSame
    BY <1>4 DEF Create, SealsSame
  <2>2. r.pc = "queued" /\ r.op = "append"
    BY DEF idle
  <2> HIDE DEF r
  <2> QED
    BY <1>1, <2>1, <2>2, SealsSameMove DEF Sealing, Recorded
<1>5. ASSUME NEW p \in Procs, Seal(p) PROVE SealInv'
  <2> DEFINE r == [idle EXCEPT !.pc = "seal", !.op = "seal", !.seal = seals + 1]
  <2>1. /\ proc' = [proc EXCEPT ![p] = r] /\ seals' = seals + 1
        /\ UNCHANGED <<epochs, incidents, damaged>> /\ seals < MaxEpochs
    BY <1>5 DEF Seal
  <2>2. r.pc = "seal" /\ r.op = "seal" /\ r.seal = seals + 1
    BY DEF idle
  <2> HIDE DEF r
  <2>3. seals + 1 \in EpochIds /\ seals + 1 \in 1 .. seals'
    BY <1>2, <2>1, ConstantsAssumption DEF EpochIds
  <2>4. epochs[seals + 1].status = "ABSENT"
    BY <1>2, <2>3 DEF SealInv
  <2>5. /\ SealsKept /\ SealTrail'
    BY <1>2, <2>1 DEF SealsKept, SealInv, SealTrail
  <2>6. \A e \in EpochIds : epochs'[e].status # "ABSENT" => e <= seals'
    BY <1>2, <2>1 DEF SealInv, EpochIds
  <2>7. Recorded(r, epochs', incidents', damaged', seals')
    BY <2>2, <2>3 DEF Recorded
  <2>8. \A q \in Procs : proc'[q] = IF q = p THEN r ELSE proc[q]
    BY <1>2, <2>1
  <2>9. \A q \in Procs : Sealing(proc'[q]) => epochs'[proc'[q].seal].status = "ABSENT"
    BY <2>1, <2>2, <2>4, <2>8 DEF SealInv
  <2>10. \A q \in Procs \ {p} : Sealing(proc[q]) => proc[q].seal # r.seal
    <3>1. \A q \in Procs : Sealing(proc[q]) => proc[q].seal \in 1 .. seals
      BY DEF SealInv, Recorded
    <3> QED
      BY <1>2, <2>2, <3>1
  <2> QED
    BY <1>1, <2>1, <2>5, <2>6, <2>7, <2>9, <2>10, SealMove
<1>6. ASSUME NEW p \in Procs, NEW e \in EpochIds, EpochFound(p, e), proc[p].pc # "idle",
             SealsSame, epochs[e].status # "ABSENT" \/ proc[p].op # "seal"
      PROVE  SealInv'
  <2> DEFINE r == [proc[p] EXCEPT !.epoch = e,
                    !.pc = IF proc[p].op = "seal" THEN "verify" ELSE "tail"]
  <2>1. proc' = [proc EXCEPT ![p] = r]
    BY <1>2, <1>6 DEF EpochFound
  <2>2. /\ r.op = proc[p].op /\ r.seal = proc[p].seal /\ r.epoch = e
        /\ r.pc = IF proc[p].op = "seal" THEN "verify" ELSE "tail"
    BY <1>2 DEF ProcType
  <2> HIDE DEF r
  <2>3. Recorded(proc[p], epochs, incidents, damaged, seals)
    BY DEF SealInv
  <2>4. Recorded(r, epochs', incidents', damaged', seals')
    BY <1>6, <2>2, <2>3 DEF Recorded, SealsSame, Sealing
  <2> QED
    BY <1>1, <1>6, <2>1, <2>2, <2>4, SealsSameMove DEF Sealing
<1>7. ASSUME NEW p \in Procs, NEW pc \in {"mkepoch", "refetch", "tail", "insert", "newepoch"},
             NEW r, proc' = [proc EXCEPT ![p] = r], proc[p].pc # "idle",
             r.pc = pc, r.op = proc[p].op, r.seal = proc[p].seal, r.epoch = proc[p].epoch,
             SealsSame, pc = "refetch" => epochs[DefaultEpoch].status # "ABSENT",
             pc # "newepoch"
      PROVE  SealInv'
  <2>1. Recorded(proc[p], epochs, incidents, damaged, seals)
    BY DEF SealInv
  <2>2. Recorded(r, epochs', incidents', damaged', seals')
    BY <1>7, <2>1 DEF Recorded, SealsSame, Sealing
  <2> QED
    BY <1>1, <1>7, <2>2, SealsSameMove DEF Sealing
<1>8. ASSUME NEW p \in Procs, NEW pc \in {"mkepoch", "refetch"}, Goto(p, pc), proc[p].pc # "idle",
             SealsSame, pc = "refetch" => epochs[DefaultEpoch].status # "ABSENT"
      PROVE  SealInv'
  <2> DEFINE r == [proc[p] EXCEPT !.pc = pc]
  <2>1. proc' = [proc EXCEPT ![p] = r]
    BY <1>2, <1>8 DEF Goto
  <2>2. r.pc = pc /\ r.op = proc[p].op /\ r.seal = proc[p].seal /\ r.epoch = proc[p].epoch
    BY <1>2 DEF ProcType
  <2> HIDE DEF r
  <2> QED
    BY <1>7, <1>8, <2>1, <2>2
<1>9. ASSUME NEW p \in Procs, FindActiveEpoch(p) PROVE SealInv'
  <2>1. proc[p].pc # "idle" /\ SealsSame
    BY <1>9 DEF FindActiveEpoch, SealsSame
  <2>2. ASSUME NEW e \in EpochIds, LatestActive(e), EpochFound(p, e) PROVE SealInv'
    BY <1>6, <2>1, <2>2 DEF LatestActive, ActiveEpochs
  <2>3. CASE Goto(p, "mkepoch")
    BY <1>8, <2>1, <2>3
  <2> QED
    BY <1>9, <2>2, <2>3 DEF FindActiveEpoch
<1>10. ASSUME NEW p \in Procs, RefetchActiveEpoch(p) PROVE SealInv'
  <2>1. /\ proc[p].pc = "refetch" /\ SealsSame
    BY <1>10 DEF RefetchActiveEpoch, SealsSame
  <2>2. epochs[DefaultEpoch].status # "ABSENT"
    BY <2>1 DEF SealInv, Recorded
  <2> QED
    BY <1>2, <1>6, <1>10, <2>1, <2>2 DEF RefetchActiveEpoch, LatestActive, ActiveEpochs
<1>11. ASSUME NEW p \in Procs, CreateDefaultEpoch(p) PROVE SealInv'
  <2>1. proc[p].pc = "mkepoch" /\ UNCHANGED <<incidents, seals, damaged>>
    BY <1>11 DEF CreateDefaultEpoch
  <2>2. CASE epochs[DefaultEpoch].status # "ABSENT"
    <3>1. Goto(p, "refetch") /\ SealsSame
      BY <1>11, <2>1, <2>2 DEF CreateDefaultEpoch, SealsSame
    <3> QED
      BY <1>8, <2>1, <2>2, <3>1
  <2>3. CASE epochs[DefaultEpoch].status = "ABSENT"
    <3> DEFINE r == [proc[p] EXCEPT !.epoch = DefaultEpoch,
                      !.pc = IF proc[p].op = "seal" THEN "verify" ELSE "tail"]
    <3>1. /\ epochs' = [epochs EXCEPT ![DefaultEpoch].status = "ACTIVE"]
          /\ EpochFound(p, DefaultEpoch)
      BY <1>11, <2>3 DEF CreateDefaultEpoch
    <3>2. proc' = [proc EXCEPT ![p] = r]
      BY <1>2, <3>1 DEF EpochFound
    <3>3. /\ r.op = proc[p].op /\ r.seal = proc[p].seal /\ r.epoch = DefaultEpoch
          /\ r.pc \in {"verify", "tail"} /\ (r.pc = "verify" => r.op = "seal")
      BY <1>2 DEF ProcType
    <3> HIDE DEF r
    <3>4. /\ epochs'[DefaultEpoch].status = "ACTIVE"
          /\ \A e \in EpochIds \ {DefaultEpoch} : epochs'[e] = epochs[e]
          /\ \A e \in EpochIds : epochs'[e].incident = epochs[e].incident
                                /\ epochs'[e].previous = epochs[e].previous
                                /\ epochs[e].previous \in EpochIds
      BY <1>2, <3>1 DEF EpochType
    <3>5. SealsKept
      BY <1>2, <2>1, <2>3, <3>4 DEF SealsKept
    <3>6. SealTrail'
      BY <2>1, <2>3, <3>4 DEF SealInv, SealTrail
    <3>7. \A e \in EpochIds : epochs'[e].status # "ABSENT" => e <= seals'
      BY <1>2, <2>1, <3>4 DEF SealInv, DefaultEpoch
    <3>8. Recorded(proc[p], epochs, incidents, damaged, seals)
      BY DEF SealInv
    <3>9. Recorded(r, epochs', incidents', damaged', seals')
      BY <2>1, <3>3, <3>4, <3>8 DEF Recorded, Sealing
    <3>10. \A q \in Procs : proc'[q] = IF q = p THEN r ELSE proc[q]
      BY <1>2, <3>2
    <3>11. ASSUME NEW q \in Procs, Sealing(proc'[q]) PROVE epochs'[proc'[q].seal].status = "ABSENT"
      <4>1. Sealing(proc[q]) /\ proc'[q].seal = proc[q].seal
        BY <2>1, <3>3, <3>10, <3>11 DEF Sealing
      <4>2. proc[q].seal \in 1 .. seals /\ epochs[proc[q].seal].status = "ABSENT"
            /\ proc[q].seal \in EpochIds
        BY <1>2, <4>1 DEF SealInv, Recorded, ProcType
      <4> QED
        BY <1>2, <3>4, <4>1, <4>2 DEF DefaultEpoch
    <3>12. Sealing(r) => \A q \in Procs \ {p} : Sealing(proc[q]) => proc[q].seal # r.seal
      BY <2>1, <3>3 DEF SealInv, Sealing
    <3> QED
      BY <1>1, <3>2, <3>5, <3>6, <3>7, <3>9, <3>11, <3>12, SealMove
  <2> QED
    BY <2>2, <2>3
<1>12. ASSUME NEW p \in Procs, ReadTail(p) PROVE SealInv'
  <2>1. proc[p].pc = "tail" /\ SealsSame
    BY <1>12 DEF ReadTail, SealsSame
  <2>2. PICK h : proc' = [proc EXCEPT ![p].pc = "insert", ![p].prev = h]
    BY <1>12 DEF ReadTail
  <2> DEFINE r == [proc[p] EXCEPT !.pc = "insert", !.prev = h]
  <2>3. proc' = [proc EXCEPT ![p] = r]
    BY <1>2, <2>2
  <2>4. r.pc = "insert" /\ r.op = proc[p].op /\ r.seal = proc[p].seal /\ r.epoch = proc[p].epoch
    BY <1>2 DEF ProcType
  <2> HIDE DEF r
  <2> QED
    BY <1>7, <2>1, <2>3, <2>4
<1>13. ASSUME NEW p \in Procs, DuplicatePrevHash(p) PROVE SealInv'
  <2>1. proc[p].pc = "insert" /\ SealsSame
    BY <1>13 DEF DuplicatePrevHash, SealsSame
  <2>2. CASE proc' = [proc EXCEPT ![p].pc = "tail", ![p].tries = @ + 1]
    <3> DEFINE r == [proc[p] EXCEPT !.pc = "tail", !.tries = @ + 1]
    <3>1. proc' = [proc EXCEPT ![p] = r]
      BY <1>2, <2>2
    <3>2. r.pc = "tail" /\ r.op = proc[p].op /\ r.seal = proc[p].seal /\ r.epoch = proc[p].epoch
      BY <1>2 DEF ProcType
    <3> HIDE DEF r
    <3> QED
      BY <1>7, <2>1, <3>1, <3>2
  <2> QED
    BY <1>3, <1>13, <2>1, <2>2 DEF DuplicatePrevHash
<1>14. ASSUME NEW p \in Procs, CreateIncident(p) PROVE SealInv'
  <2> DEFINE f == proc[p].epoch
             r == [proc[p] EXCEPT !.pc = "mark", !.now = clock + 1]
  <2>1. /\ proc[p].pc = "verify" /\ ~VerifyChain(events[f], VerifyLimit)
        /\ incidents' = incidents \cup {[id |-> proc[p].seal, epoch |-> f]}
        /\ UNCHANGED <<epochs, seals, damaged>>
    BY <1>14 DEF CreateIncident
  <2>2. proc' = [proc EXCEPT ![p] = r]
    BY <1>2, <1>14 DEF CreateIncident
  <2>3. r.pc = "mark" /\ r.op = proc[p].op /\ r.seal = proc[p].seal /\ r.epoch = f
    BY <1>2 DEF ProcType
  <2> HIDE DEF r
  <2>4. f \in EpochIds /\ VerifyLimit \in Nat
    BY <1>2, ConstantsAssumption DEF ProcType
  <2>5. f \in damaged
    <3> SUFFICES ASSUME f \in Trusted PROVE FALSE
      BY <2>4 DEF Trusted
    <3>1. VerifyChain(events[f], VerifyLimit)
      BY <1>1, <2>4, TrustedVerified
    <3> QED
      BY <2>1, <3>1
  <2>6. /\ SealsKept /\ SealTrail'
        /\ \A e \in EpochIds : epochs'[e].status # "ABSENT" => e <= seals'
    BY <1>2, <2>1 DEF SealsKept, SealInv, SealTrail
  <2>7. Recorded(proc[p], epochs, incidents, damaged, seals)
    BY DEF SealInv
  <2>8. proc[p].op = "seal"
    BY <1>1, <2>1 DEF FlowInv
  <2>9. Recorded(r, epochs', incidents', damaged', seals')
    BY <2>1, <2>3, <2>5, <2>7, <2>8 DEF Recorded, Sealing
  <2>10. \A q \in Procs : proc'[q] = IF q = p THEN r ELSE proc[q]
    BY <1>2, <2>2
  <2>11. \A q \in Procs : Sealing(proc'[q]) => Sealing(proc[q]) /\ proc'[q].seal = proc[q].seal
    BY <2>1, <2>3, <2>10 DEF Sealing
  <2>12. \A q \in Procs : Sealing(proc'[q]) => epochs'[proc'[q].seal].status = "ABSENT"
    BY <2>1, <2>11 DEF SealInv
  <2>13. Sealing(r) => \A q \in Procs \ {p} : Sealing(proc[q]) => proc[q].seal # r.seal
    BY <2>1, <2>3 DEF SealInv, Sealing
  <2> QED
    BY <1>1, <2>2, <2>6, <2>9, <2>12, <2>13, SealMove
<1>15. ASSUME NEW p \in Procs, MarkCompromised(p) PROVE SealInv'
  <2> DEFINE f == proc[p].epoch
             r == [proc[p] EXCEPT !.pc = "newepoch"]
  <2>1. /\ proc[p].pc = "mark" /\ UNCHANGED <<incidents, seals, damaged>>
    BY <1>15 DEF MarkCompromised
  <2>2. proc' = [proc EXCEPT ![p] = r]
    BY <1>2, <1>15 DEF MarkCompromised, Goto
  <2>3. r.pc = "newepoch" /\ r.op = proc[p].op /\ r.seal = proc[p].seal /\ r.epoch = f
    BY <1>2 DEF ProcType
  <2> HIDE DEF r
  <2>4. proc[p].op = "seal" /\ f \in EpochIds
    BY <1>1, <1>2, <2>1 DEF FlowInv, ProcType
  <2>5. /\ [id |-> proc[p].seal, epoch |-> f] \in incidents /\ f \in damaged
        /\ epochs[f].status # "ABSENT" /\ proc[p].seal \in 1 .. seals
    BY <2>1, <2>4 DEF SealInv, Recorded, Sealing
  <2>6. epochs' = [epochs EXCEPT ![f].status = "COMPROMISED", ![f].incident = proc[p].seal]
    BY <1>15, <2>5 DEF MarkCompromised
  <2>7. /\ epochs'[f].status = "COMPROMISED" /\ epochs'[f].incident = proc[p].seal
        /\ \A e \in EpochIds \ {f} : epochs'[e] = epochs[e]
        /\ \A e \in EpochIds : epochs'[e].previous = epochs[e].previous
                              /\ epochs[e].previous \in EpochIds
    BY <1>2, <2>4, <2>6 DEF EpochType
  <2> HIDE DEF f
  <2>8. SealsKept
    BY <1>2, <2>1, <2>5, <2>7 DEF SealsKept
  <2>9. SealTrail'
    <3> SUFFICES ASSUME NEW e \in EpochIds
                 PROVE  /\ e # DefaultEpoch /\ epochs'[e].status # "ABSENT" =>
                             /\ \E i \in incidents' : i.epoch = epochs'[e].previous
                             /\ epochs'[epochs'[e].previous].status = "COMPROMISED"
                        /\ e # DefaultEpoch /\ epochs'[e].status = "ACTIVE" =>
                             [id |-> epochs'[e].incident, epoch |-> epochs'[e].previous] \in incidents'
                        /\ epochs'[e].status = "COMPROMISED" =>
                             /\ e \in damaged'
                             /\ [id |-> epochs'[e].incident, epoch |-> e] \in incidents'
      BY DEF SealTrail
    <3>1. SealTrail /\ incidents' = incidents /\ damaged' = damaged
      BY <2>1 DEF SealInv
    <3>2. epochs'[e].previous = epochs[e].previous /\ epochs[e].previous \in EpochIds
      BY <2>7
    <3>3. ASSUME e # DefaultEpoch, epochs'[e].status # "ABSENT"
          PROVE  /\ \E i \in incidents' : i.epoch = epochs'[e].previous
                 /\ epochs'[epochs'[e].previous].status = "COMPROMISED"
      <4>1. epochs[e].status # "ABSENT"
        BY <2>5, <2>7, <3>3
      <4> QED
        BY <2>8, <3>1, <3>2, <3>3, <4>1 DEF SealTrail, SealsKept
    <3>4. CASE e = f
      <4>1. epochs'[e].status = "COMPROMISED" /\ epochs'[e].status # "ACTIVE"
        BY <2>7, <3>4
      <4>2. e \in damaged' /\ [id |-> epochs'[e].incident, epoch |-> e] \in incidents'
        BY <2>5, <2>7, <3>1, <3>4
      <4> QED
        BY <3>3, <4>1, <4>2
    <3>5. CASE e # f
      <4>1. epochs'[e] = epochs[e]
        BY <2>7, <3>5
      <4> QED
        BY <3>1, <3>3, <4>1 DEF SealTrail
    <3> QED
      BY <3>4, <3>5
  <2>10. \A e \in EpochIds : epochs'[e].status # "ABSENT" => e <= seals'
    BY <2>1, <2>5, <2>7 DEF SealInv
  <2>11. Recorded(r, epochs', incidents', damaged', seals')
    BY <2>1, <2>3, <2>5, <2>7 DEF Recorded
  <2>12. \A q \in Procs : proc'[q] = IF q = p THEN r ELSE proc[q]
    BY <1>2, <2>2
  <2>13. ASSUME NEW q \in Procs, Sealing(proc'[q]) PROVE epochs'[proc'[q].seal].status = "ABSENT"
    <3>1. Sealing(proc[q]) /\ proc'[q].seal = proc[q].seal
      BY <2>1, <2>3, <2>12, <2>13 DEF Sealing
    <3>2. epochs[proc[q].seal].status = "ABSENT" /\ proc[q].seal \in EpochIds
      BY <1>2, <3>1 DEF SealInv, ProcType
    <3> QED
      BY <2>5, <2>7, <3>1, <3>2
  <2>14. Sealing(r) => \A q \in Procs \ {p} : Sealing(proc[q]) => proc[q].seal # r.seal
    BY <2>1, <2>3 DEF SealInv, Sealing
  <2> QED
    BY <1>1, <2>2, <2>8, <2>9, <2>10, <2>11, <2>13, <2>14, SealMove
<1>16. ASSUME NEW p \in Procs, StartEpoch(p) PROVE SealInv'
  <2> DEFINE f == proc[p].epoch
             s == proc[p].seal
             b == [n |-> calls + 1, by |-> p, starts |-> s]
             r == [idle EXCEPT !.pc = "queued", !.body = b]
  <2>1. /\ proc[p].pc = "newepoch" /\ UNCHANGED <<incidents, seals, damaged>>
        /\ proc' = [proc EXCEPT ![p] = r]
        /\ epochs' = [epochs EXCEPT ![s] = [status |-> "ACTIVE", startedAt |-> proc[p].now,
                                            previous |-> f, incident |-> s]]
    BY <1>16 DEF StartEpoch
  <2>2. r.pc = "queued" /\ r.op = "append"
    BY DEF idle
  <2> HIDE DEF r
  <2>3. proc[p].op = "seal" /\ f \in EpochIds /\ s \in EpochIds
    BY <1>1, <1>2, <2>1 DEF FlowInv, ProcType
  <2>4. /\ [id |-> s, epoch |-> f] \in incidents /\ f \in damaged
        /\ epochs[f].status = "COMPROMISED" /\ s \in 1 .. seals
        /\ epochs[s].status = "ABSENT" /\ Sealing(proc[p])
        /\ \A q \in Procs \ {p} : Sealing(proc[q]) => proc[q].seal # s
    BY <2>1, <2>3 DEF SealInv, Recorded, Sealing
  <2>5. /\ epochs'[s].status = "ACTIVE" /\ epochs'[s].previous = f /\ epochs'[s].incident = s
        /\ \A e \in EpochIds \ {s} : epochs'[e] = epochs[e]
        /\ \A e \in EpochIds : epochs[e].previous \in EpochIds
    BY <1>2, <2>1, <2>3 DEF EpochType
  <2> HIDE DEF f, s
  <2>6. SealsKept
    BY <1>2, <2>1, <2>4, <2>5 DEF SealsKept
  <2>7. SealTrail'
    BY <2>1, <2>3, <2>4, <2>5 DEF SealInv, SealTrail
  <2>8. \A e \in EpochIds : epochs'[e].status # "ABSENT" => e <= seals'
    BY <1>2, <2>1, <2>4, <2>5 DEF SealInv
  <2>9. Recorded(r, epochs', incidents', damaged', seals') /\ ~Sealing(r)
    BY <2>2 DEF Recorded, Sealing
  <2>10. \A q \in Procs : proc'[q] = IF q = p THEN r ELSE proc[q]
    BY <1>2, <2>1
  <2>11. ASSUME NEW q \in Procs, Sealing(proc'[q]) PROVE epochs'[proc'[q].seal].status = "ABSENT"
    <3>1. q # p /\ proc'[q] = proc[q] /\ Sealing(proc[q])
      BY <2>9, <2>10, <2>11
    <3>2. epochs[proc[q].seal].status = "ABSENT" /\ proc[q].seal \in EpochIds /\ proc[q].seal # s
      BY <1>2, <2>4, <3>1 DEF SealInv, ProcType
    <3> QED
      BY <2>5, <3>1, <3>2
  <2> QED
    BY <1>1, <2>1, <2>6, <2>7, <2>8, <2>9, <2>11, SealMove
<1>17. ASSUME NEW p \in Procs,
              TailAmbiguous(p) \/ Insert(p) \/ RefuseSeal(p) \/ DbError(p) \/ InsertUnacknowledged(p)
       PROVE  SealInv'
  BY <1>3, <1>17 DEF TailAmbiguous, Insert, RefuseSeal, DbError, InsertUnacknowledged, SealsSame
(* Nobody seals who did not before. *)
<1>18. ASSUME SealsSame, \A p \in Procs : proc'[p] \in {proc[p], idle} PROVE SealInv'
  <2>1. \A p \in Procs : Recorded(proc'[p], epochs', incidents', damaged', seals')
    <3> TAKE p \in Procs
    <3>1. CASE proc'[p] = idle
      BY <3>1 DEF Recorded, Sealing, idle
    <3>2. CASE proc'[p] = proc[p]
      BY <1>1, <1>2, <1>18, <3>2, SealsSameKept, RecordedKept DEF SealInv
    <3> QED
      BY <1>18, <3>1, <3>2
  <2>2. \A p \in Procs : Sealing(proc'[p]) => proc'[p] = proc[p]
    BY <1>18 DEF Sealing, idle
  <2>3. /\ SealTrail'
        /\ \A e \in EpochIds : epochs'[e].status # "ABSENT" => e <= seals'
    BY <1>18, SealsSameKept
  <2>4. epochs' = epochs
    BY <1>18 DEF SealsSame
  <2> QED
    BY <1>1, <2>1, <2>2, <2>3, <2>4 DEF SealInv
<1>19. ASSUME NEW i \in Instances, Crash(i) PROVE SealInv'
  BY <1>18, <1>19 DEF Crash, SealsSame
<1>20. ASSUME NEW e \in EpochIds, NEW ev \in events[e], EditEvent(e, ev) \/ LoseEvent(e, ev)
       PROVE  SealInv'
  BY <1>18, <1>20 DEF EditEvent, LoseEvent, SealsSame
<1>21. CASE UNCHANGED vars
  BY <1>18, <1>21 DEF vars, SealsSame
<1>22. ASSUME NEW p \in Procs, AppendStep(p) PROVE SealInv'
  BY <1>9, <1>10, <1>11, <1>12, <1>13, <1>17, <1>22 DEF AppendStep
<1>23. ASSUME NEW p \in Procs, SealStep(p) PROVE SealInv'
  BY <1>14, <1>15, <1>16, <1>17, <1>23 DEF SealStep
<1>24. ASSUME Fault PROVE SealInv'
  <2>1. CASE \E p \in Procs : DbError(p) \/ InsertUnacknowledged(p)
    BY <1>17, <2>1
  <2>2. CASE \E i \in Instances : Crash(i)
    BY <1>19, <2>2
  <2>3. CASE \E e \in EpochIds : \E ev \in events[e] : EditEvent(e, ev) \/ LoseEvent(e, ev)
    BY <1>20, <2>3
  <2> QED
    BY <1>24, <2>1, <2>2, <2>3 DEF Fault
<1> QED
  BY <1>4, <1>5, <1>21, <1>22, <1>23, <1>24 DEF Next

(***************************************************************************)
(* A recovery epoch exists only behind its incident and a marked           *)
(* predecessor, and only what was damaged is ever marked.                  *)
(***************************************************************************)
THEOREM SealsLeaveTrail == Spec => []SealTrail
<1>1. SealInv => SealTrail
  BY DEF SealInv
<1> QED
  BY <1>1, SealInit, SealStepKeeps, PTL DEF Spec

-----------------------------------------------------------------------------
(***************************************************************************)
(* The refinement of AuditLog.  The log of an epoch is the hash of its     *)
(* longest event; storing an event appends its payload, which no log has.  *)
(***************************************************************************)
LogView == [e \in EpochIds |-> IF e \in damaged THEN <<>> ELSE LogOf(events[e])]

LogBody == [n : 1 .. MaxEvents + MaxEpochs, by : Procs, starts : EpochIds]

LEMMA LogTop ==
    ASSUME NEW evs \in SUBSET Event, OnOneLine(evs), NEW top \in evs,
           \A other \in evs : Len(other.hash) <= Len(top.hash)
    PROVE  LogOf(evs) = top.hash
<1> DEFINE Longest(ev) == \A other \in evs : Len(other.hash) <= Len(ev.hash)
           last == CHOOSE ev \in evs : Longest(ev)
<1>1. last \in evs /\ Longest(last)
  OBVIOUS
<1>2. LogOf(evs) = last.hash
  BY DEF LogOf
<1> HIDE DEF last
<1>3. /\ last.hash \in Seq(Body) /\ top.hash \in Seq(Body)
      /\ Len(last.hash) \in Nat /\ Len(top.hash) \in Nat
  BY <1>1 DEF Event, Hash
<1>4. Len(last.hash) = Len(top.hash)
  BY <1>1, <1>3
<1>5. SubSeq(last.hash, 1, Len(last.hash)) = last.hash /\ SubSeq(top.hash, 1, Len(top.hash)) = top.hash
  BY <1>3, WholePrefix
<1>6. Precedes(last, top) \/ Precedes(top, last)
  BY <1>1 DEF OnOneLine
<1> QED
  BY <1>2, <1>4, <1>5, <1>6 DEF Precedes

LEMMA LogGrows ==
    ASSUME NEW evs \in SUBSET Event, Line(evs), NEW body \in Body, NEW prev \in Hash,
           \A ev \in evs : ev.prev # prev,
           prev = <<>> \/ \E ev \in evs : ev.hash = prev
    PROVE  LogOf(evs \cup {[body |-> body, prev |-> prev, hash |-> Append(prev, body)]})
                = Append(LogOf(evs), body)
<1> DEFINE new == [body |-> body, prev |-> prev, hash |-> Append(prev, body)]
           all == evs \cup {new}
<1>1. Line(all)
  BY ExtendLine
<1>2. /\ new \in Event /\ new.hash = Append(prev, body)
      /\ Len(prev) \in Nat /\ Len(new.hash) = Len(prev) + 1
  BY AppendLen DEF Event, Hash
<1> HIDE DEF new
<1>3. \A b \in evs : Len(b.hash) <= Len(prev) /\ Len(b.hash) \in Nat
  <2> TAKE b \in evs
  <2>1. b \in Event
    OBVIOUS
  <2>2. Len(b.hash) \in Nat
    BY <2>1 DEF Event, Hash
  <2> QED
    BY <1>2, <2>2, BeforeNew
<1>4. all \in SUBSET Event /\ OnOneLine(all) /\ new \in all
  BY <1>1, <1>2 DEF Line
<1>5. \A other \in all : Len(other.hash) <= Len(new.hash)
  BY <1>2, <1>3
<1>6. LogOf(all) = new.hash
  BY <1>4, <1>5, LogTop
<1>7. LogOf(evs) = prev
  <2>1. CASE evs = {}
    BY <2>1 DEF LogOf
  <2>2. CASE evs # {}
    <3>1. prev # <<>>
      BY <2>2, NoGenesisNoEvents
    <3>2. PICK top \in evs : top.hash = prev
      BY <3>1
    <3>3. \A other \in evs : Len(other.hash) <= Len(top.hash)
      BY <1>3, <3>2
    <3>4. OnOneLine(evs)
      BY DEF Line
    <3> QED
      BY <3>2, <3>3, <3>4, LogTop
  <2> QED
    BY <2>1, <2>2
<1> QED
  BY <1>2, <1>6, <1>7 DEF new

(* What is in a log was stored, and what was stored is no longer in flight. *)
LEMMA LogStored ==
    ASSUME VerifyInv, NEW e \in EpochIds
    PROVE  LogView[e] \in Hash /\ Known(LogView[e], Pending, calls)
<1>1. CASE e \in damaged \/ events[e] = {}
  <2>1. LogView[e] = <<>>
    BY <1>1 DEF LogView, LogOf
  <2>2. <<>> \in Hash /\ Len(<<>>) = 0
    BY DEF Hash
  <2> QED
    BY <2>1, <2>2 DEF Known
<1>2. CASE e \notin damaged /\ events[e] # {}
  <2> DEFINE evs == events[e]
  <2>1. /\ evs \in SUBSET Event /\ Line(evs) /\ OnOneLine(evs) /\ Counted(evs) /\ IsFiniteSet(evs)
        /\ StoreInv
    BY <1>2 DEF VerifyInv, ChainInv, LineInv, TypeInv, TypeOK, Trusted, Line, IdentityInv
  <2>2. Cardinality(evs) \in Nat
    BY <2>1, FS_CardinalityType
  <2>3. Cardinality(evs) # 0
    BY <1>2, <2>1, FS_EmptySet
  <2>4. PICK top \in evs : Len(top.hash) = Cardinality(evs)
    <3>1. Cardinality(evs) \in 1 .. Cardinality(evs)
      BY <2>2, <2>3
    <3> QED
      BY <2>1, <3>1 DEF Counted
  <2>5. LogOf(evs) = top.hash
    BY <2>1, <2>4, LogTop DEF Counted
  <2>6. top.hash \in Hash /\ Known(top.hash, Pending, calls)
    BY <2>1, <2>4 DEF StoreInv, Event
  <2> QED
    BY <1>2, <2>5, <2>6 DEF LogView
<1> QED
  BY <1>1, <1>2

-----------------------------------------------------------------------------
(* No more payloads than events submitted and epochs announced. *)
Started == {e \in EpochIds \ {DefaultEpoch} : epochs[e].status # "ABSENT"}

CallsInv ==
    /\ SealInv
    /\ calls <= MaxEvents + Cardinality(Started)

LEMMA StartedSize ==
    ASSUME NEW eps
    PROVE  LET started == {e \in EpochIds \ {DefaultEpoch} : eps[e].status # "ABSENT"}
           IN  IsFiniteSet(started) /\ Cardinality(started) \in Nat /\ Cardinality(started) <= MaxEpochs
<1> DEFINE started == {e \in EpochIds \ {DefaultEpoch} : eps[e].status # "ABSENT"}
<1>1. started \subseteq 1 .. MaxEpochs
  BY ConstantsAssumption DEF EpochIds, DefaultEpoch
<1>2. IsFiniteSet(1 .. MaxEpochs) /\ Cardinality(1 .. MaxEpochs) = MaxEpochs
  BY ConstantsAssumption, FS_Interval
<1> HIDE DEF started
<1> QED
  BY <1>1, <1>2, PartSize DEF started

LEMMA CallsInit == Init => CallsInv
<1> SUFFICES ASSUME Init PROVE CallsInv
  OBVIOUS
<1>1. SealInv
  BY SealInit
<1>2. Cardinality(Started) \in Nat
  BY StartedSize DEF Started
<1> QED
  BY <1>1, <1>2, ConstantsAssumption DEF Init, CallsInv

LEMMA CallsStep == CallsInv /\ [Next]_vars => CallsInv'
<1> SUFFICES ASSUME CallsInv, [Next]_vars PROVE CallsInv'
  OBVIOUS
<1>1. SealInv /\ SealInv' /\ TypeInv /\ FlowTypeInv /\ FlowInv
  BY SealStepKeeps
     DEF CallsInv, SealInv, VerifyInv, ChainInv, IdentityInv, FIFOInv, FlowTypeInv
<1>2. /\ epochs \in [EpochIds -> EpochType] /\ calls \in Nat
      /\ proc \in [Procs -> ProcType] /\ MaxEvents \in Nat
      /\ DefaultEpoch \in EpochIds
  BY <1>1, ConstantsAssumption DEF TypeInv, TypeOK, EpochIds, DefaultEpoch
<1>3. /\ IsFiniteSet(Started) /\ Cardinality(Started) \in Nat
      /\ IsFiniteSet(Started') /\ Cardinality(Started') \in Nat
  BY StartedSize DEF Started
<1>4. Started \subseteq Started'
  <2>1. \A e \in EpochIds : epochs[e].status # "ABSENT" => epochs'[e].status # "ABSENT"
    <3>1. CASE UNCHANGED epochs
      BY <3>1
    <3>2. ASSUME NEW p \in Procs, CreateDefaultEpoch(p)
          PROVE  \A e \in EpochIds : epochs[e].status # "ABSENT" => epochs'[e].status # "ABSENT"
      BY <1>2, <3>2 DEF CreateDefaultEpoch, EpochType
    <3>3. ASSUME NEW p \in Procs, MarkCompromised(p)
          PROVE  \A e \in EpochIds : epochs[e].status # "ABSENT" => epochs'[e].status # "ABSENT"
      BY <1>2, <3>3 DEF MarkCompromised, EpochType
    <3>4. ASSUME NEW p \in Procs, StartEpoch(p)
          PROVE  \A e \in EpochIds : epochs[e].status # "ABSENT" => epochs'[e].status # "ABSENT"
      BY <1>2, <3>4 DEF StartEpoch
    <3>5. ASSUME NEW p \in Procs, AppendStep(p)
          PROVE  UNCHANGED epochs \/ CreateDefaultEpoch(p)
      BY <3>5 DEF AppendStep, FindActiveEpoch, RefetchActiveEpoch, ReadTail, TailAmbiguous, Insert,
                  DuplicatePrevHash
    <3>6. ASSUME NEW p \in Procs, SealStep(p)
          PROVE  UNCHANGED epochs \/ MarkCompromised(p) \/ StartEpoch(p)
      BY <3>6 DEF SealStep, RefuseSeal, CreateIncident
    <3>7. ASSUME NEW p \in Procs, Create(p) \/ Seal(p) PROVE UNCHANGED epochs
      BY <3>7 DEF Create, Seal
    <3>8. ASSUME Fault PROVE UNCHANGED epochs
      BY <3>8 DEF Fault, DbError, InsertUnacknowledged, Crash, EditEvent, LoseEvent
    <3>9. ASSUME UNCHANGED vars PROVE UNCHANGED epochs
      BY <3>9 DEF vars
    <3> QED
      BY <3>1, <3>2, <3>3, <3>4, <3>5, <3>6, <3>7, <3>8, <3>9 DEF Next
  <2> QED
    BY <2>1 DEF Started
<1>5. Cardinality(Started) <= Cardinality(Started')
  BY <1>3, <1>4, PartSize
<1>6. CASE UNCHANGED calls
  BY <1>1, <1>2, <1>3, <1>5, <1>6 DEF CallsInv
<1>7. ASSUME NEW p \in Procs, Create(p) PROVE CallsInv'
  BY <1>1, <1>2, <1>3, <1>7 DEF Create, CallsInv
<1>8. ASSUME NEW p \in Procs, StartEpoch(p) PROVE CallsInv'
  <2> DEFINE s == proc[p].seal
  <2>1. Sealing(proc[p]) /\ s \in EpochIds
    BY <1>1, <1>2, <1>8 DEF StartEpoch, FlowInv, Sealing, ProcType
  <2>2. epochs[s].status = "ABSENT" /\ s \in 1 .. seals
    BY <1>1, <2>1 DEF SealInv, Recorded
  <2>3. s # DefaultEpoch /\ epochs'[s].status = "ACTIVE" /\ calls' = calls + 1
    BY <1>2, <1>8, <2>1, <2>2 DEF StartEpoch, DefaultEpoch
  <2>4. s \notin Started /\ s \in Started'
    BY <2>1, <2>2, <2>3 DEF Started
  <2>5. Started \cup {s} \subseteq Started'
    BY <1>4, <2>4
  <2>6. Cardinality(Started \cup {s}) = Cardinality(Started) + 1
    BY <1>3, <2>4, FS_AddElement
  <2>7. Cardinality(Started) + 1 <= Cardinality(Started')
    BY <1>3, <2>5, <2>6, PartSize
  <2> QED
    BY <1>1, <1>2, <1>3, <2>3, <2>7 DEF CallsInv
<1>9. UNCHANGED calls \/ \E p \in Procs : Create(p) \/ StartEpoch(p)
  <2>1. ASSUME NEW p \in Procs, AppendStep(p) PROVE UNCHANGED calls
    BY <2>1 DEF AppendStep, FindActiveEpoch, CreateDefaultEpoch, RefetchActiveEpoch, ReadTail,
                TailAmbiguous, Insert, DuplicatePrevHash
  <2>2. ASSUME NEW p \in Procs, SealStep(p) PROVE UNCHANGED calls \/ StartEpoch(p)
    BY <2>2 DEF SealStep, RefuseSeal, CreateIncident, MarkCompromised
  <2>3. ASSUME NEW p \in Procs, Seal(p) PROVE UNCHANGED calls
    BY <2>3 DEF Seal
  <2>4. ASSUME Fault PROVE UNCHANGED calls
    BY <2>4 DEF Fault, DbError, InsertUnacknowledged, Crash, EditEvent, LoseEvent
  <2>5. ASSUME UNCHANGED vars PROVE UNCHANGED calls
    BY <2>5 DEF vars
  <2> QED
    BY <2>1, <2>2, <2>3, <2>4, <2>5 DEF Next
<1> QED
  BY <1>6, <1>7, <1>8, <1>9

-----------------------------------------------------------------------------
LEMMA LogInit == Init => Log!Init
<1> SUFFICES ASSUME Init PROVE Log!Init
  OBVIOUS
<1>1. \A e \in EpochIds : (IF e \in damaged THEN <<>> ELSE LogOf(events[e])) = <<>>
  BY DEF Init, LogOf
<1> QED
  BY <1>1 DEF Init, Log!Init, Trusted

LEMMA LogStep == CallsInv /\ [Next]_vars => [Log!Next]_Log!vars
<1> SUFFICES ASSUME CallsInv, [Next]_vars PROVE [Log!Next]_Log!vars
  OBVIOUS
<1>1. /\ SealInv /\ VerifyInv /\ ChainInv /\ LineInv /\ IdentityInv /\ FIFOInv /\ FlowTypeInv /\ TypeInv
  BY DEF CallsInv, SealInv, VerifyInv, ChainInv, IdentityInv, FIFOInv, FlowTypeInv
<1>2. /\ events \in [EpochIds -> SUBSET Event] /\ Trusted = EpochIds \ damaged /\ calls \in Nat
      /\ proc \in [Procs -> ProcType]
  BY <1>1 DEF TypeInv, TypeOK, Trusted
<1>3. ASSUME UNCHANGED <<events, damaged, acked>> PROVE UNCHANGED Log!vars
  BY <1>3 DEF Log!vars, Trusted
<1>4. ASSUME NEW p \in Procs, Stores(p) PROVE [Log!Next]_Log!vars
  <2> DEFINE f == proc[p].epoch
             b == proc[p].body
             entry == [epoch |-> f, body |-> b]
  <2>1. /\ f \in EpochIds /\ damaged' = damaged /\ Trusted' = Trusted
        /\ events' = [events EXCEPT ![f] = @ \cup {NewEvent(p)}]
        /\ acked' \in {acked, acked \cup {entry}}
        /\ \A e \in EpochIds \ {f} : events'[e] = events[e]
    BY <1>2, <1>4 DEF Stores, Store, Trusted, ProcType
  <2>2. b \in Body /\ b \in Pending /\ b.n <= calls /\ b.n \in Nat \ {0}
    BY <1>1, <1>4, PendingType
       DEF TypeInv, AppendsHoldBody, Stores, Appending, Body
  <2>3. b \in LogBody
    <3>1. calls <= MaxEvents + MaxEpochs
      <4>1. Cardinality(Started) \in Nat /\ Cardinality(Started) <= MaxEpochs
        BY StartedSize DEF Started
      <4>2. calls <= MaxEvents + Cardinality(Started)
        BY DEF CallsInv
      <4> QED
        BY <1>2, <4>1, <4>2, ConstantsAssumption
    <3>2. b.n \in 1 .. MaxEvents + MaxEpochs
      BY <1>2, <2>2, <3>1, ConstantsAssumption
    <3> QED
      BY <2>2, <3>2 DEF Body, LogBody
  <2>4. CASE f \in Trusted
    <3>1. LogOf(events'[f]) = Append(LogOf(events[f]), b)
      <4>1. events'[f] = events[f] \cup {NewEvent(p)}
        BY <1>2, <2>1
      <4> DEFINE evs == events[f]
                 prev == proc[p].prev
      <4>2. /\ evs \in SUBSET Event /\ Line(evs) /\ b \in Body /\ prev \in Hash
            /\ \A ev \in evs : ev.prev # prev
            /\ prev = <<>> \/ \E ev \in evs : ev.hash = prev
        BY <1>1, <1>4, <2>4, StoredFits
      <4>3. events'[f] = evs \cup {[body |-> b, prev |-> prev, hash |-> Append(prev, b)]}
        BY <4>1 DEF NewEvent
      <4> HIDE DEF evs, prev, b
      <4>4. LogOf(evs \cup {[body |-> b, prev |-> prev, hash |-> Append(prev, b)]})
                = Append(LogOf(evs), b)
        BY <4>2, LogGrows
      <4> QED
        BY <4>3, <4>4 DEF evs
    <3>2. LogView' = [LogView EXCEPT ![f] = Append(@, b)]
      <4>1. \A e \in EpochIds :
              LogView'[e] = IF e = f THEN Append(LogView[e], b) ELSE LogView[e]
        <5> SUFFICES ASSUME NEW e \in EpochIds
                     PROVE  LogView'[e] = IF e = f THEN Append(LogView[e], b) ELSE LogView[e]
          OBVIOUS
        <5>1. /\ LogView[e] = IF e \in damaged THEN <<>> ELSE LogOf(events[e])
              /\ LogView'[e] = IF e \in damaged THEN <<>> ELSE LogOf(events'[e])
          BY <2>1 DEF LogView
        <5>2. CASE e = f
          BY <2>4, <3>1, <5>1, <5>2 DEF Trusted
        <5>3. CASE e # f
          <6>1. events'[e] = events[e]
            BY <2>1, <5>3
          <6> QED
            BY <5>1, <5>3, <6>1
        <5> QED
          BY <5>2, <5>3
      <4> QED
        BY <2>1, <4>1 DEF LogView
    <3>3. ASSUME NEW e \in EpochIds, NEW k \in DOMAIN LogView[e] PROVE LogView[e][k] # b
      <4>1. LogView[e] \in Seq(Body) /\ Known(LogView[e], Pending, calls)
        BY <1>1, LogStored DEF Hash
      <4>2. k \in 1 .. Len(LogView[e])
        BY <4>1
      <4> QED
        BY <2>2, <4>1, <4>2 DEF Known
    <3>4. ASSUME NEW e \in EpochIds, e = f, NEW c \in LogBody, c = b PROVE Log!Store(e, c)
      BY <2>1, <2>4, <3>2, <3>3, <3>4 DEF Log!Store, Log!Stored, LogView
    <3>5. f \in EpochIds /\ b \in LogBody
      BY <2>1, <2>3
    <3> HIDE DEF f, b
    <3>6. \E e \in EpochIds : \E c \in LogBody : Log!Store(e, c)
      BY <3>4, <3>5
    <3>7. Log!Next
      BY <3>6 DEF Log!Next, LogBody
    <3> QED
      BY <3>7
  <2>5. CASE f \notin Trusted
    <3>1. LogView' = LogView
      <4>1. \A e \in EpochIds : LogView'[e] = LogView[e]
        BY <1>2, <2>1, <2>5 DEF LogView
      <4> QED
        BY <4>1 DEF LogView
    <3>2. CASE acked' = acked
      <4>1. UNCHANGED Log!vars
        BY <2>1, <3>1, <3>2 DEF Log!vars, LogView
      <4> QED
        BY <4>1
    <3>3. CASE acked' = acked \cup {entry}
      <4>1. Log!StoreUntrusted(f, b)
        BY <2>1, <2>5, <3>1, <3>3 DEF Log!StoreUntrusted, LogView
      <4> QED
        BY <2>1, <2>3, <4>1 DEF Log!Next, LogBody
    <3> QED
      BY <2>1, <3>2, <3>3
  <2> QED
    BY <2>4, <2>5
<1>5. ASSUME NEW e \in EpochIds, NEW ev \in events[e], Hurts(e, ev) PROVE [Log!Next]_Log!vars
  <2>1. /\ damaged' = damaged \cup {e} /\ acked' = acked /\ Trusted' = Trusted \ {e}
        /\ \A f \in EpochIds \ {e} : events'[f] = events[f]
    BY <1>2, <1>5 DEF Hurts, Trusted
  <2>2. LogView' = [LogView EXCEPT ![e] = <<>>]
    <3>1. \A f \in EpochIds : LogView'[f] = IF f = e THEN <<>> ELSE LogView[f]
      BY <2>1 DEF LogView
    <3> QED
      BY <3>1 DEF LogView
  <2>3. Log!Distrust(e)
    BY <2>1, <2>2 DEF Log!Distrust, LogView
  <2> QED
    BY <2>3 DEF Log!Next
<1>6. CASE Quiet
  BY <1>3, <1>6 DEF Quiet
<1>7. ASSUME NEW p \in Procs, Enqueues(p) PROVE UNCHANGED <<events, damaged, acked>>
  BY <1>7 DEF Enqueues
<1> QED
  BY <1>1, <1>3, <1>4, <1>5, <1>6, <1>7, StoreShapes

(***************************************************************************)
(* The service implements the abstract log: entries are stored once, in    *)
(* one epoch, in an order that never changes, and acknowledged only when   *)
(* stored, in every epoch nobody damaged.                                  *)
(***************************************************************************)
THEOREM LogImplemented == Spec => ImplementsLog
<1>1. Init => CallsInv /\ Log!Init
  BY CallsInit, LogInit
<1>2. CallsInv /\ [Next]_vars => CallsInv'
  BY CallsStep
<1>3. CallsInv /\ [Next]_vars => [Log!Next]_Log!vars
  BY LogStep
<1> QED
  BY <1>1, <1>2, <1>3, PTL DEF Spec, ImplementsLog, Log!Spec

-----------------------------------------------------------------------------
(* The security pages: SecurityCenter.                                         *)

(* Orders and lists.  The rows before a row number its place, so the places    *)
(* of a set in a total order are the numbers below its size, each taken once.  *)
Orders(S, before) ==
    /\ \A x \in S : <<x, x>> \notin before
    /\ \A x, y, z \in S : <<x, y>> \in before /\ <<y, z>> \in before => <<x, z>> \in before
    /\ \A x, y \in S : x # y => <<x, y>> \in before \/ <<y, x>> \in before

Ahead(S, before, x) == Cardinality({y \in S : <<y, x>> \in before})

LEMMA AheadOrders ==
    ASSUME NEW S, IsFiniteSet(S), NEW before, Orders(S, before), NEW a \in S
    PROVE  /\ Ahead(S, before, a) \in 0..(Cardinality(S) - 1)
           /\ \A b \in S : <<a, b>> \in before => Ahead(S, before, a) < Ahead(S, before, b)
           /\ \A b \in S : b # a => Ahead(S, before, a) # Ahead(S, before, b)
<1> DEFINE Below(x) == {y \in S : <<y, x>> \in before}
<1>0. \A x : IsFiniteSet(Below(x)) /\ Cardinality(Below(x)) \in Nat /\ Cardinality(S) \in Nat
  BY FS_Subset, FS_CardinalityType
<1>1. ASSUME NEW x \in S, NEW T, IsFiniteSet(T), x \in T, Below(x) \subseteq T
      PROVE  Cardinality(Below(x)) < Cardinality(T)
  <2>1. IsFiniteSet(T \ {x}) /\ Cardinality(T \ {x}) = Cardinality(T) - 1
    BY <1>1, FS_RemoveElement
  <2>2. Below(x) \in SUBSET (T \ {x})
    BY <1>1 DEF Orders
  <2>3. Cardinality(Below(x)) <= Cardinality(T \ {x})
    BY <2>1, <2>2, FS_Subset
  <2>4. Cardinality(T) \in Nat /\ Cardinality(Below(x)) \in Nat
    BY <1>0, <1>1, FS_CardinalityType
  <2> HIDE DEF Below
  <2> QED
    BY <2>1, <2>3, <2>4
<1>2. Cardinality(Below(a)) < Cardinality(S)
  BY <1>1
<1>3. ASSUME NEW x \in S, NEW y \in S, <<x, y>> \in before PROVE Cardinality(Below(x)) < Cardinality(Below(y))
  <2>1. x \in Below(y) /\ Below(x) \subseteq Below(y)
    BY <1>3 DEF Orders
  <2> HIDE DEF Below
  <2> QED
    BY <1>0, <1>1, <2>1
<1>4. ASSUME NEW b \in S, b # a PROVE Cardinality(Below(a)) # Cardinality(Below(b))
  <2>1. <<a, b>> \in before \/ <<b, a>> \in before
    BY <1>4 DEF Orders
  <2> HIDE DEF Below
  <2> QED
    BY <1>0, <1>3, <2>1
<1>5. Cardinality(Below(a)) \in 0..(Cardinality(S) - 1)
  <2> HIDE DEF Below
  <2> QED
    BY <1>0, <1>2
<1> QED
  BY <1>3, <1>4, <1>5 DEF Ahead

LEMMA RankedFacts ==
    ASSUME NEW S, IsFiniteSet(S), NEW before, Orders(S, before)
    PROVE  /\ Ranked(S, before) \in Seq(S) /\ Len(Ranked(S, before)) = Cardinality(S)
           /\ Cardinality(S) \in Nat
           /\ \A x \in S : /\ Ahead(S, before, x) \in 0..(Cardinality(S) - 1)
                           /\ Ranked(S, before)[Ahead(S, before, x) + 1] = x
           /\ \A k \in 1..Cardinality(S) : Ahead(S, before, Ranked(S, before)[k]) = k - 1
           /\ \A i, j \in 1..Cardinality(S) :
                 i < j => <<Ranked(S, before)[i], Ranked(S, before)[j]>> \in before
<1> DEFINE n == Cardinality(S)
           place == [x \in S |-> Ahead(S, before, x)]
           r == Ranked(S, before)
<1>1. n \in Nat
  BY FS_CardinalityType
<1>2. place \in [S -> 0..(n - 1)]
  BY AheadOrders
<1>3. IsInjective(place)
  BY AheadOrders DEF IsInjective
<1>4. IsFiniteSet(0..(n - 1)) /\ Cardinality(0..(n - 1)) = n
  <2>1. 0 \in Int /\ n - 1 \in Int /\ (0 > n - 1 => n = 0) /\ n - 1 - 0 + 1 = n
    BY <1>1
  <2> HIDE DEF n
  <2> QED
    BY <2>1, FS_Interval
<1>5. \A k \in 0..(n - 1) : \E x \in S : place[x] = k
  <2>1. place \in Surjection(S, 0..(n - 1))
    BY <1>2, <1>3, <1>4, FS_Injection DEF Injection
  <2> QED
    BY <2>1 DEF Surjection
<1>6. \A k \in 1..n : r[k] \in S /\ Ahead(S, before, r[k]) = k - 1
  <2> SUFFICES ASSUME NEW k \in 1..n PROVE r[k] \in S /\ Ahead(S, before, r[k]) = k - 1
    OBVIOUS
  <2>1. r[k] = CHOOSE x \in S : Ahead(S, before, x) = k - 1
    BY DEF Ranked, Ahead
  <2>2. k - 1 \in 0..(n - 1)
    BY <1>1
  <2>3. \E x \in S : Ahead(S, before, x) = k - 1
    BY <1>5, <2>2
  <2> QED
    BY <2>1, <2>3
<1>7. r \in Seq(S) /\ Len(r) = n
  <2>1. r \in [1..n -> S]
    <3>1. \A k \in 1..n : (CHOOSE x \in S : Cardinality({y \in S : <<y, x>> \in before}) = k - 1) \in S
      BY <1>6 DEF Ranked
    <3> QED
      BY <3>1 DEF Ranked
  <2> HIDE DEF r, n
  <2> QED
    BY <1>1, <2>1
<1>8. ASSUME NEW x \in S PROVE Ahead(S, before, x) \in 0..(n - 1) /\ r[Ahead(S, before, x) + 1] = x
  <2>1. Ahead(S, before, x) \in 0..(n - 1)
    BY AheadOrders
  <2> DEFINE k == Ahead(S, before, x) + 1
  <2>2. k \in 1..n /\ k - 1 = Ahead(S, before, x)
    BY <1>1, <2>1
  <2> HIDE DEF k
  <2>3. r[k] \in S /\ Ahead(S, before, r[k]) = Ahead(S, before, x)
    BY <1>6, <2>2
  <2>4. r[k] = x
    BY <2>3, AheadOrders
  <2> QED
    BY <2>1, <2>4 DEF k
<1>9. ASSUME NEW i \in 1..n, NEW j \in 1..n, i < j PROVE <<r[i], r[j]>> \in before
  <2>1. r[i] \in S /\ r[j] \in S /\ Ahead(S, before, r[i]) = i - 1 /\ Ahead(S, before, r[j]) = j - 1
    BY <1>6
  <2>2. r[i] # r[j] /\ ~(j - 1 < i - 1)
    BY <1>1, <1>9, <2>1
  <2>3. CASE <<r[j], r[i]>> \in before
    BY <2>1, <2>2, <2>3, AheadOrders
  <2>4. <<r[i], r[j]>> \in before \/ <<r[j], r[i]>> \in before
    <3> HIDE DEF r
    <3> QED
      BY <2>1, <2>2 DEF Orders
  <2> QED
    BY <2>3, <2>4
<1> QED
  BY <1>1, <1>6, <1>7, <1>8, <1>9

(* What is kept of a list: each of its rows that is in the set, as they were.  *)
LEMMA OnlyFacts ==
    ASSUME NEW X, NEW rows \in Seq(X), NEW S
    PROVE  /\ Only(rows, S) \in Seq(X)
           /\ Seqs!ToSet(Only(rows, S)) = Seqs!ToSet(rows) \cap S
           /\ Len(Only(rows, S)) = Cardinality({i \in DOMAIN rows : rows[i] \in S})
           /\ \E at \in [1..Len(Only(rows, S)) -> 1..Len(rows)] :
                 /\ \A k \in 1..Len(Only(rows, S)) : Only(rows, S)[k] = rows[at[k]]
                 /\ \A j, k \in 1..Len(Only(rows, S)) : j < k => at[j] < at[k]
<1> DEFINE places == {i \in DOMAIN rows : rows[i] \in S}
           less == {p \in places \X places : p[1] < p[2]}
           order == Ranked(places, less)
           n == Cardinality(places)
<1>1. DOMAIN rows = 1..Len(rows) /\ Len(rows) \in Nat /\ (\A i \in DOMAIN rows : rows[i] \in X)
  OBVIOUS
<1>2. IsFiniteSet(places)
  <2>1. places \subseteq 1..Len(rows) /\ IsFiniteSet(1..Len(rows))
    BY <1>1, FS_Interval
  <2> QED
    BY <2>1, FS_Subset
<1>3. \A i, j \in places : <<i, j>> \in less <=> i < j
  OBVIOUS
<1>4. places \subseteq Nat
  BY <1>1
<1>5. Orders(places, less)
  <2> HIDE DEF places, less
  <2> QED
    BY <1>3, <1>4 DEF Orders
<1>6. /\ order \in Seq(places) /\ Len(order) = n /\ n \in Nat
      /\ \A i \in places : Ahead(places, less, i) \in 0..(n - 1) /\ order[Ahead(places, less, i) + 1] = i
      /\ \A j, k \in 1..n : j < k => <<order[j], order[k]>> \in less
  <2> HIDE DEF places, less
  <2> QED
    BY <1>2, <1>5, RankedFacts
<1>7. Only(rows, S) = [k \in DOMAIN order |-> rows[order[k]]]
  BY DEF Only
<1>0. places \subseteq DOMAIN rows /\ \A i \in places : rows[i] \in S
  OBVIOUS
<1> HIDE DEF less, order, n
<1>8. DOMAIN order = 1..n /\ \A k \in 1..n : order[k] \in places
  <2> HIDE DEF places
  <2> QED
    BY <1>6
<1>9. \A k \in 1..n : order[k] \in 1..Len(rows) /\ rows[order[k]] \in X /\ rows[order[k]] \in S
  <2> HIDE DEF places
  <2> QED
    BY <1>0, <1>1, <1>8
<1>10. Only(rows, S) \in Seq(X) /\ Len(Only(rows, S)) = n
  <2> HIDE DEF places
  <2> QED
    BY <1>6, <1>7, <1>8, <1>9
<1>11. \A k \in 1..n : Only(rows, S)[k] = rows[order[k]]
  BY <1>7, <1>8
<1>12. \A j, k \in 1..n : j < k => order[j] < order[k]
  BY <1>3, <1>6, <1>8
<1>13. \A i \in places : \E k \in 1..n : order[k] = i
  <2> SUFFICES ASSUME NEW i \in places PROVE \E k \in 1..n : order[k] = i
    OBVIOUS
  <2>1. Ahead(places, less, i) + 1 \in 1..n
    <3> HIDE DEF places, n
    <3> QED
      BY <1>6
  <2> QED
    BY <1>6, <2>1
<1>14. DOMAIN Only(rows, S) = 1..n
  BY <1>7, <1>8
<1>15. Seqs!ToSet(Only(rows, S)) = Seqs!ToSet(rows) \cap S
  <2>1. ASSUME NEW x \in Seqs!ToSet(Only(rows, S)) PROVE x \in Seqs!ToSet(rows) \cap S
    BY <1>1, <1>9, <1>11, <1>14, <2>1 DEF Seqs!ToSet
  <2>2. ASSUME NEW x \in Seqs!ToSet(rows), x \in S PROVE x \in Seqs!ToSet(Only(rows, S))
    <3>1. PICK i \in DOMAIN rows : rows[i] = x
      BY <2>2 DEF Seqs!ToSet
    <3>2. i \in places
      BY <2>2, <3>1
    <3>3. PICK k \in 1..n : order[k] = i
      BY <1>13, <3>2
    <3> QED
      BY <1>11, <1>14, <3>1, <3>3 DEF Seqs!ToSet
  <2> QED
    BY <2>1, <2>2
<1> QED
  <2>1. order \in [1..n -> 1..Len(rows)]
    BY <1>6, <1>8, <1>9
  <2>2. \E at \in [1..n -> 1..Len(rows)] :
           /\ \A k \in 1..n : Only(rows, S)[k] = rows[at[k]]
           /\ \A j, k \in 1..n : j < k => at[j] < at[k]
    BY <1>11, <1>12, <2>1, Zenon
  <2>3. n = Cardinality({i \in DOMAIN rows : rows[i] \in S})
    BY DEF n
  <2> HIDE DEF places
  <2> QED
    BY <1>10, <1>15, <2>2, <2>3, Zenon

-----------------------------------------------------------------------------
-----------------------------------------------------------------------------
(* The log.  An event has its place for its id, so a prefix of the log is the  *)
(* set of its events with a small id.                                          *)
EntryLog(l, t) == l \in Seq(EventsBy(t)) /\ \A i \in DOMAIN l : l[i].id = i

Distinct(entries) == \A e, f \in entries : e.id = f.id => e = f

LEMMA EventFields ==
    ASSUME NEW t \in Nat, NEW e \in EventsBy(t)
    PROVE  /\ e.id \in Nat /\ e.kind \in Kinds /\ e.actor \in Actors \cup Officers
           /\ e.doc \in Docs \cup {"none"} /\ e.level \in Levels /\ e.at \in 0..t
           /\ e.rec \in RecIds \cup {NoRec} /\ e.status \in Statuses /\ e.note \in Notes
BY DEF EventsBy

LEMMA EventsOfLog ==
    ASSUME NEW t \in Nat, NEW l, EntryLog(l, t)
    PROVE  /\ Events(l) = {l[i] : i \in DOMAIN l} /\ Events(l) \subseteq EventsBy(t)
           /\ Events(l) = Seqs!ToSet(l)
           /\ IsFiniteSet(Events(l)) /\ Distinct(Events(l)) /\ Len(l) \in Nat
           /\ \A e \in Events(l) : e.id \in 1..Len(l) /\ l[e.id] = e
           /\ \A i \in 1..Len(l) : l[i] \in Events(l) /\ l[i].id = i
<1>1. DOMAIN l = 1..Len(l) /\ Len(l) \in Nat /\ \A i \in DOMAIN l : l[i] \in EventsBy(t) /\ l[i].id = i
  BY DEF EntryLog
<1>2. \A i \in DOMAIN l : [l[i] EXCEPT !.id = i] = l[i]
  BY <1>1 DEF EventsBy
<1>3. Events(l) = {l[i] : i \in DOMAIN l}
  BY <1>2 DEF Events
<1>4. IsFiniteSet(Events(l))
  <2> DEFINE f == [i \in 1..Len(l) |-> l[i]]
  <2>1. f \in Surjection(1..Len(l), Events(l))
    BY <1>1, <1>3 DEF Surjection
  <2>2. IsFiniteSet(1..Len(l))
    BY <1>1, FS_Interval
  <2> QED
    BY <2>1, <2>2, FS_Surjection
<1> QED
  BY <1>1, <1>3, <1>4 DEF Distinct, Seqs!ToSet

LEMMA PrefixOfLog ==
    ASSUME NEW t \in Nat, NEW l, EntryLog(l, t), NEW n \in 0..Len(l)
    PROVE  /\ EntryLog(SubSeq(l, 1, n), t) /\ Len(SubSeq(l, 1, n)) = n
           /\ Events(SubSeq(l, 1, n)) = {e \in Events(l) : e.id <= n}
<1>1. l \in Seq(EventsBy(t)) /\ Len(l) \in Nat /\ n \in Nat
  BY DEF EntryLog
<1>2. /\ SubSeq(l, 1, n) \in Seq(EventsBy(t)) /\ Len(SubSeq(l, 1, n)) = n
      /\ \A i \in 1..n : SubSeq(l, 1, n)[i] = l[i]
  BY <1>1
<1>3. EntryLog(SubSeq(l, 1, n), t)
  BY <1>1, <1>2 DEF EntryLog
<1>4. Events(SubSeq(l, 1, n)) = {l[i] : i \in 1..n}
  <2>1. DOMAIN SubSeq(l, 1, n) = 1..n
    BY <1>1, <1>2
  <2>2. Events(SubSeq(l, 1, n)) = {SubSeq(l, 1, n)[i] : i \in 1..n}
    <3> DEFINE p == SubSeq(l, 1, n)
    <3> HIDE DEF p
    <3>1. EntryLog(p, t) /\ DOMAIN p = 1..n
      BY <1>3, <2>1 DEF p
    <3>2. Events(p) = {p[i] : i \in DOMAIN p}
      BY <3>1, EventsOfLog
    <3> QED
      BY <3>1, <3>2 DEF p
  <2> QED
    BY <1>2, <2>2
<1>5. \A e \in Events(l) : e.id \in 1..Len(l) /\ l[e.id] = e
  BY EventsOfLog
<1>6. \A i \in 1..Len(l) : l[i] \in Events(l) /\ l[i].id = i
  BY EventsOfLog
<1> QED
  BY <1>1, <1>2, <1>3, <1>4, <1>5, <1>6

LEMMA GrownLog ==
    ASSUME NEW t \in Nat, NEW u \in Nat, t <= u, NEW l, EntryLog(l, t), NEW e \in EventsBy(u)
    PROVE  /\ EntryLog(Append(l, [e EXCEPT !.id = Len(l) + 1]), u)
           /\ Events(Append(l, [e EXCEPT !.id = Len(l) + 1])) = Events(l) \cup {[e EXCEPT !.id = Len(l) + 1]}
           /\ \A n \in 0..Len(l) : SubSeq(Append(l, [e EXCEPT !.id = Len(l) + 1]), 1, n) = SubSeq(l, 1, n)
<1> DEFINE x == [e EXCEPT !.id = Len(l) + 1]
           m == Append(l, x)
<1>1. EventsBy(t) \subseteq EventsBy(u)
  BY DEF EventsBy
<1>2. l \in Seq(EventsBy(u)) /\ Len(l) \in Nat /\ \A i \in 1..Len(l) : l[i].id = i
  <2>1. l \in Seq(EventsBy(t)) /\ \A i \in DOMAIN l : l[i].id = i
    BY DEF EntryLog
  <2> QED
    BY <1>1, <2>1
<1>3. x \in EventsBy(u) /\ x.id = Len(l) + 1
  BY <1>2 DEF EventsBy
<1> HIDE DEF x
<1>4. /\ m \in Seq(EventsBy(u)) /\ Len(m) = Len(l) + 1 /\ m[Len(l) + 1] = x
      /\ \A i \in 1..Len(l) : m[i] = l[i]
  BY <1>2, <1>3
<1>5. \A n \in 0..Len(l) : SubSeq(m, 1, n) = SubSeq(l, 1, n)
  BY <1>2, <1>3
<1> HIDE DEF m
<1>6. EntryLog(m, u)
  <2>1. ASSUME NEW i \in DOMAIN m PROVE m[i].id = i
    <3>1. i \in 1..Len(l) \/ i = Len(l) + 1
      BY <1>2, <1>4
    <3> QED
      BY <1>2, <1>3, <1>4, <3>1
  <2> QED
    BY <1>4, <2>1 DEF EntryLog
<1>7. Events(m) = {m[i] : i \in 1..(Len(l) + 1)}
  <2>1. DOMAIN m = 1..(Len(l) + 1)
    BY <1>4, <1>2
  <2> QED
    BY <1>6, <2>1, EventsOfLog
<1>8. Events(l) = {l[i] : i \in 1..Len(l)}
  <2>1. DOMAIN l = 1..Len(l)
    BY <1>2
  <2> QED
    BY <2>1, EventsOfLog
<1>9. Events(m) = Events(l) \cup {x}
  <2>1. 1..(Len(l) + 1) = (1..Len(l)) \cup {Len(l) + 1}
    BY <1>2
  <2> QED
    BY <1>4, <1>7, <1>8, <2>1
<1> QED
  BY <1>5, <1>6, <1>9 DEF m, x

(* A finite set of numbers has a greatest and a least one.                     *)
LEMMA Extremes ==
    ASSUME NEW n \in Nat, NEW S \in SUBSET (0..n), S # {}
    PROVE  (\E m \in S : \A x \in S : x <= m) /\ (\E m \in S : \A x \in S : x >= m)
<1> DEFINE less == {p \in S \X S : p[1] < p[2]}
<1>1. IsFiniteSet(S) /\ S \subseteq Nat
  <2>1. IsFiniteSet(0..n)
    BY FS_Interval
  <2>2. IsFiniteSet(S)
    BY <2>1, FS_Subset
  <2> QED
    BY <2>2
<1>2. \A x, y \in S : <<x, y>> \in less <=> x < y
  OBVIOUS
<1>3. Orders(S, less)
  <2> HIDE DEF less
  <2> QED
    BY <1>1, <1>2 DEF Orders
<1> HIDE DEF less
<1>4. /\ Ranked(S, less) \in Seq(S) /\ Len(Ranked(S, less)) = Cardinality(S) /\ Cardinality(S) \in Nat
      /\ \A x \in S : Ahead(S, less, x) \in 0..(Cardinality(S) - 1) /\ Ranked(S, less)[Ahead(S, less, x) + 1] = x
      /\ \A i, j \in 1..Cardinality(S) : i < j => <<Ranked(S, less)[i], Ranked(S, less)[j]>> \in less
  BY <1>1, <1>3, RankedFacts
<1> DEFINE r == Ranked(S, less)
           k == Cardinality(S)
<1> HIDE DEF r, k
<1>5. k \in Nat \ {0}
  <2>1. k # 0
    BY <1>1, FS_EmptySet DEF k
  <2> QED
    BY <1>4, <2>1 DEF k
<1>6. \A i \in 1..k : r[i] \in S
  BY <1>4 DEF r, k
<1>7. ASSUME NEW x \in S PROVE \E i \in 1..k : r[i] = x
  <2>1. Ahead(S, less, x) + 1 \in 1..k
    BY <1>4, <1>5 DEF k
  <2> QED
    BY <1>4, <2>1 DEF r
<1>8. \A i, j \in 1..k : i < j => r[i] < r[j]
  BY <1>2, <1>4, <1>6 DEF r, k
<1>9. ASSUME NEW x \in S PROVE x <= r[k] /\ x >= r[1] /\ r[k] \in S /\ r[1] \in S
  <2>1. PICK i \in 1..k : r[i] = x
    BY <1>7
  <2>2. (i = k \/ i < k) /\ (i = 1 \/ 1 < i) /\ k \in 1..k /\ 1 \in 1..k
    BY <1>5
  <2>3. r[k] \in Nat /\ r[1] \in Nat /\ r[i] \in Nat /\ r[k] \in S /\ r[1] \in S
    BY <1>1, <1>6, <2>2
  <2>4. r[i] <= r[k]
    BY <1>8, <2>2, <2>3
  <2>5. r[i] >= r[1]
    BY <1>8, <2>2, <2>3
  <2> QED
    BY <2>1, <2>3, <2>4, <2>5
<1> QED
  BY <1>9

-----------------------------------------------------------------------------
(* The orders of the model are total, and so is what they sort.                *)
LEMMA FirstOfOrder ==
    ASSUME NEW S, IsFiniteSet(S), S # {}, NEW before, Orders(S, before)
    PROVE  \E x \in S : \A y \in S : y # x => <<x, y>> \in before /\ <<y, x>> \notin before
<1> DEFINE r == Ranked(S, before)
           n == Cardinality(S)
<1>1. /\ n \in Nat /\ n # 0 /\ r \in Seq(S) /\ Len(r) = n
      /\ \A x \in S : Ahead(S, before, x) \in 0..(n - 1) /\ r[Ahead(S, before, x) + 1] = x
      /\ \A i, j \in 1..n : i < j => <<r[i], r[j]>> \in before
  BY RankedFacts, FS_EmptySet
<1> HIDE DEF r, n
<1>2. 1 \in 1..n /\ r[1] \in S
  BY <1>1
<1>3. ASSUME NEW y \in S, y # r[1] PROVE <<r[1], y>> \in before /\ <<y, r[1]>> \notin before
  <2>1. PICK i \in 1..n : r[i] = y
    <3>1. Ahead(S, before, y) + 1 \in 1..n
      BY <1>1
    <3> QED
      BY <1>1, <3>1
  <2>2. 1 < i
    BY <1>1, <1>2, <1>3, <2>1
  <2>3. <<r[1], y>> \in before
    BY <1>1, <1>2, <2>1, <2>2
  <2> QED
    BY <1>2, <2>3 DEF Orders
<1> QED
  BY <1>2, <1>3

LEMMA EventOrders ==
    ASSUME NEW t \in Nat, NEW X \in SUBSET EventsBy(t), Distinct(X)
    PROVE  /\ Orders(X, {p \in X \X X : Newer(p[1], p[2])})
           /\ Orders(X, {p \in X \X X : Supersedes(p[1], p[2])})
<1>1. \A e \in X : e.at \in Nat /\ e.id \in Nat
  BY DEF EventsBy
<1>2. \A e, f \in X : e.id = f.id => e = f
  BY DEF Distinct
<1>3. \A R : (\A x, y \in X : <<x, y>> \in R <=> Newer(x, y)) => Orders(X, R)
  BY <1>1, <1>2 DEF Orders, Newer
<1>4. \A R : (\A x, y \in X : <<x, y>> \in R <=> Supersedes(x, y)) => Orders(X, R)
  BY <1>1, <1>2 DEF Orders, Supersedes
<1> DEFINE N == {p \in X \X X : Newer(p[1], p[2])}
           P == {p \in X \X X : Supersedes(p[1], p[2])}
<1>5. (\A x, y \in X : <<x, y>> \in N <=> Newer(x, y)) /\ (\A x, y \in X : <<x, y>> \in P <=> Supersedes(x, y))
  OBVIOUS
<1> HIDE DEF N, P
<1>6. Orders(X, N) /\ Orders(X, P)
  BY <1>3, <1>4, <1>5
<1> QED
  BY <1>6 DEF N, P

LEMMA NewestOfSome ==
    ASSUME NEW t \in Nat, NEW X \in SUBSET EventsBy(t), Distinct(X), IsFiniteSet(X), X # {}
    PROVE  /\ \E e \in X : \A f \in X : ~Newer(f, e)
           /\ \E e \in X : \A f \in X \ {e} : Supersedes(e, f)
<1> DEFINE N == {p \in X \X X : Newer(p[1], p[2])}
           P == {p \in X \X X : Supersedes(p[1], p[2])}
<1>1. (\A x, y \in X : <<x, y>> \in N <=> Newer(x, y)) /\ (\A x, y \in X : <<x, y>> \in P <=> Supersedes(x, y))
  OBVIOUS
<1>2. Orders(X, N) /\ Orders(X, P)
  BY EventOrders
<1> HIDE DEF N, P
<1>3. \E x \in X : \A y \in X : y # x => <<x, y>> \in N /\ <<y, x>> \notin N
  BY <1>2, FirstOfOrder
<1>4. \E x \in X : \A y \in X : y # x => <<x, y>> \in P /\ <<y, x>> \notin P
  BY <1>2, FirstOfOrder
<1>5. \A x \in X : ~Newer(x, x)
  BY DEF Newer, EventsBy
<1> QED
  BY <1>1, <1>3, <1>4, <1>5

Scored(entries) ==
    /\ \A x \in entries : x.score \in Nat /\ x.latest \in Nat /\ x.first \in Nat
    /\ \A x, y \in entries : x.first = y.first => x = y

LEMMA TopFacts ==
    ASSUME NEW entries, IsFiniteSet(entries), Scored(entries)
    PROVE  /\ TopOf(entries) \in Seq(entries)
           /\ \A i, j \in DOMAIN TopOf(entries) : i # j => TopOf(entries)[i] # TopOf(entries)[j]
           /\ \A i, j \in DOMAIN TopOf(entries) : i < j => TopOf(entries)[i].score >= TopOf(entries)[j].score
<1> DEFINE R == {p \in entries \X entries : Before(p[1], p[2])}
           r == Ranked(entries, R)
           n == Cardinality(entries)
           m == Least(TopN, Len(r))
<1>1. \A x, y \in entries : <<x, y>> \in R <=> Before(x, y)
  OBVIOUS
<1>2. TopOf(entries) = SubSeq(r, 1, m)
  BY DEF TopOf
<1> HIDE DEF R
<1>3. Orders(entries, R)
  BY <1>1 DEF Orders, Before, Scored
<1>4. /\ n \in Nat /\ r \in Seq(entries) /\ Len(r) = n
      /\ \A i, j \in 1..n : i < j => <<r[i], r[j]>> \in R
  BY <1>3, RankedFacts
<1> HIDE DEF r, n
<1>5. m \in 0..n /\ TopN \in Nat
  BY <1>4, AnalysisAssumption DEF Least
<1> HIDE DEF m
<1>6. /\ TopOf(entries) \in Seq(entries) /\ DOMAIN TopOf(entries) = 1..m
      /\ \A i \in 1..m : TopOf(entries)[i] = r[i] /\ r[i] \in entries /\ i \in 1..n
  BY <1>2, <1>4, <1>5
<1>7. ASSUME NEW i \in 1..m, NEW j \in 1..m, i < j PROVE r[i].score >= r[j].score /\ r[i] # r[j]
  <2>1. r[i] \in entries /\ r[j] \in entries /\ <<r[i], r[j]>> \in R
    BY <1>4, <1>5, <1>6, <1>7
  <2> QED
    BY <1>1, <1>3, <2>1 DEF Scored, Before, Orders
<1> QED
  BY <1>5, <1>6, <1>7

-----------------------------------------------------------------------------
(* The lists of a summary: whom and what they are about, and how they are      *)
(* sorted.                                                                     *)
LEMMA Times ==
    ASSUME NEW t \in Nat, NEW X \in SUBSET EventsBy(t), X # {}
    PROVE  /\ Latest(X) \in 0..t /\ \A e \in X : e.at <= Latest(X)
           /\ Earliest(X) \in 0..t /\ \A e \in X : e.at >= Earliest(X)
<1> DEFINE S == {e.at : e \in X}
<1>1. S \in SUBSET (0..t) /\ S # {}
  BY DEF EventsBy
<1>2. (\E m \in S : \A x \in S : x <= m) /\ (\E m \in S : \A x \in S : x >= m)
  <2> HIDE DEF S
  <2> QED
    BY <1>1, Extremes
<1>3. Latest(X) \in S /\ \A e \in X : e.at <= Latest(X)
  BY <1>2 DEF Latest
<1>4. Earliest(X) \in S /\ \A e \in X : e.at >= Earliest(X)
  BY <1>2 DEF Earliest
<1> QED
  BY <1>1, <1>3, <1>4

LEMMA Sampled ==
    ASSUME NEW t \in Nat, NEW l, EntryLog(l, t), NEW kinds, NEW now, NEW n
    PROVE  LET sample == Newest(Recent(OfKind(Events(l), kinds), now), n)
           IN /\ sample \subseteq Events(l) /\ sample \subseteq EventsBy(t)
              /\ IsFiniteSet(sample) /\ Distinct(sample)
              /\ \A e \in sample : e.kind \in kinds
<1> DEFINE sample == Newest(Recent(OfKind(Events(l), kinds), now), n)
<1>1. sample \subseteq Events(l) /\ \A e \in sample : e.kind \in kinds
  BY DEF Newest, Recent, OfKind
<1>2. Events(l) \subseteq EventsBy(t) /\ IsFiniteSet(Events(l)) /\ Distinct(Events(l))
  BY EventsOfLog
<1> HIDE DEF sample
<1>3. IsFiniteSet(sample)
  BY <1>1, <1>2, FS_Subset
<1>4. sample \subseteq EventsBy(t) /\ Distinct(sample)
  BY <1>1, <1>2 DEF Distinct
<1> QED
  BY <1>1, <1>3, <1>4 DEF sample

LEMMA DenyActorsFacts ==
    ASSUME NEW t \in Nat, NEW l, EntryLog(l, t), NEW now
    PROVE  /\ DenyActors(l, now) \in Seq(Actors)
           /\ \A i, j \in DOMAIN DenyActors(l, now) : i # j => DenyActors(l, now)[i] # DenyActors(l, now)[j]
<1> DEFINE counts == [a \in Actors |-> Cardinality(Denies(l, now, a))]
           many == {a \in Actors : counts[a] >= 3}
           found == Seqs!SetToSeq(many)
           places == DOMAIN found
           R == {p \in places \X places :
                   \/ counts[found[p[1]]] > counts[found[p[2]]]
                   \/ counts[found[p[1]]] = counts[found[p[2]]] /\ p[1] < p[2]}
           order == Ranked(places, R)
           m == Least(TopN, Len(order))
<1>1. DenyActors(l, now) = [k \in 1..m |-> found[order[k]]]
  BY DEF DenyActors
<1>2. IsFiniteSet(many)
  BY AnalysisAssumption, FS_Subset
<1>3. \A a \in Actors : counts[a] \in Nat
  <2> SUFFICES ASSUME NEW a \in Actors PROVE counts[a] \in Nat
    OBVIOUS
  <2>1. Denies(l, now, a) \subseteq Events(l)
    BY DEF Denies, Recent, OfKind
  <2>2. IsFiniteSet(Denies(l, now, a))
    BY <2>1, EventsOfLog, FS_Subset
  <2> QED
    BY <2>2, FS_CardinalityType
<1> HIDE DEF counts
<1>4. found \in [1..Cardinality(many) -> many] /\ (\A i, j \in 1..Cardinality(many) : found[i] = found[j] => i = j)
  <2> DEFINE c == Cardinality(many)
  <2>1. c \in Nat
    BY <1>2, FS_CardinalityType
  <2>2. IsFiniteSet(1..c) /\ Cardinality(1..c) = c
    BY <2>1, FS_Interval
  <2>3. ExistsBijection(1..c, many)
    BY <1>2, <2>2, FS_SameCardinalityBij
  <2>4. \E f \in [1..c -> many] : \A i, j \in 1..c : f[i] = f[j] => i = j
    BY <2>3 DEF ExistsBijection, Bijection, Injection, IsInjective
  <2> HIDE DEF c
  <2>5. \E f \in [1..c -> many] : Seqs!IsInjective(f)
    BY <2>4 DEF Seqs!IsInjective
  <2>6. found = CHOOSE f \in [1..c -> many] : Seqs!IsInjective(f)
    BY Zenon DEF Seqs!SetToSeq, Seqs!Cardinality, Cardinality, c
  <2>7. found \in [1..c -> many] /\ Seqs!IsInjective(found)
    BY <2>5, <2>6
  <2> QED
    BY <2>7 DEF Seqs!IsInjective, c
<1>5. places = 1..Cardinality(many) /\ Cardinality(many) \in Nat /\ IsFiniteSet(places) /\ many \subseteq Actors
  BY <1>2, <1>4, FS_CardinalityType, FS_Interval
<1>6. \A i \in places : found[i] \in Actors
  BY <1>4, <1>5
<1>7. \A i, j \in places : <<i, j>> \in R <=> \/ counts[found[i]] > counts[found[j]]
                                            \/ (counts[found[i]] = counts[found[j]] /\ i < j)
  OBVIOUS
<1>8. \A i, j \in places : found[i] = found[j] => i = j
  BY <1>4, <1>5
<1>9. places \subseteq Nat
  <2> HIDE DEF places
  <2> QED
    BY <1>5
<1> HIDE DEF R, places, found, many
<1>10. Orders(places, R)
  <2> DEFINE c(i) == counts[found[i]]
  <2>1. \A i \in places : c(i) \in Nat
    BY <1>3, <1>6
  <2>2. \A i, j \in places : <<i, j>> \in R <=> c(i) > c(j) \/ (c(i) = c(j) /\ i < j)
    BY <1>7
  <2> HIDE DEF c
  <2> QED
    BY <1>9, <2>1, <2>2 DEF Orders
<1>11. /\ order \in Seq(places) /\ Len(order) = Cardinality(places) /\ Cardinality(places) \in Nat
       /\ \A i, j \in 1..Cardinality(places) : i < j => <<order[i], order[j]>> \in R
  BY <1>5, <1>10, RankedFacts
<1> HIDE DEF order
<1>12. m \in 0..Len(order)
  BY <1>11, AnalysisAssumption DEF Least
<1> HIDE DEF m
<1>13. \A i \in 1..m : order[i] \in places /\ i \in 1..Cardinality(places)
  BY <1>11, <1>12
<1>14. \A i, j \in 1..m : i # j => order[i] # order[j]
  <2>1. \A i \in places : <<i, i>> \notin R
    BY <1>10 DEF Orders
  <2>2. \A i, j \in 1..m : i < j => order[i] # order[j]
    BY <1>11, <1>13, <2>1
  <2>3. \A i, j \in 1..m : i # j => i < j \/ j < i
    BY <1>12
  <2> QED
    BY <2>2, <2>3
<1>15. m \in Nat
  BY <1>11, <1>12
<1> QED
  BY <1>1, <1>6, <1>8, <1>13, <1>14, <1>15

-----------------------------------------------------------------------------
(* A recent sample of the log, and what is made of its documents and actors.   *)
RiskType == [doc : Docs, score : Nat, latest : Nat, counted : SUBSET Nat, first : Nat]

SignalType ==
    [type : {"MASS", "BURST", "DESTRUCTIVE"}, actor : Actors, counted : SUBSET Nat, score : Nat,
     latest : Nat, span : [from : Nat, to : Nat], first : Nat]

Falls(rows) == \A i, j \in DOMAIN rows : i < j => rows[i].score >= rows[j].score

LEMMA Capped == \A a, b \in Nat : Least(a, b) \in Nat /\ Most(a - 1, 0) \in Nat
BY DEF Least, Most

LEMMA Parts ==
    ASSUME NEW t \in Nat, NEW X \in SUBSET EventsBy(t), IsFiniteSet(X)
    PROVE  /\ Cardinality(X) \in Nat /\ Cardinality({e.actor : e \in X}) \in Nat
           /\ \A kinds : IsFiniteSet(OfKind(X, kinds)) /\ Cardinality(OfKind(X, kinds)) \in Nat
                         /\ OfKind(X, kinds) \in SUBSET EventsBy(t)
           /\ IsFiniteSet(DocsOf(X)) /\ Cardinality(DocsOf(X)) \in Nat /\ DocsOf(X) \subseteq Docs
<1>1. Cardinality(X) \in Nat
  BY FS_CardinalityType
<1>2. \A kinds : OfKind(X, kinds) \in SUBSET X
  BY DEF OfKind
<1>3. \A kinds : IsFiniteSet(OfKind(X, kinds)) /\ Cardinality(OfKind(X, kinds)) \in Nat
  BY <1>2, FS_Subset, FS_CardinalityType
<1>4. Cardinality({e.actor : e \in X}) \in Nat
  <2> DEFINE f == [e \in X |-> e.actor]
  <2>1. f \in Surjection(X, {e.actor : e \in X})
    BY DEF Surjection
  <2> QED
    BY <2>1, FS_Surjection, FS_CardinalityType
<1>5. DocsOf(X) \in SUBSET Docs
  BY DEF DocsOf, EventsBy
<1>6. IsFiniteSet(Docs)
  BY AnalysisAssumption
<1> QED
  BY <1>1, <1>2, <1>3, <1>4, <1>5, <1>6, FS_Subset, FS_CardinalityType

LEMMA DocRiskType ==
    ASSUME NEW t \in Nat, NEW X \in SUBSET EventsBy(t), IsFiniteSet(X), X # {}
    PROVE  DocRisk(X) \in Nat
<1> DEFINE W == {Weight(e.level) : e \in X}
           weight == CHOOSE w \in W : \A e \in X : Weight(e.level) <= w
           readers == Cardinality({e.actor : e \in X})
<1>1. W \in SUBSET (0..45) /\ W # {}
  <2>1. \A level : Weight(level) \in 0..45
    BY DEF Weight
  <2> QED
    BY <2>1
<1>2. \E w \in W : \A x \in W : x <= w
  <2> HIDE DEF W
  <2> QED
    BY <1>1, Extremes
<1>3. weight \in W
  BY <1>2
<1>4. weight \in Nat
  <2> HIDE DEF weight, W
  <2> QED
    BY <1>1, <1>3
<1>5. readers \in Nat /\ Cardinality(X) \in Nat /\ Cardinality(OfKind(X, {"download"})) \in Nat
  BY Parts
<1>6. DocRisk(X) = Least(100, weight + Least(8 * Cardinality(X), 30) + Least(10 * Most(readers - 1, 0), 20)
                                + Least(5 * Cardinality(OfKind(X, {"download"})), 15))
  BY DEF DocRisk
<1> HIDE DEF weight, readers
<1>7. \A w, n, r, d \in Nat : Least(100, w + Least(8 * n, 30) + Least(10 * Most(r - 1, 0), 20) + Least(5 * d, 15)) \in Nat
  BY DEF Least, Most
<1> QED
  BY <1>4, <1>5, <1>6, <1>7

LEMMA RiskyFacts ==
    ASSUME NEW t \in Nat, NEW l, EntryLog(l, t), NEW now
    PROVE  LET risky == RiskyDocuments(l, now)
           IN /\ risky \in Seq(RiskType) /\ Falls(risky)
              /\ \A i, j \in DOMAIN risky : i # j => risky[i].doc # risky[j].doc
              /\ \A i \in DOMAIN risky : \A id \in risky[i].counted :
                    \E e \in Events(l) : e.id = id /\ e.doc = risky[i].doc
<1> DEFINE sample == Newest(Recent(OfKind(Events(l), Authorized), now), RiskySample)
           On(d) == {e \in sample : e.doc = d}
           First(d) == CHOOSE e \in On(d) : \A f \in On(d) : ~Newer(f, e)
           summary(d) == [doc |-> d, score |-> DocRisk(On(d)), latest |-> Latest(On(d)),
                          counted |-> {e.id : e \in On(d)}, first |-> First(d).id]
           entries == {s \in {summary(d) : d \in DocsOf(sample)} : s.score > 0}
<1>1. sample \subseteq Events(l) /\ sample \subseteq EventsBy(t) /\ IsFiniteSet(sample) /\ Distinct(sample)
  BY Sampled
<1>2. RiskyDocuments(l, now) = TopOf(entries)
  BY DEF RiskyDocuments
<1> HIDE DEF sample
<1>3. ASSUME NEW d \in DocsOf(sample)
      PROVE  /\ summary(d) \in RiskType /\ summary(d).doc = d /\ First(d) \in sample /\ First(d).doc = d
             /\ summary(d).first = First(d).id
             /\ \A id \in summary(d).counted : \E e \in Events(l) : e.id = id /\ e.doc = d
  <2>1. On(d) # {} /\ On(d) \in SUBSET EventsBy(t) /\ On(d) \subseteq sample /\ \A e \in On(d) : e.doc = d
    BY <1>1 DEF DocsOf
  <2>2. IsFiniteSet(On(d)) /\ Distinct(On(d))
    <3> HIDE DEF On
    <3>1. Distinct(On(d))
      BY <1>1, <2>1 DEF Distinct
    <3> QED
      BY <1>1, <2>1, <3>1, FS_Subset
  <2>3. d \in Docs
    BY <1>1, Parts
  <2>4. First(d) \in On(d)
    <3> HIDE DEF On
    <3> QED
      BY <2>1, <2>2, NewestOfSome
  <2> HIDE DEF On, First
  <2>5. DocRisk(On(d)) \in Nat
    BY <2>1, <2>2, DocRiskType
  <2>6. Latest(On(d)) \in Nat
    BY <2>1, Times
  <2>7. \A e \in On(d) : e.id \in Nat
    BY <2>1 DEF EventsBy
  <2>8. summary(d) \in RiskType
    BY <2>3, <2>4, <2>5, <2>6, <2>7 DEF RiskType
  <2> QED
    BY <1>1, <2>1, <2>4, <2>8
<1>4. entries \in SUBSET RiskType
  <2> HIDE DEF summary
  <2> QED
    BY <1>3
<1>5. IsFiniteSet(entries)
  <2> DEFINE T == {summary(d) : d \in DocsOf(sample)}
             f == [d \in DocsOf(sample) |-> summary(d)]
  <2>1. IsFiniteSet(DocsOf(sample))
    BY <1>1, Parts
  <2>2. f \in Surjection(DocsOf(sample), T)
    <3> HIDE DEF summary
    <3> QED
      BY DEF Surjection
  <2>3. entries \in SUBSET T
    <3> HIDE DEF summary
    <3> QED
      OBVIOUS
  <2> HIDE DEF f, T, entries
  <2>4. IsFiniteSet(T)
    BY <2>1, <2>2, FS_Surjection
  <2> QED
    BY <2>3, <2>4, FS_Subset
<1>6. \A s \in entries : \E d \in DocsOf(sample) : s = summary(d)
  <2> HIDE DEF summary
  <2> QED
    OBVIOUS
<1> HIDE DEF summary, entries
<1>7. \A x, y \in entries : x.first = y.first \/ x.doc = y.doc => x = y
  <2> SUFFICES ASSUME NEW x \in entries, NEW y \in entries, x.first = y.first \/ x.doc = y.doc PROVE x = y
    OBVIOUS
  <2>1. PICK c \in DocsOf(sample) : x = summary(c)
    BY <1>6
  <2>2. PICK d \in DocsOf(sample) : y = summary(d)
    BY <1>6
  <2> HIDE DEF First
  <2>3. x.doc = c /\ y.doc = d /\ x.first = First(c).id /\ y.first = First(d).id
    BY <1>3, <2>1, <2>2
  <2>4. First(c) \in sample /\ First(d) \in sample /\ First(c).doc = c /\ First(d).doc = d
    BY <1>3
  <2>5. First(c).id = First(d).id => c = d
    BY <1>1, <2>4 DEF Distinct
  <2> QED
    BY <2>1, <2>2, <2>3, <2>5
<1>8. Scored(entries)
  BY <1>4, <1>7 DEF Scored, RiskType
<1> DEFINE top == TopOf(entries)
<1>9. /\ top \in Seq(entries)
      /\ \A i, j \in DOMAIN top : i # j => top[i] # top[j]
      /\ \A i, j \in DOMAIN top : i < j => top[i].score >= top[j].score
  BY <1>5, <1>8, TopFacts
<1> HIDE DEF top
<1>10. top \in Seq(RiskType) /\ \A i \in DOMAIN top : top[i] \in entries
  BY <1>4, <1>9
<1>11. \A i, j \in DOMAIN top : i # j => top[i].doc # top[j].doc
  BY <1>7, <1>9, <1>10
<1>12. \A i \in DOMAIN top : \A id \in top[i].counted : \E e \in Events(l) : e.id = id /\ e.doc = top[i].doc
  BY <1>3, <1>6, <1>10
<1> QED
  BY <1>2, <1>9, <1>10, <1>11, <1>12 DEF Falls, top

(* What a signal counts: events of its actor within its window.                *)
KindsCounted(type) ==
    CASE type = "MASS" -> Authorized
      [] type = "DESTRUCTIVE" -> Destructive
      [] OTHER -> {"refused", "failed", "unreadable"}

Counts(s, entries) ==
    \A id \in s.counted : \E e \in entries :
        /\ e.id = id /\ e.actor = s.actor /\ e.kind \in KindsCounted(s.type)
        /\ s.span.from <= e.at /\ e.at <= s.span.to

LEMMA Risks ==
    ASSUME NEW t \in Nat, NEW X \in SUBSET EventsBy(t), IsFiniteSet(X)
    PROVE  MassRisk(X) \in Nat /\ BurstRisk(X) \in Nat /\ DestructiveRisk(X) \in Nat
<1> DEFINE S == {e \in X : e.level \in {"SECRET", "CONFIDENTIAL"}}
<1>1. S \in SUBSET X
  OBVIOUS
<1>2. Cardinality(S) \in Nat
  BY <1>1, FS_Subset, FS_CardinalityType
<1>3. /\ Cardinality(X) \in Nat /\ Cardinality(DocsOf(X)) \in Nat
      /\ Cardinality(OfKind(X, {"download"})) \in Nat
  BY Parts
<1>4. MassRisk(X) = Least(100, 30 + Least(8 * Cardinality(X), 40) + Least(6 * Cardinality(DocsOf(X)), 30)
                     + Least(8 * Cardinality(S), 24) + Least(4 * Cardinality(OfKind(X, {"download"})), 12))
  BY DEF MassRisk
<1>5. \A n, m, k, d \in Nat :
        Least(100, 30 + Least(8 * n, 40) + Least(6 * m, 30) + Least(8 * k, 24) + Least(4 * d, 12)) \in Nat
  BY DEF Least
<1>6. \A n, m \in Nat : Least(100, 25 + 7 * n + 4 * m) \in Nat /\ Least(100, 45 + 15 * n + 5 * m) \in Nat
  BY DEF Least
<1>7. MassRisk(X) \in Nat
  <2> DEFINE n == Cardinality(X)
             m == Cardinality(DocsOf(X))
             k == Cardinality(S)
             d == Cardinality(OfKind(X, {"download"}))
  <2>1. n \in Nat /\ m \in Nat /\ k \in Nat /\ d \in Nat
    BY <1>2, <1>3
  <2>2. MassRisk(X) = Least(100, 30 + Least(8 * n, 40) + Least(6 * m, 30) + Least(8 * k, 24) + Least(4 * d, 12))
    BY <1>4
  <2> HIDE DEF n, m, k, d
  <2> QED
    BY <1>5, <2>1, <2>2
<1>8. BurstRisk(X) \in Nat /\ DestructiveRisk(X) \in Nat
  BY <1>3, <1>6 DEF BurstRisk, DestructiveRisk
<1> QED
  BY <1>7, <1>8

LEMMA SignalsFacts ==
    ASSUME NEW t \in Nat, NEW X \in SUBSET EventsBy(t), IsFiniteSet(X), Distinct(X), X # {},
           NEW a \in Actors, \A e \in X : e.actor = a
    PROVE  \E e \in X : \A s \in SignalsOf(a, X) :
              /\ s \in SignalType /\ s.actor = a /\ s.first = 3 * e.id + SignalRank(s.type)
              /\ Counts(s, X)
              /\ \A r \in SignalsOf(a, X) : r.type = s.type => r = s
<1> DEFINE e == CHOOSE x \in X : \A f \in X : ~Newer(f, x)
           content == OfKind(X, Authorized)
           denied == Denied(X)
           acts == OfKind(X, Destructive)
           span == [from |-> Earliest(X), to |-> Latest(X)]
           S(type, counted, score) ==
              [type |-> type, actor |-> a, counted |-> {x.id : x \in counted}, score |-> score,
               latest |-> Latest(X), span |-> span, first |-> 3 * e.id + SignalRank(type)]
<1>1. e \in X
  BY NewestOfSome
<1>2. \A type, counted, score : Signal(type, a, X, counted, score) = S(type, counted, score)
  BY DEF Signal, WindowOf
<1> HIDE DEF e
<1>3. SignalsOf(a, X) \subseteq {S("MASS", content, MassRisk(content)), S("BURST", denied, BurstRisk(denied)),
                                 S("DESTRUCTIVE", acts, DestructiveRisk(acts))}
  <2> HIDE DEF S
  <2> QED
    BY <1>2 DEF SignalsOf
<1>4. e.id \in Nat /\ \A x \in X : x.id \in Nat /\ x.at \in Nat
  BY <1>1 DEF EventsBy
<1>5. /\ Latest(X) \in Nat /\ Earliest(X) \in Nat
      /\ \A x \in X : span.from <= x.at /\ x.at <= span.to
  BY Times
<1>6. /\ content \in SUBSET X /\ denied \in SUBSET X /\ acts \in SUBSET X
      /\ (\A x \in content : x.kind \in KindsCounted("MASS"))
      /\ (\A x \in denied : x.kind \in KindsCounted("BURST"))
      /\ (\A x \in acts : x.kind \in KindsCounted("DESTRUCTIVE"))
  BY DEF OfKind, Denied, KindsCounted
<1> HIDE DEF content, denied, acts
<1>7. MassRisk(content) \in Nat /\ BurstRisk(denied) \in Nat /\ DestructiveRisk(acts) \in Nat
  <2>1. IsFiniteSet(content) /\ IsFiniteSet(denied) /\ IsFiniteSet(acts)
    BY <1>6, FS_Subset
  <2> QED
    BY <1>6, <2>1, Risks
<1>8. ASSUME NEW type \in {"MASS", "BURST", "DESTRUCTIVE"}, NEW counted \in SUBSET X, NEW score \in Nat,
             \A x \in counted : x.kind \in KindsCounted(type)
      PROVE  /\ S(type, counted, score) \in SignalType /\ S(type, counted, score).actor = a
             /\ S(type, counted, score).type = type
             /\ S(type, counted, score).first = 3 * e.id + SignalRank(type)
             /\ Counts(S(type, counted, score), X)
  <2>1. SignalRank(type) \in Nat
    BY DEF SignalRank
  <2>2. 3 * e.id + SignalRank(type) \in Nat
    BY <1>4, <2>1
  <2>3. {x.id : x \in counted} \in SUBSET Nat
    BY <1>4
  <2>4. S(type, counted, score) \in SignalType
    BY <1>5, <2>2, <2>3 DEF SignalType
  <2>5. Counts(S(type, counted, score), X)
    BY <1>5, <1>8 DEF Counts
  <2> QED
    BY <2>4, <2>5
<1> HIDE DEF S
<1>9. \A s \in SignalsOf(a, X) :
          \/ s = S("MASS", content, MassRisk(content)) \/ s = S("BURST", denied, BurstRisk(denied))
          \/ s = S("DESTRUCTIVE", acts, DestructiveRisk(acts))
  BY <1>3
<1> DEFINE Fine(s) == /\ s \in SignalType /\ s.actor = a /\ s.first = 3 * e.id + SignalRank(s.type)
                      /\ Counts(s, X)
<1>10. /\ Fine(S("MASS", content, MassRisk(content))) /\ S("MASS", content, MassRisk(content)).type = "MASS"
       /\ Fine(S("BURST", denied, BurstRisk(denied))) /\ S("BURST", denied, BurstRisk(denied)).type = "BURST"
       /\ Fine(S("DESTRUCTIVE", acts, DestructiveRisk(acts)))
       /\ S("DESTRUCTIVE", acts, DestructiveRisk(acts)).type = "DESTRUCTIVE"
  BY <1>6, <1>7, <1>8
<1> HIDE DEF Fine
<1>11. \A s \in SignalsOf(a, X) : Fine(s) /\ \A r \in SignalsOf(a, X) : r.type = s.type => r = s
  BY <1>9, <1>10
<1> QED
  BY <1>1, <1>11 DEF Fine

LEMMA BehaviorFacts ==
    ASSUME NEW t \in Nat, NEW l, EntryLog(l, t), NEW now
    PROVE  LET signals == BehaviorSignals(l, now)
           IN /\ signals \in Seq(SignalType) /\ Falls(signals)
              /\ \A i, j \in DOMAIN signals :
                    i # j => signals[i].type # signals[j].type \/ signals[i].actor # signals[j].actor
              /\ \A i \in DOMAIN signals : Counts(signals[i], Events(l))
<1> DEFINE sample == Newest(Recent(OfKind(Events(l), Behavior), now), SignalSample)
           bucket(a) == {e \in sample : e.actor = a}
           some == {e.actor : e \in sample} \cap Actors
           entries == UNION {SignalsOf(a, bucket(a)) : a \in some}
<1>1. sample \subseteq Events(l) /\ sample \subseteq EventsBy(t) /\ IsFiniteSet(sample) /\ Distinct(sample)
  BY Sampled
<1>2. BehaviorSignals(l, now) = TopOf(entries)
  BY DEF BehaviorSignals
<1> HIDE DEF sample
<1>3. ASSUME NEW a \in some
      PROVE  \E e \in sample : e.actor = a /\ \A s \in SignalsOf(a, bucket(a)) :
                /\ s \in SignalType /\ s.actor = a /\ s.first = 3 * e.id + SignalRank(s.type)
                /\ Counts(s, Events(l))
                /\ \A r \in SignalsOf(a, bucket(a)) : r.type = s.type => r = s
  <2>1. bucket(a) # {} /\ bucket(a) \in SUBSET EventsBy(t) /\ bucket(a) \in SUBSET sample
        /\ \A e \in bucket(a) : e.actor = a
    BY <1>1
  <2>2. a \in Actors
    OBVIOUS
  <2> HIDE DEF bucket, some
  <2>3. IsFiniteSet(bucket(a)) /\ Distinct(bucket(a))
    <3>1. Distinct(bucket(a))
      BY <1>1, <2>1 DEF Distinct
    <3> QED
      BY <1>1, <2>1, <3>1, FS_Subset
  <2>4. PICK e \in bucket(a) : \A s \in SignalsOf(a, bucket(a)) :
              /\ s \in SignalType /\ s.actor = a /\ s.first = 3 * e.id + SignalRank(s.type)
              /\ Counts(s, bucket(a))
              /\ \A r \in SignalsOf(a, bucket(a)) : r.type = s.type => r = s
    BY <2>1, <2>2, <2>3, SignalsFacts
  <2>5. \A s : Counts(s, bucket(a)) => Counts(s, Events(l))
    BY <1>1, <2>1 DEF Counts
  <2> QED
    BY <2>1, <2>4, <2>5
<1>4. \A s \in entries : \E a \in some : s \in SignalsOf(a, bucket(a))
  <2> HIDE DEF bucket, some
  <2> QED
    OBVIOUS
<1> HIDE DEF bucket, some, entries
<1>5. \A s \in entries : s \in SignalType /\ Counts(s, Events(l))
  BY <1>3, <1>4
<1>6. \A r, s \in entries : r.type = s.type /\ r.actor = s.actor => r = s
  BY <1>3, <1>4
<1>7. \A r, s \in entries : r.first = s.first => r = s
  <2> SUFFICES ASSUME NEW r \in entries, NEW s \in entries, r.first = s.first PROVE r = s
    OBVIOUS
  <2>1. PICK a \in some : r \in SignalsOf(a, bucket(a))
    BY <1>4
  <2>2. PICK b \in some : s \in SignalsOf(b, bucket(b))
    BY <1>4
  <2>3. PICK e \in sample : e.actor = a /\ r.actor = a /\ r.first = 3 * e.id + SignalRank(r.type)
    BY <1>3, <2>1
  <2>4. PICK f \in sample : f.actor = b /\ s.actor = b /\ s.first = 3 * f.id + SignalRank(s.type)
    BY <1>3, <2>2
  <2>5. e.id \in Nat /\ f.id \in Nat
    BY <1>1 DEF EventsBy
  <2>6. r.type \in {"MASS", "BURST", "DESTRUCTIVE"} /\ s.type \in {"MASS", "BURST", "DESTRUCTIVE"}
    BY <1>5 DEF SignalType
  <2>7. SignalRank(r.type) \in 0..2 /\ SignalRank(s.type) \in 0..2 /\ (SignalRank(r.type) = SignalRank(s.type) => r.type = s.type)
    BY <2>6 DEF SignalRank
  <2>8. 3 * e.id + SignalRank(r.type) = 3 * f.id + SignalRank(s.type)
    BY <2>3, <2>4
  <2>9. \A m, n \in Nat, i, j \in 0..2 : 3 * m + i = 3 * n + j => m = n /\ i = j
    OBVIOUS
  <2>10. e.id = f.id /\ r.type = s.type
    BY <2>5, <2>7, <2>8, <2>9
  <2>11. e = f
    BY <1>1, <2>10 DEF Distinct
  <2> QED
    BY <1>6, <2>3, <2>4, <2>10, <2>11
<1>8. IsFiniteSet(entries)
  <2> DEFINE T == {"MASS", "BURST", "DESTRUCTIVE"}
             f == [s \in entries |-> <<s.type, s.actor>>]
  <2>1. IsFiniteSet(T) /\ IsFiniteSet(Actors)
    <3>1. IsFiniteSet({"MASS"})
      BY FS_Singleton
    <3>2. IsFiniteSet({"MASS"} \cup {"BURST"})
      BY <3>1, FS_AddElement
    <3>3. IsFiniteSet(({"MASS"} \cup {"BURST"}) \cup {"DESTRUCTIVE"})
      BY <3>2, FS_AddElement
    <3>4. T = ({"MASS"} \cup {"BURST"}) \cup {"DESTRUCTIVE"}
      OBVIOUS
    <3> QED
      BY <3>3, <3>4, AnalysisAssumption
  <2> HIDE DEF T
  <2>2. IsFiniteSet(T \X Actors)
    BY <2>1, FS_Product
  <2>3. f \in Injection(entries, T \X Actors)
    BY <1>5, <1>6 DEF SignalType, Injection, IsInjective, T
  <2> QED
    BY <2>2, <2>3, FS_Injection
<1>9. Scored(entries)
  BY <1>5, <1>7 DEF Scored, SignalType
<1> DEFINE top == TopOf(entries)
<1>10. /\ top \in Seq(entries)
       /\ \A i, j \in DOMAIN top : i # j => top[i] # top[j]
       /\ \A i, j \in DOMAIN top : i < j => top[i].score >= top[j].score
  BY <1>8, <1>9, TopFacts
<1> HIDE DEF top
<1>11. top \in Seq(SignalType) /\ \A i \in DOMAIN top : top[i] \in entries
  BY <1>5, <1>10
<1>12. \A i, j \in DOMAIN top : i # j => top[i].type # top[j].type \/ top[i].actor # top[j].actor
  BY <1>6, <1>10, <1>11
<1> QED
  BY <1>2, <1>5, <1>10, <1>11, <1>12 DEF Falls, top

(* Lists joined: what is in them, and that no recommendation is in them twice. *)
OneEach(recs) == \A i, j \in DOMAIN recs : i # j => recs[i].id # recs[j].id

LEMMA Joined ==
    ASSUME NEW X, NEW a \in Seq(X), NEW b \in Seq(X)
    PROVE  /\ a \o b \in Seq(X)
           /\ Seqs!ToSet(a \o b) = Seqs!ToSet(a) \cup Seqs!ToSet(b)
           /\ OneEach(a) /\ OneEach(b) /\ (\A x \in Seqs!ToSet(a), y \in Seqs!ToSet(b) : x.id # y.id)
                => OneEach(a \o b)
<1> DEFINE c == a \o b
           m == Len(a)
           n == Len(b)
<1>1. /\ m \in Nat /\ n \in Nat /\ DOMAIN a = 1..m /\ DOMAIN b = 1..n
      /\ c \in Seq(X) /\ Len(c) = m + n /\ DOMAIN c = 1..(m + n)
      /\ \A i \in 1..(m + n) : c[i] = IF i <= m THEN a[i] ELSE b[i - m]
  BY ConcatProperties
<1> HIDE DEF c, m, n
<1>2. \A i \in 1..(m + n) : (i \in 1..m /\ c[i] = a[i]) \/ (i - m \in 1..n /\ c[i] = b[i - m])
  BY <1>1
<1>3. /\ \A i \in 1..m : i \in 1..(m + n) /\ c[i] = a[i]
      /\ \A i \in 1..n : i + m \in 1..(m + n) /\ c[i + m] = b[i]
  BY <1>1
<1>4. Seqs!ToSet(c) = Seqs!ToSet(a) \cup Seqs!ToSet(b)
  <2>1. /\ Seqs!ToSet(c) = {c[i] : i \in 1..(m + n)}
        /\ Seqs!ToSet(a) = {a[i] : i \in 1..m} /\ Seqs!ToSet(b) = {b[i] : i \in 1..n}
    BY <1>1 DEF Seqs!ToSet
  <2>2. \A x \in Seqs!ToSet(c) : x \in Seqs!ToSet(a) \cup Seqs!ToSet(b)
    BY <1>2, <2>1
  <2>3. \A x \in Seqs!ToSet(a) \cup Seqs!ToSet(b) : x \in Seqs!ToSet(c)
    BY <1>3, <2>1
  <2> QED
    BY <2>2, <2>3
<1>5. ASSUME OneEach(a), OneEach(b), \A x \in Seqs!ToSet(a), y \in Seqs!ToSet(b) : x.id # y.id
      PROVE  OneEach(c)
  <2> SUFFICES ASSUME NEW i \in 1..(m + n), NEW j \in 1..(m + n), i # j PROVE c[i].id # c[j].id
    BY <1>1 DEF OneEach
  <2>1. \A k \in 1..m, l \in 1..n : a[k].id # b[l].id /\ b[l].id # a[k].id
    BY <1>1, <1>5 DEF Seqs!ToSet
  <2>2. /\ \A k, l \in 1..m : k # l => a[k].id # a[l].id
        /\ \A k, l \in 1..n : k # l => b[k].id # b[l].id
    BY <1>1, <1>5 DEF OneEach
  <2>3. i - m = j - m => i = j
    BY <1>1
  <2> QED
    BY <1>2, <2>1, <2>2, <2>3
<1> QED
  BY <1>1, <1>4, <1>5 DEF c

LEMMA ElevatedFacts ==
    ASSUME NEW X, NEW rows \in Seq(X)
    PROVE  /\ Elevated(rows) \in Seq(X)
           /\ \A k \in DOMAIN Elevated(rows) : Elevated(rows)[k].score >= 50
           /\ \A i \in DOMAIN rows : rows[i].score >= 50 =>
                 \E k \in DOMAIN Elevated(rows) : Elevated(rows)[k] = rows[i]
           /\ \E at \in [DOMAIN Elevated(rows) -> DOMAIN rows] :
                 /\ \A k \in DOMAIN Elevated(rows) : Elevated(rows)[k] = rows[at[k]]
                 /\ \A j, k \in DOMAIN Elevated(rows) : j # k => at[j] # at[k]
<1> DEFINE S == {r \in Seqs!ToSet(rows) : r.score >= 50}
           high == Only(rows, S)
<1>1. Elevated(rows) = high
  BY DEF Elevated, Where
<1>2. /\ high \in Seq(X) /\ Seqs!ToSet(high) = Seqs!ToSet(rows) \cap S
      /\ \E at \in [1..Len(high) -> 1..Len(rows)] :
            /\ \A k \in 1..Len(high) : high[k] = rows[at[k]]
            /\ \A j, k \in 1..Len(high) : j < k => at[j] < at[k]
  BY OnlyFacts
<1>3. Seqs!ToSet(rows) = {rows[i] : i \in DOMAIN rows} /\ Seqs!ToSet(high) = {high[i] : i \in DOMAIN high}
  BY DEF Seqs!ToSet
<1> HIDE DEF high
<1>4. \A k \in DOMAIN high : high[k].score >= 50
  BY <1>2, <1>3
<1>5. \A i \in DOMAIN rows : rows[i].score >= 50 => \E k \in DOMAIN high : high[k] = rows[i]
  <2> SUFFICES ASSUME NEW i \in DOMAIN rows, rows[i].score >= 50
               PROVE  \E k \in DOMAIN high : high[k] = rows[i]
    OBVIOUS
  <2>1. rows[i] \in Seqs!ToSet(high)
    BY <1>2, <1>3
  <2> QED
    BY <1>3, <2>1
<1>6. DOMAIN high = 1..Len(high) /\ DOMAIN rows = 1..Len(rows) /\ Len(high) \in Nat /\ Len(rows) \in Nat
  BY <1>2
<1>7. PICK at \in [1..Len(high) -> 1..Len(rows)] :
            /\ \A k \in 1..Len(high) : high[k] = rows[at[k]]
            /\ \A j, k \in 1..Len(high) : j < k => at[j] < at[k]
  BY <1>2
<1>8. \A j, k \in 1..Len(high) : j # k => at[j] # at[k]
  <2> SUFFICES ASSUME NEW j \in 1..Len(high), NEW k \in 1..Len(high), j # k PROVE at[j] # at[k]
    OBVIOUS
  <2>1. (j < k \/ k < j) /\ at[j] \in Nat /\ at[k] \in Nat
    BY <1>6, <1>7
  <2>2. at[j] < at[k] \/ at[k] < at[j]
    BY <1>7, <2>1
  <2> QED
    BY <2>1, <2>2
<1> QED
  BY <1>1, <1>2, <1>4, <1>5, <1>6, <1>7, <1>8

-----------------------------------------------------------------------------
(* The recommendations of a summary: what they are about, that no two are      *)
(* about the same, and that the events behind one pass its filter.             *)
Severities == {"critical", "warning", "info"}

FilterType ==
    [kinds : SUBSET Kinds, actor : Actors \cup {"any"}, doc : Docs \cup {"any"}, from : Nat,
     to : Nat \cup {Open}]

RecType == [id : RecIds, severity : Severities, counted : SUBSET Nat, filter : FilterType]

Passes(filter, e) ==
    /\ e.kind \in filter.kinds
    /\ filter.actor \in {"any", e.actor}
    /\ filter.doc \in {"any", e.doc}
    /\ filter.from <= e.at
    /\ filter.to = Open \/ e.at <= filter.to

Sourced(r, entries) ==
    r.id.kind # "BURST" => \A id \in r.counted : \E e \in entries : e.id = id /\ Passes(r.filter, e)

SignalKinds == {"MASS", "BURST", "DESTRUCTIVE"}

(* What the recommendations say of the chain and of the signals. *)
Agree(recs, signals, verdict) ==
    /\ \A r \in Seqs!ToSet(recs) :
          /\ r.id.kind = "chain" => verdict = "invalid"
          /\ r.id.kind \in SignalKinds /\ r.severity = "critical" => \E k \in DOMAIN signals : signals[k].score >= 80
          /\ r.id.kind = "deny" => r.severity # "critical"
    /\ Len(recs) < MaxRecs =>
          /\ verdict = "invalid" => \E r \in Seqs!ToSet(recs) : r.id.kind = "chain"
          /\ (\E k \in DOMAIN signals : signals[k].score >= 80) =>
                \E r \in Seqs!ToSet(recs) : r.id.kind \in SignalKinds /\ r.severity = "critical"

LEMMA RecommendationsFacts ==
    ASSUME NEW t \in Nat, NEW counted, EntryLog(counted, t), NEW listed, EntryLog(listed, t), NEW verdict, NEW now
    PROVE  LET recs == Recommendations(verdict, counted, listed, now)
               signals == BehaviorSignals(listed, now)
           IN /\ recs \in Seq(RecType) /\ OneEach(recs)
              /\ \A r \in Seqs!ToSet(recs) : Sourced(r, Events(counted) \cup Events(listed))
              /\ Agree(recs, signals, verdict)
<1> DEFINE signals == BehaviorSignals(listed, now)
           risky == Elevated(RiskyDocuments(listed, now))
           high == Elevated(signals)
           denying == Only(DenyActors(listed, now), Actors \ BurstActors(signals))
           recDoc(d) == Rec("document", d.doc, Severity(d.score), {}, [AnyEvent EXCEPT !.doc = d.doc])
           recSignal(s) == Rec(s.type, s.actor, Severity(s.score), s.counted, SignalFilter(s))
           recDeny(a) == Rec("deny", a, "warning", {e.id : e \in Denies(listed, now, a)},
                             [AnyEvent EXCEPT !.actor = a])
           hits(kind) == OfKind(Events(counted), {kind})
           recOf(kind) ==
             IF hits(kind) = {} THEN <<>>
             ELSE <<Rec(kind, "all", "warning", {e.id : e \in hits(kind)}, [AnyEvent EXCEPT !.kinds = {kind}])>>
           c1 == IF verdict = "invalid" THEN <<Rec("chain", "all", "critical", {}, AnyEvent)>> ELSE <<>>
           c2 == [i \in DOMAIN risky |-> recDoc(risky[i])]
           c3 == [i \in DOMAIN high |-> recSignal(high[i])]
           c4 == [i \in DOMAIN denying |-> recDeny(denying[i])]
           c5 == recOf("dlp")
           c6 == recOf("malware")
           all == (c1 \o c2) \o (((c3 \o c4) \o c5) \o c6)
           recs == SubSeq(all, 1, Least(MaxRecs, Len(all)))
           entries == Events(counted) \cup Events(listed)
           Fine(r) ==
             /\ Sourced(r, entries)
             /\ r.id.kind = "chain" => verdict = "invalid"
             /\ r.id.kind \in SignalKinds /\ r.severity = "critical" =>
                   \E k \in DOMAIN signals : signals[k].score >= 80
             /\ r.id.kind = "deny" => r.severity # "critical"
           Part(c, kinds) == /\ c \in Seq(RecType) /\ OneEach(c)
                             /\ \A r \in Seqs!ToSet(c) : Fine(r) /\ r.id.kind \in kinds
<1>1. Recommendations(verdict, counted, listed, now) = recs
  BY DEF Recommendations
<1>2. AnyEvent \in FilterType /\ \A e \in entries : Passes(AnyEvent, e) /\ e.kind \in Kinds /\ e.at \in Nat /\ e.id \in Nat
  <2>1. \A e \in entries : e.kind \in Kinds /\ e.at \in Nat /\ e.id \in Nat
    BY EventsOfLog DEF EventsBy
  <2> QED
    BY <2>1 DEF FilterType, AnyEvent, Passes
<1>3. Part(c1, {"chain"})
  <2> DEFINE x == Rec("chain", "all", "critical", {}, AnyEvent)
  <2>1. (x \in RecType /\ Fine(x)) \/ verdict # "invalid"
    BY <1>2 DEF Rec, RecType, RecIds, RecKinds, Severities, Sourced, SignalKinds
  <2>2. x.id.kind = "chain"
    BY DEF Rec
  <2> HIDE DEF x, Fine
  <2>3. c1 = <<>> \/ (verdict = "invalid" /\ c1 = <<x>>)
    BY DEF x
  <2>4. c1 \in Seq(RecType) /\ OneEach(c1) /\ \A r \in Seqs!ToSet(c1) : r = x /\ verdict = "invalid"
    BY <2>1, <2>3 DEF OneEach, Seqs!ToSet
  <2> QED
    BY <2>1, <2>2, <2>4
<1> DEFINE docs == RiskyDocuments(listed, now)
<1>a. /\ docs \in Seq(RiskType)
      /\ \A i, j \in DOMAIN docs : i # j => docs[i].doc # docs[j].doc
  BY RiskyFacts
<1>b. /\ signals \in Seq(SignalType)
      /\ \A i, j \in DOMAIN signals : i # j => signals[i].type # signals[j].type \/ signals[i].actor # signals[j].actor
      /\ \A i \in DOMAIN signals : Counts(signals[i], Events(listed))
  BY BehaviorFacts
<1> HIDE DEF docs, signals
<1>4. Part(c2, {"document"})
  <2>1. risky \in Seq(RiskType) /\ \E at \in [DOMAIN risky -> DOMAIN docs] :
                 /\ \A k \in DOMAIN risky : risky[k] = docs[at[k]]
                 /\ \A j, k \in DOMAIN risky : j # k => at[j] # at[k]
    BY <1>a, ElevatedFacts DEF docs
  <2> HIDE DEF risky
  <2>2. \A i, j \in DOMAIN risky : i # j => risky[i].doc # risky[j].doc
    BY <1>a, <2>1
  <2>3. \A d \in RiskType : recDoc(d) \in RecType /\ Fine(recDoc(d)) /\ recDoc(d).id.kind = "document"
                            /\ recDoc(d).id.of = d.doc
    <3> SUFFICES ASSUME NEW d \in RiskType
                 PROVE  recDoc(d) \in RecType /\ Fine(recDoc(d)) /\ recDoc(d).id.kind = "document"
                            /\ recDoc(d).id.of = d.doc
      OBVIOUS
    <3>1. Severity(d.score) \in Severities /\ d.doc \in Docs
      BY DEF Severity, Severities, RiskType
    <3>2. [AnyEvent EXCEPT !.doc = d.doc] \in FilterType
      BY <1>2, <3>1 DEF FilterType
    <3> QED
      BY <3>1, <3>2 DEF Rec, RecType, RecIds, RecKinds, Sourced, SignalKinds
  <2> HIDE DEF recDoc, Fine
  <2>4. c2 \in Seq(RecType)
    BY <2>1, <2>3
  <2> QED
    BY <2>1, <2>2, <2>3, <2>4 DEF OneEach, Seqs!ToSet
<1>5. Part(c3, SignalKinds)
  <2>1. high \in Seq(SignalType) /\ \E at \in [DOMAIN high -> DOMAIN signals] :
                 /\ \A k \in DOMAIN high : high[k] = signals[at[k]]
                 /\ \A j, k \in DOMAIN high : j # k => at[j] # at[k]
    BY <1>b, ElevatedFacts
  <2> HIDE DEF high
  <2>2. \A i, j \in DOMAIN high : i # j => high[i].type # high[j].type \/ high[i].actor # high[j].actor
    <3> SUFFICES ASSUME NEW i \in DOMAIN high, NEW j \in DOMAIN high, i # j
                 PROVE  high[i].type # high[j].type \/ high[i].actor # high[j].actor
      OBVIOUS
    <3>1. PICK at \in [DOMAIN high -> DOMAIN signals] :
                 /\ \A k \in DOMAIN high : high[k] = signals[at[k]]
                 /\ \A l, k \in DOMAIN high : l # k => at[l] # at[k]
      BY <2>1
    <3>2. at[i] \in DOMAIN signals /\ at[j] \in DOMAIN signals /\ at[i] # at[j]
      BY <3>1
    <3>3. signals[at[i]].type # signals[at[j]].type \/ signals[at[i]].actor # signals[at[j]].actor
      BY <1>b, <3>2
    <3> QED
      BY <3>1, <3>3
  <2>3. \A i \in DOMAIN high : high[i] \in SignalType /\ \E k \in DOMAIN signals : high[i] = signals[k]
    BY <2>1
  <2>4. ASSUME NEW k \in DOMAIN signals
        PROVE  LET r == recSignal(signals[k])
               IN r \in RecType /\ Fine(r) /\ r.id.kind = signals[k].type /\ r.id.of = signals[k].actor
                  /\ r.id.kind \in SignalKinds
    <3> DEFINE s == signals[k]
    <3>1. s \in SignalType /\ Counts(s, Events(listed))
      BY <1>b
    <3> HIDE DEF s
    <3>2. s.type \in SignalKinds /\ s.actor \in Actors /\ s.counted \in SUBSET Nat /\ s.score \in Nat
          /\ s.span.from \in Nat /\ s.span.to \in Nat
      BY <3>1 DEF SignalType, SignalKinds
    <3>3. Severity(s.score) \in Severities /\ (Severity(s.score) = "critical" => s.score >= 80)
      BY DEF Severity, Severities
    <3>4. /\ SignalFilter(s) \in FilterType
          /\ SignalFilter(s).actor = s.actor /\ SignalFilter(s).doc = "any"
          /\ SignalFilter(s).from = s.span.from /\ SignalFilter(s).to = s.span.to
          /\ s.type # "BURST" => SignalFilter(s).kinds = KindsCounted(s.type)
      BY <3>2 DEF SignalFilter, FilterType, SignalKinds, KindsCounted, Authorized, Destructive,
                  DeniedResults, Kinds, Behavior
    <3>5. s.type # "BURST" => \A id \in s.counted : \E e \in entries : e.id = id /\ Passes(SignalFilter(s), e)
      <4> HIDE DEF entries
      <4>1. Events(listed) \subseteq entries
        BY DEF entries
      <4> QED
        BY <3>1, <3>4, <4>1 DEF Counts, Passes
    <3> DEFINE r == recSignal(s)
    <3>6. /\ r.id = [kind |-> s.type, of |-> s.actor] /\ r.severity = Severity(s.score)
          /\ r.counted = s.counted /\ r.filter = SignalFilter(s)
          /\ r = [id |-> [kind |-> s.type, of |-> s.actor], severity |-> Severity(s.score),
                  counted |-> s.counted, filter |-> SignalFilter(s)]
      BY DEF Rec
    <3>7. [kind |-> s.type, of |-> s.actor] \in RecIds
      BY <3>2 DEF RecIds, RecKinds, SignalKinds
    <3>8. r \in RecType
      BY <3>2, <3>3, <3>4, <3>6, <3>7 DEF RecType
    <3> HIDE DEF r, entries
    <3>9. Fine(r)
      <4>1. Sourced(r, entries)
        BY <3>5, <3>6 DEF Sourced
      <4>2. r.id.kind \in SignalKinds /\ r.severity = "critical" => signals[k].score >= 80
        BY <3>3, <3>6 DEF s
      <4> QED
        BY <3>2, <3>6, <4>1, <4>2 DEF SignalKinds
    <3> HIDE DEF Fine
    <3> QED
      BY <3>2, <3>6, <3>8, <3>9 DEF s, r
  <2> HIDE DEF recSignal, Fine
  <2>5. \A i \in DOMAIN high : LET r == recSignal(high[i]) IN
          r \in RecType /\ Fine(r) /\ r.id.kind = high[i].type /\ r.id.of = high[i].actor /\ r.id.kind \in SignalKinds
    BY <2>3, <2>4
  <2>6. c3 \in Seq(RecType)
    BY <2>1, <2>5
  <2> QED
    BY <2>1, <2>2, <2>5, <2>6 DEF OneEach, Seqs!ToSet
<1>6. Part(c4, {"deny"})
  <2> DEFINE actors == DenyActors(listed, now)
  <2>1. actors \in Seq(Actors) /\ \A i, j \in DOMAIN actors : i # j => actors[i] # actors[j]
    BY DenyActorsFacts
  <2>2. denying \in Seq(Actors) /\ \E at \in [1..Len(denying) -> 1..Len(actors)] :
            /\ \A k \in 1..Len(denying) : denying[k] = actors[at[k]]
            /\ \A j, k \in 1..Len(denying) : j < k => at[j] < at[k]
    BY <2>1, OnlyFacts DEF actors
  <2> HIDE DEF denying, actors
  <2>3. DOMAIN denying = 1..Len(denying) /\ DOMAIN actors = 1..Len(actors) /\ Len(denying) \in Nat /\ Len(actors) \in Nat
    BY <2>1, <2>2
  <2>4. \A i, j \in DOMAIN denying : i < j => denying[i] # denying[j]
    BY <2>1, <2>2, <2>3
  <2>5. \A i, j \in DOMAIN denying : i # j => denying[i] # denying[j]
    BY <2>3, <2>4
  <2>6. ASSUME NEW a \in Actors
        PROVE  LET r == recDeny(a)
               IN r \in RecType /\ Fine(r) /\ r.id.kind = "deny" /\ r.id.of = a
    <3>1. Denies(listed, now, a) \subseteq Events(listed) /\ \A e \in Denies(listed, now, a) : e.actor = a
      BY DEF Denies, Recent, OfKind
    <3>2. \A e \in Denies(listed, now, a) : e \in entries /\ e.id \in Nat
      BY <1>2, <3>1
    <3>3. {e.id : e \in Denies(listed, now, a)} \in SUBSET Nat
      BY <3>2
    <3>4. [AnyEvent EXCEPT !.actor = a] \in FilterType
      BY <1>2 DEF FilterType
    <3>5. \A e \in Denies(listed, now, a) : Passes([AnyEvent EXCEPT !.actor = a], e)
      BY <1>2, <3>1, <3>2 DEF Passes, AnyEvent
    <3> HIDE DEF entries
    <3>6. Sourced(recDeny(a), entries)
      BY <3>2, <3>5 DEF Sourced, Rec
    <3> QED
      BY <3>3, <3>4, <3>6 DEF Rec, RecType, RecIds, RecKinds, Severities, SignalKinds
  <2> HIDE DEF recDeny, Fine
  <2>7. c4 \in Seq(RecType)
    BY <2>2, <2>6
  <2> QED
    BY <2>2, <2>5, <2>6, <2>7 DEF OneEach, Seqs!ToSet
<1>7. Part(c5, {"dlp"}) /\ Part(c6, {"malware"})
  <2> SUFFICES ASSUME NEW kind \in {"dlp", "malware"} PROVE Part(recOf(kind), {kind})
    OBVIOUS
  <2> DEFINE filter == [AnyEvent EXCEPT !.kinds = {kind}]
             x == Rec(kind, "all", "warning", {e.id : e \in hits(kind)}, filter)
  <2>1. hits(kind) \subseteq Events(counted) /\ \A e \in hits(kind) : e.kind = kind
    BY DEF OfKind
  <2>2. \A e \in hits(kind) : e \in entries /\ e.id \in Nat
    BY <1>2, <2>1
  <2>3. {e.id : e \in hits(kind)} \in SUBSET Nat
    BY <2>2
  <2>4. filter \in FilterType
    <3>1. {kind} \in SUBSET Kinds
      BY DEF Kinds, DeniedResults
    <3> QED
      BY <1>2, <3>1 DEF FilterType
  <2>5. \A e \in hits(kind) : Passes(filter, e)
    BY <1>2, <2>1, <2>2 DEF Passes, AnyEvent
  <2> HIDE DEF entries, hits, filter
  <2>6. Sourced(x, entries)
    BY <2>2, <2>5 DEF Sourced, Rec
  <2>7. x \in RecType /\ Fine(x) /\ x.id.kind = kind
    BY <2>3, <2>4, <2>6 DEF Rec, RecType, RecIds, RecKinds, Severities, SignalKinds
  <2> HIDE DEF x, Fine
  <2>8. recOf(kind) = <<>> \/ recOf(kind) = <<x>>
    BY DEF x, filter
  <2> HIDE DEF recOf
  <2>9. recOf(kind) \in Seq(RecType) /\ OneEach(recOf(kind)) /\ \A r \in Seqs!ToSet(recOf(kind)) : r = x
    <3>1. CASE recOf(kind) = <<>>
      BY <3>1 DEF OneEach, Seqs!ToSet
    <3>2. CASE recOf(kind) = <<x>>
      <4>1. DOMAIN <<x>> = {1} /\ <<x>>[1] = x /\ <<x>> \in Seq(RecType)
        BY <2>7
      <4> QED
        BY <3>2, <4>1 DEF OneEach, Seqs!ToSet
    <3> QED
      BY <2>8, <3>1, <3>2
  <2> QED
    BY <2>7, <2>9
<1>8. ASSUME NEW a, NEW b, NEW K, NEW L, Part(a, K), Part(b, L), K \cap L = {} PROVE Part(a \o b, K \cup L)
  <2> HIDE DEF Fine
  <2>1. a \in Seq(RecType) /\ b \in Seq(RecType)
    BY <1>8
  <2>2. /\ a \o b \in Seq(RecType)
        /\ Seqs!ToSet(a \o b) = Seqs!ToSet(a) \cup Seqs!ToSet(b)
        /\ OneEach(a) /\ OneEach(b) /\ (\A x \in Seqs!ToSet(a), y \in Seqs!ToSet(b) : x.id # y.id)
                => OneEach(a \o b)
    BY <2>1, Joined
  <2>3. \A x \in Seqs!ToSet(a), y \in Seqs!ToSet(b) : x.id # y.id
    BY <1>8
  <2> QED
    BY <1>8, <2>2, <2>3
<1>9. Part(all, RecKinds)
  <2> HIDE DEF Part, c1, c2, c3, c4, c5, c6
  <2>1. Part(c1 \o c2, {"chain"} \cup {"document"})
    BY <1>3, <1>4, <1>8
  <2>2. Part(c3 \o c4, SignalKinds \cup {"deny"})
    <3>1. SignalKinds \cap {"deny"} = {}
      BY DEF SignalKinds
    <3> QED
      BY <1>5, <1>6, <1>8, <3>1
  <2>3. Part((c3 \o c4) \o c5, (SignalKinds \cup {"deny"}) \cup {"dlp"})
    <3>1. (SignalKinds \cup {"deny"}) \cap {"dlp"} = {}
      BY DEF SignalKinds
    <3> QED
      BY <1>7, <1>8, <2>2, <3>1
  <2>4. Part(((c3 \o c4) \o c5) \o c6, ((SignalKinds \cup {"deny"}) \cup {"dlp"}) \cup {"malware"})
    <3>1. ((SignalKinds \cup {"deny"}) \cup {"dlp"}) \cap {"malware"} = {}
      BY DEF SignalKinds
    <3> QED
      BY <1>7, <1>8, <2>3, <3>1
  <2>5. ({"chain"} \cup {"document"}) \cap (((SignalKinds \cup {"deny"}) \cup {"dlp"}) \cup {"malware"}) = {}
    BY DEF SignalKinds
  <2>6. ({"chain"} \cup {"document"}) \cup (((SignalKinds \cup {"deny"}) \cup {"dlp"}) \cup {"malware"}) = RecKinds
    BY DEF SignalKinds, RecKinds
  <2> QED
    BY <1>8, <2>1, <2>4, <2>5, <2>6
<1>10. /\ verdict = "invalid" => \E r \in Seqs!ToSet(all) : r.id.kind = "chain"
       /\ (\E k \in DOMAIN signals : signals[k].score >= 80) =>
             \E r \in Seqs!ToSet(all) : r.id.kind \in SignalKinds /\ r.severity = "critical"
  <2>1. Seqs!ToSet(c1) \subseteq Seqs!ToSet(all) /\ Seqs!ToSet(c3) \subseteq Seqs!ToSet(all)
    <3>1. /\ c1 \in Seq(RecType) /\ c2 \in Seq(RecType) /\ c3 \in Seq(RecType) /\ c4 \in Seq(RecType)
          /\ c5 \in Seq(RecType) /\ c6 \in Seq(RecType)
      BY <1>3, <1>4, <1>5, <1>6, <1>7
    <3> HIDE DEF c1, c2, c3, c4, c5, c6
    <3>2. c1 \o c2 \in Seq(RecType) /\ c3 \o c4 \in Seq(RecType) /\ (c3 \o c4) \o c5 \in Seq(RecType)
          /\ ((c3 \o c4) \o c5) \o c6 \in Seq(RecType)
      BY <3>1, Joined
    <3>3. /\ Seqs!ToSet(c1 \o c2) = Seqs!ToSet(c1) \cup Seqs!ToSet(c2)
          /\ Seqs!ToSet(c3 \o c4) = Seqs!ToSet(c3) \cup Seqs!ToSet(c4)
      BY <3>1, Joined
    <3>4. Seqs!ToSet((c3 \o c4) \o c5) = Seqs!ToSet(c3 \o c4) \cup Seqs!ToSet(c5)
      BY <3>1, <3>2, Joined
    <3>5. Seqs!ToSet(((c3 \o c4) \o c5) \o c6) = Seqs!ToSet((c3 \o c4) \o c5) \cup Seqs!ToSet(c6)
      BY <3>1, <3>2, Joined
    <3>6. Seqs!ToSet(all) = Seqs!ToSet(c1 \o c2) \cup Seqs!ToSet(((c3 \o c4) \o c5) \o c6)
      <4> DEFINE left == c1 \o c2
                 right == ((c3 \o c4) \o c5) \o c6
      <4>1. left \in Seq(RecType) /\ right \in Seq(RecType) /\ all = left \o right
        BY <3>2
      <4> HIDE DEF all, left, right
      <4>2. Seqs!ToSet(left \o right) = Seqs!ToSet(left) \cup Seqs!ToSet(right)
        BY <4>1, Joined
      <4> QED
        BY <4>1, <4>2 DEF left, right
    <3> QED
      BY <3>3, <3>4, <3>5, <3>6
  <2>2. ASSUME verdict = "invalid" PROVE \E r \in Seqs!ToSet(c1) : r.id.kind = "chain"
    BY <2>2 DEF Seqs!ToSet, Rec
  <2>3. ASSUME NEW k \in DOMAIN signals, signals[k].score >= 80
        PROVE  \E r \in Seqs!ToSet(c3) : r.id.kind \in SignalKinds /\ r.severity = "critical"
    <3>1. signals[k] \in SignalType
      BY <1>b
    <3>a. signals[k].score \in Nat
      BY <3>1 DEF SignalType
    <3>2. signals[k].score >= 50
      BY <2>3, <3>a
    <3>3. PICK i \in DOMAIN high : high[i] = signals[k]
      BY <1>b, <3>2, ElevatedFacts
    <3> HIDE DEF high
    <3>4. c3[i] = recSignal(signals[k]) /\ i \in DOMAIN c3
      BY <3>3
    <3>5. recSignal(signals[k]).severity = "critical" /\ recSignal(signals[k]).id.kind \in SignalKinds
      BY <2>3, <3>1 DEF Rec, Severity, SignalType, SignalKinds
    <3> QED
      BY <3>4, <3>5 DEF Seqs!ToSet
  <2> HIDE DEF all, c1, c3
  <2> QED
    BY <2>1, <2>2, <2>3
<1>11. recs \in Seq(RecType) /\ Len(recs) <= Len(all) /\ (\A i \in DOMAIN recs : i \in DOMAIN all /\ recs[i] = all[i])
       /\ (Len(recs) < MaxRecs => recs = all)
  <2>1. all \in Seq(RecType) /\ MaxRecs \in Nat
    BY <1>9, AnalysisAssumption
  <2> HIDE DEF all
  <2> DEFINE m == Least(MaxRecs, Len(all))
  <2>2. m \in 0..Len(all) /\ (m < MaxRecs => m = Len(all))
    BY <2>1 DEF Least
  <2> HIDE DEF m
  <2>3. SubSeq(all, 1, m) \in Seq(RecType) /\ Len(SubSeq(all, 1, m)) = m
        /\ (\A i \in 1..m : SubSeq(all, 1, m)[i] = all[i])
    BY <2>1, <2>2, SubSeqProperties
  <2>4. m = Len(all) => SubSeq(all, 1, m) = all
    BY <2>1, SubSeqProperties
  <2> QED
    BY <2>1, <2>2, <2>3, <2>4 DEF m
<1> HIDE DEF all, recs
<1>12. OneEach(recs)
  BY <1>9, <1>11 DEF OneEach
<1>13. \A r \in Seqs!ToSet(recs) : Fine(r)
  <2> HIDE DEF Fine
  <2>1. \A r \in Seqs!ToSet(recs) : r \in Seqs!ToSet(all)
    BY <1>11 DEF Seqs!ToSet
  <2> QED
    BY <1>9, <2>1
<1>14. Agree(recs, signals, verdict)
  BY <1>10, <1>11, <1>13 DEF Agree
<1>15. \A r \in Seqs!ToSet(recs) : Sourced(r, Events(counted) \cup Events(listed))
  BY <1>13
<1> HIDE DEF signals
<1>16. recs \in Seq(RecType)
  BY <1>11
<1> QED
  BY <1>1, <1>12, <1>14, <1>15, <1>16 DEF signals

(* The workflow of a recommendation and the rows of the queue. *)
RowType ==
    [id : RecIds, severity : Severities, filter : FilterType, counted : SUBSET Nat, workflow : StateType]

LEMMA WorkflowFacts ==
    ASSUME NEW t \in Nat, NEW l, EntryLog(l, t), NEW id
    PROVE  /\ WorkflowState(l, id) \in StateType
           /\ WorkflowState(l, id).id # 0 =>
                \E e \in StatusEvents(l, id) :
                   /\ WorkflowState(l, id).id = e.id /\ WorkflowState(l, id).at = e.at
                   /\ \A f \in StatusEvents(l, id) \ {e} : Supersedes(e, f)
           /\ WorkflowState(l, id).id = 0 => StatusEvents(l, id) = {}
<1> DEFINE entries == StatusEvents(l, id)
           e == CHOOSE x \in entries : \A y \in entries \ {x} : Supersedes(x, y)
<1>1. /\ entries \in SUBSET EventsBy(t) /\ entries \in SUBSET Events(l) /\ Distinct(entries) /\ IsFiniteSet(entries)
      /\ \A x \in entries : x.id \in Nat \ {0}
  <2>1. entries \in SUBSET Events(l)
    BY DEF StatusEvents
  <2>2. IsFiniteSet(entries)
    BY <2>1, EventsOfLog, FS_Subset
  <2>3. Events(l) \subseteq EventsBy(t) /\ Distinct(Events(l)) /\ (\A x \in Events(l) : x.id \in 1..Len(l))
        /\ Len(l) \in Nat
    BY EventsOfLog
  <2> HIDE DEF entries
  <2> QED
    BY <2>1, <2>2, <2>3 DEF Distinct
<1>2. CASE entries = {}
  <2>1. WorkflowState(l, id) = NotStarted
    BY <1>2 DEF WorkflowState
  <2>2. NotStarted \in StateType /\ NotStarted.id = 0
    BY DEF NotStarted, StateType, Statuses, Notes, Stamps
  <2> QED
    BY <1>2, <2>1, <2>2
<1>3. CASE entries # {}
  <2>1. \E x \in entries : \A y \in entries \ {x} : Supersedes(x, y)
    <3> HIDE DEF entries
    <3> QED
      BY <1>1, <1>3, NewestOfSome
  <2>2. e \in entries /\ \A y \in entries \ {e} : Supersedes(e, y)
    BY <2>1
  <2>3. WorkflowState(l, id) = [status |-> e.status, note |-> e.note, at |-> e.at, id |-> e.id, actor |-> e.actor]
    BY <1>3 DEF WorkflowState
  <2> HIDE DEF e, entries
  <2>4. e \in EventsBy(t) /\ e.id \in Nat \ {0}
    BY <1>1, <2>2
  <2>5. e.status \in Statuses /\ e.note \in Notes /\ e.at \in 0..t /\ e.actor \in Actors \cup Officers
    BY <2>4, EventFields
  <2>6. WorkflowState(l, id) \in StateType
    BY <2>3, <2>4, <2>5 DEF StateType, Stamps
  <2> QED
    BY <2>2, <2>3, <2>4, <2>6 DEF entries
<1> QED
  BY <1>2, <1>3

LEMMA RowsFacts ==
    ASSUME NEW recs \in Seq(RowType), NEW all, all.recs = recs
    PROVE  /\ Rows(all) \in Seq(RowType) /\ Len(Rows(all)) = Len(recs)
           /\ Seqs!ToSet(Rows(all)) = Seqs!ToSet(recs)
           /\ OneEach(recs) => OneEach(Rows(all))
<1> DEFINE n == Len(recs)
           R == {p \in (1..n) \X (1..n) : Above(recs, p[1], p[2])}
           order == Ranked(1..n, R)
<1>1. n \in Nat /\ DOMAIN recs = 1..n /\ \A i \in 1..n : recs[i] \in RowType
  BY DEF n
<1>2. IsFiniteSet(1..n) /\ Cardinality(1..n) = n
  <2> HIDE DEF n
  <2>1. IsFiniteSet(1..n) /\ Cardinality(1..n) = IF 1 > n THEN 0 ELSE n - 1 + 1
    BY <1>1, FS_Interval
  <2> QED
    BY <1>1, <2>1
<1> HIDE DEF n
<1>3. Orders(1..n, R)
  <2> DEFINE route(k) == Rank(RecRoute(recs[k]))
             severity(k) == Rank(recs[k].severity)
  <2>1. \A k \in 1..n : route(k) \in Nat /\ severity(k) \in Nat
    <3> SUFFICES ASSUME NEW k \in 1..n PROVE route(k) \in Nat /\ severity(k) \in Nat
      OBVIOUS
    <3>1. RecRoute(recs[k]) \in {"CASE", "REVIEW", "SIGNAL"}
      BY DEF RecRoute, Route
    <3>2. recs[k].severity \in Severities
      BY <1>1 DEF RowType
    <3> QED
      BY <3>1, <3>2 DEF Rank, Severities
  <2>2. \A i, j \in 1..n : Above(recs, i, j) <=>
            (\/ route(i) > route(j)
             \/ route(i) = route(j) /\ severity(i) > severity(j)
             \/ route(i) = route(j) /\ severity(i) = severity(j) /\ i < j)
    BY DEF Above
  <2> HIDE DEF route, severity
  <2>3. \A x \in 1..n : ~Above(recs, x, x)
    BY <1>1, <2>1, <2>2
  <2>4. \A x, y, z \in 1..n : Above(recs, x, y) /\ Above(recs, y, z) => Above(recs, x, z)
    <3> SUFFICES ASSUME NEW x \in 1..n, NEW y \in 1..n, NEW z \in 1..n, Above(recs, x, y), Above(recs, y, z)
                 PROVE  Above(recs, x, z)
      OBVIOUS
    <3>1. /\ route(x) \in Nat /\ route(y) \in Nat /\ route(z) \in Nat
          /\ severity(x) \in Nat /\ severity(y) \in Nat /\ severity(z) \in Nat
      BY <2>1
    <3>2. /\ route(x) > route(y) \/ (route(x) = route(y) /\ severity(x) > severity(y))
             \/ (route(x) = route(y) /\ severity(x) = severity(y) /\ x < y)
          /\ route(y) > route(z) \/ (route(y) = route(z) /\ severity(y) > severity(z))
             \/ (route(y) = route(z) /\ severity(y) = severity(z) /\ y < z)
      BY <2>2
    <3>3. \/ route(x) > route(z) \/ (route(x) = route(z) /\ severity(x) > severity(z))
          \/ (route(x) = route(z) /\ severity(x) = severity(z) /\ x < z)
      BY <1>1, <3>1, <3>2
    <3> QED
      BY <2>2, <3>3
  <2>5. \A x, y \in 1..n : x # y => Above(recs, x, y) \/ Above(recs, y, x)
    <3> SUFFICES ASSUME NEW x \in 1..n, NEW y \in 1..n, x # y
                 PROVE  Above(recs, x, y) \/ Above(recs, y, x)
      OBVIOUS
    <3>1. /\ route(x) \in Nat /\ route(y) \in Nat /\ severity(x) \in Nat /\ severity(y) \in Nat
          /\ x < y \/ y < x
      BY <1>1, <2>1
    <3>2. CASE route(x) # route(y)
      BY <2>2, <3>1, <3>2
    <3>3. CASE route(x) = route(y) /\ severity(x) # severity(y)
      BY <2>2, <3>1, <3>3
    <3>4. CASE route(x) = route(y) /\ severity(x) = severity(y)
      BY <2>2, <3>1, <3>4
    <3> QED
      BY <3>2, <3>3, <3>4
  <2> QED
    BY <2>3, <2>4, <2>5 DEF Orders
<1>4. /\ order \in Seq(1..n) /\ Len(order) = n
      /\ \A x \in 1..n : \E k \in 1..n : order[k] = x
      /\ \A i, j \in 1..n : i < j => order[i] # order[j]
  <2>1. /\ order \in Seq(1..n) /\ Len(order) = n
        /\ \A x \in 1..n : Ahead(1..n, R, x) \in 0..(n - 1) /\ order[Ahead(1..n, R, x) + 1] = x
        /\ \A i, j \in 1..n : i < j => <<order[i], order[j]>> \in R
    <3> DEFINE places == 1..n
    <3> HIDE DEF R, places
    <3>1. IsFiniteSet(places) /\ Orders(places, R) /\ Cardinality(places) = n
      BY <1>2, <1>3 DEF places
    <3>2. /\ Ranked(places, R) \in Seq(places) /\ Len(Ranked(places, R)) = n
          /\ \A x \in places : /\ Ahead(places, R, x) \in 0..(n - 1)
                               /\ Ranked(places, R)[Ahead(places, R, x) + 1] = x
          /\ \A i, j \in 1..n : i < j => <<Ranked(places, R)[i], Ranked(places, R)[j]>> \in R
      BY <3>1, RankedFacts
    <3> QED
      BY <3>2 DEF places
  <2> HIDE DEF R
  <2>2. \A x \in 1..n : Ahead(1..n, R, x) + 1 \in 1..n
    BY <1>1, <2>1
  <2>3. \A x \in 1..n : <<x, x>> \notin R
    BY <1>3 DEF Orders
  <2>4. \A i \in 1..n : order[i] \in 1..n
    <3> HIDE DEF order
    <3>1. order \in Seq(1..n) /\ Len(order) = n
      BY <2>1
    <3> QED
      BY <1>1, <3>1
  <2> QED
    BY <2>1, <2>2, <2>3, <2>4
<1>5. Rows(all) = [i \in DOMAIN order |-> recs[order[i]]]
  BY <1>1 DEF Rows
<1> HIDE DEF R, order
<1>6. DOMAIN order = 1..n /\ \A i \in 1..n : order[i] \in 1..n
  BY <1>1, <1>4
<1>7. Rows(all) \in Seq(RowType) /\ Len(Rows(all)) = n /\ DOMAIN Rows(all) = 1..n
      /\ \A i \in 1..n : Rows(all)[i] = recs[order[i]]
  BY <1>1, <1>5, <1>6
<1>8. Seqs!ToSet(Rows(all)) = Seqs!ToSet(recs)
  BY <1>1, <1>4, <1>6, <1>7 DEF Seqs!ToSet
<1>9. \A i, j \in 1..n : i # j => order[i] # order[j]
  BY <1>1, <1>4
<1>10. OneEach(recs) => OneEach(Rows(all))
  BY <1>1, <1>6, <1>7, <1>9 DEF OneEach
<1> QED
  BY <1>7, <1>8, <1>10 DEF n

LEMMA StepsFacts ==
    ASSUME NEW r \in RowType, NEW step \in Steps(r)
    PROVE  step.status \in Statuses /\ step.note \in Notes
<1>1. r.workflow.note \in Notes
  BY DEF RowType, StateType
<1> QED
  <2>1. CASE RecRoute(r) = "CASE"
    <3>1. step \in CaseSteps(r)
      BY <2>1 DEF Steps
    <3>2. \A d : CaseNote(d) \in Notes
      BY DEF CaseNote, Notes
    <3>3. \/ \E d : step = [status |-> "REVIEWED", note |-> CaseNote(d)]
          \/ \E d : step = [status |-> "RESOLVED", note |-> CaseNote(d)]
          \/ step = [status |-> "INVESTIGATING", note |-> "text"]
      BY <3>1, Zenon DEF CaseSteps
    <3>4. \A status, note : [status |-> status, note |-> note].status = status
                            /\ [status |-> status, note |-> note].note = note
      OBVIOUS
    <3>5. step.status \in {"REVIEWED", "RESOLVED", "INVESTIGATING"} /\ step.note \in Notes
      <4>1. CASE \E d : step = [status |-> "REVIEWED", note |-> CaseNote(d)]
        BY <3>2, <3>4, <4>1
      <4>2. CASE \E d : step = [status |-> "RESOLVED", note |-> CaseNote(d)]
        BY <3>2, <3>4, <4>2
      <4>3. CASE step = [status |-> "INVESTIGATING", note |-> "text"]
        BY <4>3 DEF Notes
      <4> QED
        BY <3>3, <4>1, <4>2, <4>3
    <3> QED
      BY <3>5 DEF Statuses
  <2>2. CASE RecRoute(r) # "CASE"
    <3>1. step \in [status : Statuses, note : {"", "text", r.workflow.note}]
      BY <2>2 DEF Steps, LightSteps
    <3> QED
      BY <1>1, <3>1 DEF Notes
  <2> QED
    BY <2>1, <2>2

(* What a summary that a page shows is made of. *)
ReadOf(s) == {s.counted, s.listed, s.stated} \subseteq 0..Len(log)

LEMMA RecsOfFacts ==
    ASSUME time \in Nat, EntryLog(log, time), NEW s, ReadOf(s)
    PROVE  LET recs == Recommendations(s.chain, SubSeq(log, 1, s.counted), SubSeq(log, 1, s.listed), s.now)
           IN /\ RecsOf(s) \in Seq(RowType) /\ Len(RecsOf(s)) = Len(recs) /\ OneEach(RecsOf(s))
              /\ recs \in Seq(RecType)
              /\ \A i \in DOMAIN recs :
                    /\ RecsOf(s)[i].id = recs[i].id /\ RecsOf(s)[i].severity = recs[i].severity
                    /\ RecsOf(s)[i].filter = recs[i].filter /\ RecsOf(s)[i].counted = recs[i].counted
                    /\ RecsOf(s)[i].workflow = WorkflowState(SubSeq(log, 1, s.stated), recs[i].id)
<1> DEFINE recs == Recommendations(s.chain, SubSeq(log, 1, s.counted), SubSeq(log, 1, s.listed), s.now)
           seen == SubSeq(log, 1, s.stated)
           row(r) == [id |-> r.id, severity |-> r.severity, filter |-> r.filter, counted |-> r.counted,
                      workflow |-> WorkflowState(seen, r.id)]
<1>1. s.counted \in 0..Len(log) /\ s.listed \in 0..Len(log) /\ s.stated \in 0..Len(log)
  BY DEF ReadOf
<1>2. EntryLog(SubSeq(log, 1, s.counted), time) /\ EntryLog(SubSeq(log, 1, s.listed), time) /\ EntryLog(seen, time)
  BY <1>1, PrefixOfLog
<1>3. recs \in Seq(RecType) /\ OneEach(recs)
  BY <1>2, RecommendationsFacts
<1>4. RecsOf(s) = [i \in DOMAIN recs |-> row(recs[i])]
  BY DEF RecsOf
<1> HIDE DEF seen
<1>5. \A r \in RecType : row(r) \in RowType
  <2>1. \A id : WorkflowState(seen, id) \in StateType
    BY <1>2, WorkflowFacts
  <2> QED
    BY <2>1 DEF RecType, RowType
<1> HIDE DEF recs
<1>6. \A i \in DOMAIN recs : RecsOf(s)[i] = row(recs[i])
  BY <1>4
<1>a. \A r : /\ row(r).id = r.id /\ row(r).severity = r.severity /\ row(r).filter = r.filter
             /\ row(r).counted = r.counted /\ row(r).workflow = WorkflowState(seen, r.id)
  OBVIOUS
<1> HIDE DEF row
<1>7. RecsOf(s) \in Seq(RowType) /\ Len(RecsOf(s)) = Len(recs) /\ DOMAIN RecsOf(s) = DOMAIN recs
  BY <1>3, <1>4, <1>5
<1>8. \A i \in DOMAIN recs :
                    /\ RecsOf(s)[i].id = recs[i].id /\ RecsOf(s)[i].severity = recs[i].severity
                    /\ RecsOf(s)[i].filter = recs[i].filter /\ RecsOf(s)[i].counted = recs[i].counted
                    /\ RecsOf(s)[i].workflow = WorkflowState(seen, recs[i].id)
  BY <1>6, <1>a
<1>9. OneEach(RecsOf(s))
  BY <1>3, <1>7, <1>8 DEF OneEach
<1> QED
  BY <1>3, <1>7, <1>8, <1>9 DEF recs, seen

LEMMA ReachableFacts ==
    ASSUME NEW rows \in Seq(RowType)
    PROVE  Reachable(rows) = Seqs!ToSet(rows)
<1> DEFINE resolved == {r \in Seqs!ToSet(rows) : r.workflow.status = "RESOLVED"}
           active == {r \in Seqs!ToSet(rows) : r.workflow.status # "RESOLVED"}
<1>1. /\ Seqs!ToSet(Only(rows, resolved)) = Seqs!ToSet(rows) \cap resolved
      /\ Seqs!ToSet(Only(rows, active)) = Seqs!ToSet(rows) \cap active
  BY OnlyFacts
<1>2. /\ QueueView(rows, "all") = rows
      /\ QueueView(rows, "resolved") = Only(rows, resolved)
      /\ QueueView(rows, "active") = Only(rows, active)
  BY DEF QueueView, Where
<1>3. \A view \in Views : Details(rows, view) \subseteq Seqs!ToSet(rows)
  <2> HIDE DEF resolved, active
  <2> QED
    BY <1>1, <1>2 DEF Details, Views
<1>4. Details(rows, "all") = Seqs!ToSet(rows) /\ "all" \in Views
  BY <1>2 DEF Details, Views
<1> QED
  BY <1>3, <1>4 DEF Reachable

LEMMA ShownFacts ==
    ASSUME SecurityTypeOK, NEW u \in Officers
    PROVE  \A r \in Shown(u) :
              /\ r \in RowType
              /\ \E s \in page[u].shown : /\ s.stated \in 0..Len(log)
                                          /\ r.workflow = WorkflowState(SubSeq(log, 1, s.stated), r.id)
<1> SUFFICES ASSUME NEW r \in Shown(u)
             PROVE  /\ r \in RowType
                    /\ \E s \in page[u].shown : /\ s.stated \in 0..Len(log)
                                                /\ r.workflow = WorkflowState(SubSeq(log, 1, s.stated), r.id)
  OBVIOUS
<1>1. PICK s \in page[u].shown : r \in Reachable(Rows(Summary(s)))
  BY DEF Shown
<1>2. ReadOf(s) /\ time \in Nat /\ EntryLog(log, time)
  BY DEF SecurityTypeOK, ReadOf, EntryLog
<1> DEFINE recs == Recommendations(s.chain, SubSeq(log, 1, s.counted), SubSeq(log, 1, s.listed), s.now)
<1>3. /\ RecsOf(s) \in Seq(RowType) /\ Len(RecsOf(s)) = Len(recs) /\ recs \in Seq(RecType)
      /\ \A i \in DOMAIN recs : /\ RecsOf(s)[i].id = recs[i].id
                                /\ RecsOf(s)[i].workflow = WorkflowState(SubSeq(log, 1, s.stated), recs[i].id)
  BY <1>2, RecsOfFacts
<1>4. Summary(s).recs = RecsOf(s)
  BY DEF Summary
<1>5. Rows(Summary(s)) \in Seq(RowType) /\ Seqs!ToSet(Rows(Summary(s))) = Seqs!ToSet(RecsOf(s))
  BY <1>3, <1>4, RowsFacts
<1>6. r \in Seqs!ToSet(RecsOf(s))
  BY <1>1, <1>5, ReachableFacts
<1> HIDE DEF recs
<1>7. PICK i \in DOMAIN RecsOf(s) : r = RecsOf(s)[i]
  BY <1>6 DEF Seqs!ToSet
<1>8. i \in DOMAIN recs /\ r \in RowType
  BY <1>3, <1>7
<1> QED
  BY <1>2, <1>3, <1>7, <1>8 DEF ReadOf

-----------------------------------------------------------------------------
(* The invariant, over the values of the variables: a log, the time, the       *)
(* chain, the requests, the pages, the packet and the budget.                  *)
InLog(id, rec, l) == id \in 1..Len(l) /\ l[id].kind = "status" /\ l[id].rec = rec

(* What a request has read was there.                                          *)
RequestFits(r, l, t) ==
    /\ r \in RequestsOf /\ r.at <= t
    /\ r.counted <= Len(l) /\ r.listed <= Len(l) /\ r.stated <= Len(l)
    /\ r.pc # "free" => r.user \in Officers
    /\ r.pc \in {"stated", "record", "answered"} => r.counted # -1 /\ r.listed # -1 /\ r.stated # -1

(* A save that was written is in the log.                                      *)
SaveFits(s, l, t) ==
    /\ s \in SaveType /\ s.at <= t
    /\ s.id # 0 => InLog(s.id, s.rec, l) /\ l[s.id].at = s.at
    /\ s.pc \in {"idle", "sent", "stamped"} => s.id = 0

(* A packet has the update of its workflow, unless its history is full.        *)
Trailed(workflow, history) ==
    workflow.id # 0 => workflow.id \in history \/ Cardinality(history) = HistoryLimit

LoadFits(x, l) ==
    /\ x.pc # "idle" => x.rec \in RecIds
    /\ x.pc = "asked" /\ x.stated.id # 0 => InLog(x.stated.id, x.rec, l)
    /\ x.pc = "read" => Trailed(x.stated, x.got)

(* A grant that was asked for and that no page has had is on a page to come.   *)
RankIn(entries, e) == Cardinality({f \in entries : Newer(f, e)})

WindowFits(w, l) ==
    LET all == OfKind(Events(l), {w.kind})
    IN /\ w.pc = "loading" =>
            /\ w.asked \subseteq {e.id : e \in all}
            /\ \A e \in all : e.id \in w.asked => e.id \in w.got \/ RankIn(all, e) >= (w.next - 1) * PageSize
       /\ w.pc = "shown" => w.asked \subseteq w.got

(* The saves that what a page shows, and what it waits for, must not precede.  *)
Settled(p) == {p.saved} \cup (IF p.save.pc = "fetching" THEN {p.save} ELSE {})

PageFits(p, l, t) ==
    /\ p \in PageType
    /\ \A x \in p.shown : x.counted <= Len(l) /\ x.listed <= Len(l) /\ x.stated <= Len(l)
    /\ SaveFits(p.save, l, t) /\ SaveFits(p.saved, l, t)
    /\ LoadFits(p.load, l) /\ WindowFits(p.window, l)
    /\ p.query = 0 /\ ~p.error => \A s \in Settled(p), x \in p.shown : x.stated >= s.id

(* A page waits for a request of its own, which has not read the workflows     *)
(* before the saves.                                                           *)
Waits(u, p, R) ==
    p.query # 0 =>
        /\ R[p.query].user = u /\ R[p.query].pc # "free"
        /\ R[p.query].stated = -1 \/ \A s \in Settled(p) : R[p.query].stated >= s.id

Fits(l, t, c, R, P, K, B) ==
    /\ t \in Nat /\ t >= Lag /\ EntryLog(l, t) /\ c \in Chains /\ B \in Budgets
    /\ R = [q \in Requests |-> R[q]] /\ \A q \in Requests : RequestFits(R[q], l, t)
    /\ P = [u \in Officers |-> P[u]] /\ \A u \in Officers : PageFits(P[u], l, t) /\ Waits(u, P[u], R)
    /\ \A p \in K : p.use = "evidence" => Trailed(p.workflow, p.history)

SecurityInvariant == Fits(log, time, chain, req, page, packet, budget)

LEMMA MoreEvents ==
    ASSUME NEW t \in Nat, NEW l, EntryLog(l, t), NEW u \in Nat, t <= u, NEW m, EntryLog(m, u),
           Events(l) \subseteq Events(m), Len(l) <= Len(m), \A i \in DOMAIN l : m[i] = l[i],
           \A e \in Events(m) \ Events(l) : e.id > Len(l)
    PROVE  /\ \A r : RequestFits(r, l, t) => RequestFits(r, m, u)
           /\ \A s : SaveFits(s, l, t) => SaveFits(s, m, u)
           /\ \A x : LoadFits(x, l) => LoadFits(x, m)
           /\ \A w \in WindowType : WindowFits(w, l) => WindowFits(w, m)
           /\ \A p : PageFits(p, l, t) => PageFits(p, m, u)
<1>1. Len(l) \in Nat /\ Len(m) \in Nat /\ DOMAIN l = 1..Len(l) /\ 1..Len(l) \subseteq 1..Len(m)
  BY EventsOfLog DEF EntryLog
<1>2. \A r : RequestFits(r, l, t) => RequestFits(r, m, u)
  <2> SUFFICES ASSUME NEW r, RequestFits(r, l, t) PROVE RequestFits(r, m, u)
    OBVIOUS
  <2>1. r.at \in Nat /\ r.counted \in Stamps /\ r.listed \in Stamps /\ r.stated \in Stamps
    BY DEF RequestFits, RequestsOf
  <2>2. r.at <= u /\ r.counted <= Len(m) /\ r.listed <= Len(m) /\ r.stated <= Len(m)
    BY <1>1, <2>1 DEF RequestFits, Stamps
  <2> QED
    BY <2>2 DEF RequestFits
<1>3. \A id, rec : InLog(id, rec, l) => InLog(id, rec, m) /\ m[id].at = l[id].at
  BY <1>1 DEF InLog
<1>4. \A s : SaveFits(s, l, t) => SaveFits(s, m, u)
  <2> SUFFICES ASSUME NEW s, SaveFits(s, l, t) PROVE SaveFits(s, m, u)
    OBVIOUS
  <2>1. s.at \in Nat
    BY DEF SaveFits, SaveType
  <2>2. s.at <= u
    BY <2>1 DEF SaveFits
  <2> QED
    BY <1>3, <2>2 DEF SaveFits
<1>5. \A x : LoadFits(x, l) => LoadFits(x, m)
  BY <1>3 DEF LoadFits
<1>6. \A w \in WindowType : WindowFits(w, l) => WindowFits(w, m)
  <2> SUFFICES ASSUME NEW w \in WindowType, WindowFits(w, l) PROVE WindowFits(w, m)
    OBVIOUS
  <2> DEFINE all == OfKind(Events(l), {w.kind})
             more == OfKind(Events(m), {w.kind})
             pages == (w.next - 1) * PageSize
  <2>1. all \subseteq more /\ all \in SUBSET Events(l) /\ more \in SUBSET Events(m)
    BY DEF OfKind
  <2>2. IsFiniteSet(more)
    BY <2>1, EventsOfLog, FS_Subset
  <2>3. \A e : RankIn(all, e) <= RankIn(more, e) /\ RankIn(all, e) \in Nat /\ RankIn(more, e) \in Nat
    <3> SUFFICES ASSUME NEW e
                 PROVE  RankIn(all, e) <= RankIn(more, e) /\ RankIn(all, e) \in Nat /\ RankIn(more, e) \in Nat
      OBVIOUS
    <3> DEFINE A == {f \in all : Newer(f, e)}
               M == {f \in more : Newer(f, e)}
    <3>1. A \subseteq M /\ M \subseteq more
      BY <2>1
    <3> HIDE DEF A, M, more, all
    <3>2. IsFiniteSet(M)
      BY <2>2, <3>1, FS_Subset
    <3>3. Cardinality(A) <= Cardinality(M) /\ IsFiniteSet(A)
      BY <3>1, <3>2, FS_Subset
    <3>4. Cardinality(A) \in Nat /\ Cardinality(M) \in Nat
      BY <3>2, <3>3, FS_CardinalityType
    <3> QED
      BY <3>3, <3>4 DEF RankIn, A, M
  <2>4. \A e \in more : e.id \in {f.id : f \in all} => e \in all
    <3> SUFFICES ASSUME NEW e \in more, NEW f \in all, e.id = f.id PROVE e \in all
      OBVIOUS
    <3>1. e \in Events(m) /\ f \in Events(l) /\ f.id \in 1..Len(l)
      BY <2>1, EventsOfLog
    <3>2. ~(e.id > Len(l))
      BY <1>1, <3>1
    <3>3. e \in Events(l)
      BY <3>1, <3>2
    <3> QED
      BY <3>3 DEF OfKind
  <2>5. pages \in Nat
    <3>1. w.next \in Nat \ {0} /\ PageSize \in Nat
      BY ViewsAssumption DEF WindowType
    <3> QED
      BY <3>1
  <2> HIDE DEF all, more, pages
  <2>6. ASSUME w.pc = "loading"
        PROVE  /\ w.asked \subseteq {e.id : e \in more}
               /\ \A e \in more : e.id \in w.asked => e.id \in w.got \/ RankIn(more, e) >= pages
    <3>1. /\ w.asked \subseteq {e.id : e \in all}
          /\ \A e \in all : e.id \in w.asked => e.id \in w.got \/ RankIn(all, e) >= pages
      BY <2>6 DEF WindowFits, all, pages
    <3>2. w.asked \subseteq {e.id : e \in more}
      BY <2>1, <3>1
    <3>3. ASSUME NEW e \in more, e.id \in w.asked, e.id \notin w.got PROVE RankIn(more, e) >= pages
      <4>1. e \in all
        BY <2>4, <3>1, <3>3
      <4>2. RankIn(all, e) >= pages
        BY <3>1, <3>3, <4>1
      <4> QED
        BY <2>3, <2>5, <4>2
    <3> QED
      BY <3>2, <3>3
  <2>7. w.pc = "shown" => w.asked \subseteq w.got
    BY DEF WindowFits
  <2> QED
    BY <2>6, <2>7 DEF WindowFits, more, pages
<1>7. \A p : PageFits(p, l, t) => PageFits(p, m, u)
  <2> SUFFICES ASSUME NEW p, PageFits(p, l, t) PROVE PageFits(p, m, u)
    OBVIOUS
  <2>1. p \in PageType /\ p.shown \in SUBSET AnswerType /\ p.window \in WindowType
    BY DEF PageFits, PageType
  <2>2. \A x \in p.shown : x.counted <= Len(m) /\ x.listed <= Len(m) /\ x.stated <= Len(m)
    <3>1. \A x \in p.shown : x.counted \in Nat /\ x.listed \in Nat /\ x.stated \in Nat
      BY <2>1 DEF AnswerType
    <3> QED
      BY <1>1, <3>1 DEF PageFits
  <2> QED
    BY <1>4, <1>5, <1>6, <2>1, <2>2 DEF PageFits
<1> QED
  BY <1>2, <1>4, <1>5, <1>6, <1>7

(* Each variable may change alone. *)
LEMMA EntriesGrow ==
    ASSUME NEW l, NEW t, NEW c, NEW R, NEW P, NEW K, NEW B, Fits(l, t, c, R, P, K, B), NEW e \in EventsBy(t)
    PROVE  Fits(Append(l, [e EXCEPT !.id = Len(l) + 1]), t, c, R, P, K, B)
<1> DEFINE x == [e EXCEPT !.id = Len(l) + 1]
           m == Append(l, x)
<1>1. t \in Nat /\ EntryLog(l, t)
  BY DEF Fits
<1>2. EntryLog(m, t) /\ Events(m) = Events(l) \cup {x}
  BY <1>1, GrownLog
<1>3. Len(l) \in Nat /\ Len(m) = Len(l) + 1 /\ \A i \in DOMAIN l : m[i] = l[i]
  BY <1>1 DEF EntryLog
<1>4. x.id = Len(l) + 1
  BY DEF EventsBy
<1> HIDE DEF x, m
<1>5. Len(l) <= Len(m) /\ Events(l) \subseteq Events(m) /\ \A f \in Events(m) \ Events(l) : f.id > Len(l)
  BY <1>2, <1>3, <1>4
<1>6. /\ \A r : RequestFits(r, l, t) => RequestFits(r, m, t)
      /\ \A p : PageFits(p, l, t) => PageFits(p, m, t)
  BY <1>1, <1>2, <1>3, <1>5, MoreEvents
<1>7. Fits(m, t, c, R, P, K, B)
  BY <1>2, <1>6 DEF Fits
<1> QED
  BY <1>7 DEF m, x

LEMMA TimePasses ==
    ASSUME NEW l, NEW t, NEW c, NEW R, NEW P, NEW K, NEW B, Fits(l, t, c, R, P, K, B)
    PROVE  Fits(l, t + 1, c, R, P, K, B)
<1>1. t \in Nat /\ EntryLog(l, t) /\ t >= Lag /\ Lag \in Nat
  BY CenterAssumption DEF Fits
<1>2. EventsBy(t) \subseteq EventsBy(t + 1)
  BY <1>1 DEF EventsBy
<1>3. EntryLog(l, t + 1)
  <2>1. l \in Seq(EventsBy(t))
    BY <1>1 DEF EntryLog
  <2>2. l \in Seq(EventsBy(t + 1))
    BY <1>2, <2>1
  <2> QED
    BY <1>1, <2>2 DEF EntryLog
<1>4. t + 1 \in Nat /\ t <= t + 1 /\ t + 1 >= Lag /\ Len(l) \in Nat
  BY <1>1 DEF EntryLog
<1>5. /\ \A r : RequestFits(r, l, t) => RequestFits(r, l, t + 1)
      /\ \A p : PageFits(p, l, t) => PageFits(p, l, t + 1)
  BY <1>1, <1>3, <1>4, MoreEvents
<1> QED
  BY <1>3, <1>4, <1>5 DEF Fits

LEMMA RequestSet ==
    ASSUME NEW l, NEW t, NEW c, NEW R, NEW P, NEW K, NEW B, Fits(l, t, c, R, P, K, B), NEW q \in Requests,
           NEW r, RequestFits(r, l, t),
           \A u \in Officers : P[u].query = q =>
              /\ r.user = u /\ r.pc # "free"
              /\ r.stated = -1 \/ \A s \in Settled(P[u]) : r.stated >= s.id
    PROVE  Fits(l, t, c, [R EXCEPT ![q] = r], P, K, B)
<1> DEFINE R2 == [R EXCEPT ![q] = r]
<1>1. R = [p \in Requests |-> R[p]]
  BY DEF Fits
<1>2. R2 = [p \in Requests |-> R2[p]] /\ R2[q] = r /\ \A p \in Requests : p # q => R2[p] = R[p]
  BY <1>1
<1>3. \A p \in Requests : RequestFits(R2[p], l, t)
  BY <1>2 DEF Fits
<1> HIDE DEF R2
<1>4. ASSUME NEW u \in Officers PROVE Waits(u, P[u], R2)
  <2>1. Waits(u, P[u], R) /\ P[u] \in PageType
    BY DEF Fits, PageFits
  <2>2. P[u].query \in Requests \cup {0}
    BY <2>1 DEF PageType
  <2>3. CASE P[u].query = q
    BY <1>2, <2>3 DEF Waits
  <2>4. CASE P[u].query # q
    BY <1>2, <2>1, <2>2, <2>4 DEF Waits
  <2> QED
    BY <2>3, <2>4
<1>5. Fits(l, t, c, R2, P, K, B)
  BY <1>2, <1>3, <1>4 DEF Fits
<1> QED
  BY <1>5 DEF R2

LEMMA PagesSet ==
    ASSUME NEW l, NEW t, NEW c, NEW R, NEW P, NEW K, NEW B, Fits(l, t, c, R, P, K, B),
           NEW Q, Q = [u \in Officers |-> Q[u]],
           \A u \in Officers : PageFits(Q[u], l, t) /\ Waits(u, Q[u], R)
    PROVE  Fits(l, t, c, R, Q, K, B)
BY DEF Fits

LEMMA PageSet ==
    ASSUME NEW l, NEW t, NEW c, NEW R, NEW P, NEW K, NEW B, Fits(l, t, c, R, P, K, B),
           NEW u \in Officers, NEW p, PageFits(p, l, t), Waits(u, p, R)
    PROVE  Fits(l, t, c, R, [P EXCEPT ![u] = p], K, B)
<1> DEFINE Q == [P EXCEPT ![u] = p]
<1>1. P = [o \in Officers |-> P[o]] /\ \A o \in Officers : PageFits(P[o], l, t) /\ Waits(o, P[o], R)
  BY DEF Fits
<1>2. Q = [o \in Officers |-> Q[o]] /\ Q[u] = p /\ \A o \in Officers : o # u => Q[o] = P[o]
  BY <1>1
<1> HIDE DEF Q
<1>3. \A o \in Officers : PageFits(Q[o], l, t) /\ Waits(o, Q[o], R)
  BY <1>1, <1>2
<1>4. Fits(l, t, c, R, Q, K, B)
  BY <1>2, <1>3, PagesSet
<1> QED
  BY <1>4 DEF Q

LEMMA BudgetSet ==
    ASSUME NEW l, NEW t, NEW c, NEW R, NEW P, NEW K, NEW B, Fits(l, t, c, R, P, K, B), NEW C \in Budgets
    PROVE  Fits(l, t, c, R, P, K, C)
BY DEF Fits

Spendable ==
    {"events", "ticks", "breaks", "queries", "verifies", "saves", "loads", "faults", "windows", "selects"}

LEMMA Spent ==
    ASSUME budget \in Budgets, NEW what \in Spendable, Spend(what)
    PROVE  budget' \in Budgets
<1>1. budget' = [budget EXCEPT ![what] = budget[what] - 1] /\ budget[what] > 0
  BY DEF Spend
<1>2. budget[what] \in Nat
  BY DEF Budgets, Spendable
<1>3. budget[what] - 1 \in Nat
  BY <1>1, <1>2
<1> HIDE DEF Budgets
<1>4. \A n \in Nat : [budget EXCEPT ![what] = n] \in Budgets
  BY DEF Budgets, Spendable
<1> QED
  BY <1>1, <1>3, <1>4

-----------------------------------------------------------------------------
(* The steps of the log, of the time and of the requests. *)
LEMMA SecurityStarts == SecurityInit => SecurityInvariant
<1> SUFFICES ASSUME SecurityInit PROVE SecurityInvariant
  OBVIOUS
<1>1. PICK s \in Scenarios : log = s.log /\ budget = s.budget
  BY DEF SecurityInit
<1>2. Lag \in Nat /\ time = Lag /\ chain = "valid" /\ packet = {}
      /\ req = [q \in Requests |-> NoRequest] /\ page = [u \in Officers |-> EmptyPage]
  BY CenterAssumption DEF SecurityInit
<1>3. EntryLog(log, time) /\ budget \in Budgets
  BY <1>1, <1>2, ScenariosAssumption DEF EntryLog
<1>4. Len(log) \in Nat
  BY <1>3 DEF EntryLog
<1>5. RequestFits(NoRequest, log, time)
  BY <1>2, <1>4 DEF RequestFits, NoRequest, RequestsOf, Stamps, Chains
<1>6. NoSave \in SaveType /\ NoSave.id = 0 /\ NoSave.at = 0 /\ NoSave.pc = "idle"
  BY DEF NoSave, SaveType, Statuses, Notes
<1>7. SaveFits(NoSave, log, time)
  BY <1>2, <1>6 DEF SaveFits
<1>8. NotStarted \in StateType
  BY DEF NotStarted, StateType, Statuses, Notes, Stamps
<1>9. NoLoad \in LoadType /\ LoadFits(NoLoad, log)
  BY <1>8 DEF NoLoad, LoadType, LoadFits
<1>10. NoWindow \in WindowType /\ WindowFits(NoWindow, log)
  BY DEF NoWindow, WindowType, WindowFits, Authorized
<1>11. EmptyPage \in PageType
  BY <1>6, <1>9, <1>10 DEF EmptyPage, PageType, NothingChosen
<1>12. PageFits(EmptyPage, log, time) /\ \A u : Waits(u, EmptyPage, req)
  <2>1. /\ EmptyPage.query = 0 /\ EmptyPage.shown = {} /\ EmptyPage.save = NoSave /\ EmptyPage.saved = NoSave
        /\ EmptyPage.load = NoLoad /\ EmptyPage.window = NoWindow
    BY DEF EmptyPage
  <2> QED
    BY <1>7, <1>9, <1>10, <1>11, <2>1 DEF PageFits, Waits
<1>13. /\ time >= Lag /\ chain \in Chains
       /\ req = [q \in Requests |-> req[q]] /\ \A q \in Requests : req[q] = NoRequest
       /\ page = [u \in Officers |-> page[u]] /\ \A u \in Officers : page[u] = EmptyPage
  BY <1>2 DEF Chains
<1> QED
  BY <1>2, <1>3, <1>5, <1>12, <1>13 DEF SecurityInvariant, Fits

LEMMA InvariantFacts ==
    ASSUME SecurityInvariant
    PROVE  /\ time \in Nat /\ Lag \in Nat /\ time >= Lag /\ EntryLog(log, time) /\ Len(log) \in Nat /\ chain \in Chains
           /\ budget \in Budgets /\ budget.officers \subseteq Officers /\ budget.activity \subseteq EventsBy(Lag)
           /\ req = [q \in Requests |-> req[q]] /\ page = [u \in Officers |-> page[u]]
           /\ \A q \in Requests : RequestFits(req[q], log, time) /\ req[q] \in RequestsOf
           /\ \A u \in Officers : PageFits(page[u], log, time) /\ Waits(u, page[u], req) /\ page[u] \in PageType
<1>1. /\ time \in Nat /\ time >= Lag /\ EntryLog(log, time) /\ chain \in Chains /\ budget \in Budgets
      /\ req = [q \in Requests |-> req[q]] /\ page = [u \in Officers |-> page[u]]
      /\ \A q \in Requests : RequestFits(req[q], log, time)
      /\ \A u \in Officers : PageFits(page[u], log, time) /\ Waits(u, page[u], req)
  BY DEF SecurityInvariant, Fits
<1>2. Len(log) \in Nat
  BY <1>1 DEF EntryLog
<1>3. budget.officers \subseteq Officers /\ budget.activity \subseteq EventsBy(Lag)
  BY <1>1 DEF Budgets
<1>4. /\ \A q \in Requests : req[q] \in RequestsOf
      /\ \A u \in Officers : page[u] \in PageType
  BY <1>1 DEF RequestFits, PageFits
<1> QED
  BY <1>1, <1>2, <1>3, <1>4, CenterAssumption

LEMMA EntryType ==
    ASSUME SecurityInvariant, NEW kind \in Kinds, NEW u \in Officers, NEW at \in Nat, at <= time
    PROVE  Entry(kind, u, "none", "UNKNOWN", at) \in EventsBy(time)
<1>1. at \in 0..time
  BY InvariantFacts
<1> QED
  BY <1>1 DEF Entry, EventsBy, Levels, Statuses, Notes

LEMMA HappensKeeps ==
    ASSUME SecurityInvariant, NEW e \in budget.activity, Happens(e)
    PROVE  SecurityInvariant'
<1>1. PICK late \in 0..Least(Lag, time) : Append1([e EXCEPT !.at = time - late])
  BY DEF Happens
<1> DEFINE x == [e EXCEPT !.at = time - late]
<1>2. e \in EventsBy(Lag) /\ Lag \in Nat /\ time \in Nat /\ Lag <= time
  BY InvariantFacts
<1>3. time - late \in 0..time
  BY <1>2 DEF Least
<1>4. x \in EventsBy(time)
  BY <1>2, <1>3 DEF EventsBy
<1> HIDE DEF x
<1>5. Fits(Append(log, [x EXCEPT !.id = Len(log) + 1]), time, chain, req, page, packet, budget)
  BY <1>4, EntriesGrow DEF SecurityInvariant
<1>6. budget' \in Budgets
  BY InvariantFacts, Spent DEF Happens, Spendable
<1>7. log' = Append(log, [x EXCEPT !.id = Len(log) + 1]) /\ UNCHANGED <<time, chain, req, page, packet>>
  BY <1>1 DEF Happens, Append1, x
<1> QED
  BY <1>5, <1>6, <1>7, BudgetSet DEF SecurityInvariant

LEMMA TickKeeps ==
    ASSUME SecurityInvariant, Tick
    PROVE  SecurityInvariant'
<1>1. Fits(log, time + 1, chain, req, page, packet, budget)
  BY TimePasses DEF SecurityInvariant
<1>2. budget' \in Budgets
  BY InvariantFacts, Spent DEF Tick, Spendable
<1> QED
  BY <1>1, <1>2, BudgetSet DEF SecurityInvariant, Tick

LEMMA ChainKeeps ==
    ASSUME SecurityInvariant, ChainChanges
    PROVE  SecurityInvariant'
<1>1. budget' \in Budgets
  BY InvariantFacts, Spent DEF ChainChanges, Spendable
<1>2. chain' \in Chains
  BY DEF ChainChanges, Chains
<1>3. Fits(log, time, chain', req, page, packet, budget)
  BY <1>2 DEF SecurityInvariant, Fits
<1> QED
  BY <1>1, <1>3, BudgetSet DEF SecurityInvariant, ChainChanges

LEMMA AskKeeps ==
    ASSUME SecurityInvariant, NEW u \in Officers, NEW q \in Requests, Ask(u, q)
    PROVE  /\ Fits(log, time, chain, req', page, packet, budget)
           /\ req'[q].user = u /\ req'[q].pc = "asked" /\ req'[q].stated = -1 /\ req[q].pc = "free"
<1> DEFINE r == [NoRequest EXCEPT !.pc = "asked", !.user = u]
<1>1. req' = [req EXCEPT ![q] = r] /\ req[q].pc = "free"
  BY DEF Ask
<1>2. r.user = u /\ r.pc = "asked" /\ r.stated = -1
  BY DEF NoRequest
<1>3. RequestFits(r, log, time)
  <2>1. r \in RequestsOf /\ r.at = 0 /\ r.counted = -1 /\ r.listed = -1 /\ r.user = u /\ r.pc = "asked"
    BY DEF NoRequest, RequestsOf, Stamps, Chains
  <2>2. time \in Nat /\ Len(log) \in Nat
    BY InvariantFacts
  <2> HIDE DEF r
  <2> QED
    BY <1>2, <2>1, <2>2 DEF RequestFits
<1> HIDE DEF r
<1>4. \A o \in Officers : page[o].query # q
  <2>1. q # 0
    BY CenterAssumption
  <2> QED
    BY <1>1, <2>1, InvariantFacts DEF Waits
<1>5. Fits(log, time, chain, [req EXCEPT ![q] = r], page, packet, budget)
  BY <1>3, <1>4, RequestSet DEF SecurityInvariant
<1>6. req'[q] = r
  BY <1>1, InvariantFacts
<1> QED
  BY <1>1, <1>2, <1>5, <1>6

LEMMA ReadingKeeps ==
    ASSUME SecurityInvariant, NEW q \in Requests, CountTotals(q) \/ ListActivity(q) \/ ReadWorkflows(q) \/ CheckView(q)
    PROVE  SecurityInvariant'
<1>1. RequestFits(req[q], log, time) /\ req[q] \in RequestsOf /\ time \in Nat /\ Len(log) \in Nat /\ chain \in Chains
  BY InvariantFacts
<1>2. req[q].at \in Nat /\ req[q].counted \in Stamps /\ req[q].listed \in Stamps /\ req[q].stated \in Stamps
  BY <1>1 DEF RequestsOf
<1>3. Len(log) \in Stamps /\ Len(log) # -1
  BY <1>1 DEF Stamps
<1>4. req = [p \in Requests |-> req[p]]
  BY InvariantFacts
<1>5. \E r : /\ req' = [req EXCEPT ![q] = r] /\ RequestFits(r, log, time) /\ r.user = req[q].user /\ r.pc # "free"
             /\ req[q].pc # "free" /\ (r.stated = req[q].stated \/ r.stated = Len(log))
  <2>1. CASE CountTotals(q)
    <3> DEFINE r == [req[q] EXCEPT !.counted = Len(log), !.chain = chain]
    <3>1. req' = [req EXCEPT ![q] = r] /\ req[q].pc = "asked"
      BY <2>1, <1>4 DEF CountTotals
    <3>2. r \in RequestsOf
      BY <1>1, <1>3 DEF RequestsOf
    <3>3. r.counted = Len(log) /\ r.listed = req[q].listed /\ r.stated = req[q].stated /\ r.pc = req[q].pc
          /\ r.user = req[q].user /\ r.at = req[q].at
      BY <1>1 DEF RequestsOf
    <3> HIDE DEF r
    <3>4. RequestFits(r, log, time)
      BY <1>1, <3>1, <3>2, <3>3 DEF RequestFits
    <3> QED
      BY <3>1, <3>3, <3>4
  <2>2. CASE ListActivity(q)
    <3> DEFINE r == [req[q] EXCEPT !.listed = Len(log), !.now = time]
    <3>1. req' = [req EXCEPT ![q] = r] /\ req[q].pc = "asked"
      BY <2>2, <1>4 DEF ListActivity
    <3>2. r \in RequestsOf
      BY <1>1, <1>3 DEF RequestsOf
    <3>3. r.counted = req[q].counted /\ r.listed = Len(log) /\ r.stated = req[q].stated /\ r.pc = req[q].pc
          /\ r.user = req[q].user /\ r.at = req[q].at
      BY <1>1 DEF RequestsOf
    <3> HIDE DEF r
    <3>4. RequestFits(r, log, time)
      BY <1>1, <3>1, <3>2, <3>3 DEF RequestFits
    <3> QED
      BY <3>1, <3>3, <3>4
  <2>3. CASE ReadWorkflows(q)
    <3> DEFINE r == [req[q] EXCEPT !.pc = "stated", !.stated = Len(log)]
    <3>1. req' = [req EXCEPT ![q] = r] /\ req[q].pc = "asked" /\ req[q].counted # -1 /\ req[q].listed # -1
      BY <2>3, <1>4 DEF ReadWorkflows
    <3>2. r \in RequestsOf
      BY <1>1, <1>3 DEF RequestsOf
    <3>3. r.counted = req[q].counted /\ r.listed = req[q].listed /\ r.stated = Len(log) /\ r.pc = "stated"
          /\ r.user = req[q].user /\ r.at = req[q].at
      BY <1>1 DEF RequestsOf
    <3> HIDE DEF r
    <3>4. RequestFits(r, log, time)
      BY <1>1, <1>3, <3>1, <3>2, <3>3 DEF RequestFits
    <3> QED
      BY <3>1, <3>3, <3>4
  <2>4. CASE CheckView(q)
    <3> DEFINE pc == IF WasSeen(req[q].user) THEN "answered" ELSE "record"
    <3> HIDE DEF pc
    <3> DEFINE r == [req[q] EXCEPT !.pc = pc, !.at = time]
    <3>1. req' = [req EXCEPT ![q] = r] /\ req[q].pc = "stated" /\ pc \in {"answered", "record"}
      BY <2>4, <1>4 DEF CheckView, pc
    <3>2. r \in RequestsOf
      BY <1>1, <3>1 DEF RequestsOf
    <3>3. r.counted = req[q].counted /\ r.listed = req[q].listed /\ r.stated = req[q].stated /\ r.pc = pc
          /\ r.user = req[q].user /\ r.at = time
      BY <1>1 DEF RequestsOf
    <3> HIDE DEF r
    <3>4. RequestFits(r, log, time)
      BY <1>1, <3>1, <3>2, <3>3 DEF RequestFits
    <3> QED
      BY <3>1, <3>3, <3>4
  <2> QED
    BY <2>1, <2>2, <2>3, <2>4
<1>6. PICK r : /\ req' = [req EXCEPT ![q] = r] /\ RequestFits(r, log, time) /\ r.user = req[q].user /\ r.pc # "free"
               /\ req[q].pc # "free" /\ (r.stated = req[q].stated \/ r.stated = Len(log))
  BY <1>5
<1>7. ASSUME NEW u \in Officers, page[u].query = q
      PROVE  /\ r.user = u /\ r.pc # "free"
             /\ r.stated = -1 \/ \A s \in Settled(page[u]) : r.stated >= s.id
  <2>1. q # 0
    BY CenterAssumption
  <2>2. Waits(u, page[u], req) /\ PageFits(page[u], log, time)
    BY InvariantFacts
  <2>3. \A s \in Settled(page[u]) : s.id <= Len(log) /\ s.id \in Nat
    <3>1. \A s : SaveFits(s, log, time) => s.id \in Nat /\ s.id <= Len(log)
      BY <1>1 DEF SaveFits, SaveType, InLog
    <3> QED
      BY <2>2, <3>1 DEF Settled, PageFits
  <2>4. r.stated = Len(log) => \A s \in Settled(page[u]) : r.stated >= s.id
    BY <1>1, <2>3
  <2> QED
    BY <1>6, <1>7, <2>1, <2>2, <2>4 DEF Waits
<1>8. Fits(log, time, chain, [req EXCEPT ![q] = r], page, packet, budget)
  BY <1>6, <1>7, RequestSet DEF SecurityInvariant
<1>9. UNCHANGED <<log, time, chain, page, packet, budget>>
  BY DEF CountTotals, ListActivity, ReadWorkflows, CheckView, Reads
<1> QED
  BY <1>6, <1>8, <1>9 DEF SecurityInvariant

LEMMA NothingAsked ==
    ASSUME SecurityInvariant
    PROVE  RequestFits(NoRequest, log, time)
<1>1. time \in Nat /\ Len(log) \in Nat
  BY InvariantFacts
<1>2. NoRequest \in RequestsOf /\ NoRequest.at = 0 /\ NoRequest.counted = -1 /\ NoRequest.listed = -1
      /\ NoRequest.stated = -1 /\ NoRequest.pc = "free"
  BY DEF NoRequest, RequestsOf, Stamps, Chains
<1> QED
  BY <1>1, <1>2 DEF RequestFits

LEMMA RecordViewKeeps ==
    ASSUME SecurityInvariant, NEW q \in Requests, RecordView(q)
    PROVE  SecurityInvariant'
<1> DEFINE e == Entry("viewed", req[q].user, "none", "UNKNOWN", req[q].at)
           r == [req[q] EXCEPT !.pc = "answered"]
<1>1. /\ req[q].pc = "record" /\ log' = Append(log, [e EXCEPT !.id = Len(log) + 1]) /\ req' = [req EXCEPT ![q] = r]
      /\ UNCHANGED <<time, chain, page, packet, budget>>
  BY InvariantFacts DEF RecordView, Append1
<1>2. RequestFits(req[q], log, time) /\ req[q] \in RequestsOf
  BY InvariantFacts
<1>3. e \in EventsBy(time)
  <2>1. req[q].user \in Officers /\ req[q].at \in Nat /\ req[q].at <= time /\ "viewed" \in Kinds
    BY <1>1, <1>2 DEF RequestFits, RequestsOf, Kinds
  <2> QED
    BY <2>1, EntryType
<1> HIDE DEF e
<1>4. Fits(log', time, chain, req, page, packet, budget)
  BY <1>1, <1>3, EntriesGrow DEF SecurityInvariant
<1>5. RequestFits(req[q], log', time)
  BY <1>4 DEF Fits
<1>6. RequestFits(r, log', time) /\ r.user = req[q].user /\ r.pc = "answered" /\ r.stated = req[q].stated
  <2>1. r \in RequestsOf /\ r.user = req[q].user /\ r.pc = "answered" /\ r.stated = req[q].stated /\ r.at = req[q].at
        /\ r.counted = req[q].counted /\ r.listed = req[q].listed
    BY <1>2 DEF RequestsOf
  <2> HIDE DEF r
  <2> QED
    BY <1>1, <1>5, <2>1 DEF RequestFits
<1> HIDE DEF r
<1>7. \A u \in Officers : page[u].query = q =>
              /\ r.user = u /\ r.pc # "free"
              /\ r.stated = -1 \/ \A s \in Settled(page[u]) : r.stated >= s.id
  <2>1. q # 0
    BY CenterAssumption
  <2> QED
    BY <1>6, <2>1, InvariantFacts DEF Waits
<1>8. Fits(log', time, chain, [req EXCEPT ![q] = r], page, packet, budget)
  BY <1>4, <1>6, <1>7, RequestSet
<1> QED
  BY <1>1, <1>8 DEF SecurityInvariant

(* The requests of an answer or a failure: nobody waits for it any more. *)
LEMMA RequestGone ==
    ASSUME SecurityInvariant, NEW q \in Requests, req' = [req EXCEPT ![q] = NoRequest],
           page' = [u \in Officers |-> page'[u]], UNCHANGED <<log, time, chain, packet>>, budget' \in Budgets,
           \A u \in Officers : IF page[u].query = q THEN PageFits(page'[u], log, time) /\ page'[u].query = 0
                               ELSE page'[u] = page[u]
    PROVE  SecurityInvariant'
<1>1. \A u \in Officers : PageFits(page'[u], log, time) /\ Waits(u, page'[u], req) /\ page'[u].query # q
  <2>1. q # 0
    BY CenterAssumption
  <2> QED
    BY <2>1, InvariantFacts DEF Waits
<1>2. Fits(log, time, chain, req, page', packet, budget)
  BY <1>1, PagesSet DEF SecurityInvariant
<1>3. Fits(log, time, chain, req', page', packet, budget)
  BY <1>1, <1>2, NothingAsked, RequestSet
<1> QED
  BY <1>3, BudgetSet DEF SecurityInvariant

LEMMA FailsKeeps ==
    ASSUME SecurityInvariant, NEW q \in Requests, Fails(q)
    PROVE  SecurityInvariant'
<1>1. /\ req' = [req EXCEPT ![q] = NoRequest] /\ UNCHANGED <<log, time, chain, packet>>
      /\ page' = [u \in Officers |-> IF page[u].query = q THEN [page[u] EXCEPT !.query = 0, !.error = TRUE] ELSE page[u]]
  BY DEF Fails
<1>2. budget' \in Budgets
  BY InvariantFacts, Spent DEF Fails, Spendable
<1>3. ASSUME NEW u \in Officers, page[u].query = q
      PROVE  PageFits(page'[u], log, time) /\ page'[u].query = 0
  <2> DEFINE p == [page[u] EXCEPT !.query = 0, !.error = TRUE]
  <2>1. page'[u] = p
    BY <1>1, <1>3
  <2>2. PageFits(page[u], log, time) /\ page[u] \in PageType
    BY InvariantFacts
  <2>3. /\ p \in PageType /\ p.query = 0 /\ p.error = TRUE /\ p.shown = page[u].shown /\ p.save = page[u].save
        /\ p.saved = page[u].saved /\ p.load = page[u].load /\ p.window = page[u].window
    BY <2>2 DEF PageType
  <2> HIDE DEF p
  <2>4. PageFits(p, log, time)
    BY <2>2, <2>3 DEF PageFits
  <2> QED
    BY <2>1, <2>3, <2>4
<1>4. \A u \in Officers : page[u].query # q => page'[u] = page[u]
  BY <1>1
<1>5. page' = [u \in Officers |-> page'[u]]
  BY <1>1
<1> QED
  BY <1>1, <1>2, <1>3, <1>4, <1>5, RequestGone

LEMMA AnswerKeeps ==
    ASSUME SecurityInvariant, NEW q \in Requests, AnswerArrives(q)
    PROVE  SecurityInvariant'
<1> DEFINE a == Answer(req[q])
<1>1. /\ req' = [req EXCEPT ![q] = NoRequest] /\ UNCHANGED <<log, time, chain, packet, budget>>
      /\ page' = [u \in Officers |-> IF page[u].query = q
                    THEN [page[u] EXCEPT !.query = 0, !.error = FALSE, !.shown = {a}] ELSE page[u]]
      /\ req[q].pc = "answered"
  BY DEF AnswerArrives
<1>2. RequestFits(req[q], log, time) /\ req[q] \in RequestsOf /\ time \in Nat /\ Len(log) \in Nat /\ budget \in Budgets
  BY InvariantFacts
<1>3. req[q].counted \in Nat /\ req[q].listed \in Nat /\ req[q].stated \in Nat
      /\ req[q].counted <= Len(log) /\ req[q].listed <= Len(log) /\ req[q].stated <= Len(log)
  BY <1>1, <1>2 DEF RequestFits, RequestsOf, Stamps
<1>4. a \in AnswerType /\ a.counted = req[q].counted /\ a.listed = req[q].listed /\ a.stated = req[q].stated
  BY <1>2, <1>3 DEF AnswerType, Answer, RequestsOf
<1> HIDE DEF a
<1>5. ASSUME NEW u \in Officers, page[u].query = q
      PROVE  PageFits(page'[u], log, time) /\ page'[u].query = 0
  <2> DEFINE p == [page[u] EXCEPT !.query = 0, !.error = FALSE, !.shown = {a}]
  <2>1. page'[u] = p
    BY <1>1, <1>5
  <2>2. PageFits(page[u], log, time) /\ page[u] \in PageType /\ Waits(u, page[u], req)
    BY InvariantFacts
  <2>3. /\ p \in PageType /\ p.query = 0 /\ p.error = FALSE /\ p.shown = {a} /\ p.save = page[u].save
        /\ p.saved = page[u].saved /\ p.load = page[u].load /\ p.window = page[u].window
    BY <1>4, <2>2 DEF PageType
  <2> HIDE DEF p
  <2>4. Settled(p) = Settled(page[u])
    BY <2>3 DEF Settled
  <2>5. \A s \in Settled(page[u]) : req[q].stated >= s.id
    <3>1. q # 0 /\ req[q].stated # -1
      BY <1>3, CenterAssumption
    <3> QED
      BY <1>5, <2>2, <3>1 DEF Waits
  <2>6. PageFits(p, log, time)
    BY <1>3, <1>4, <2>2, <2>3, <2>4, <2>5 DEF PageFits
  <2> QED
    BY <2>1, <2>3, <2>6
<1>6. \A u \in Officers : page[u].query # q => page'[u] = page[u]
  BY <1>1
<1>7. page' = [u \in Officers |-> page'[u]]
  BY <1>1
<1> QED
  BY <1>1, <1>2, <1>5, <1>6, <1>7, RequestGone

(* A page that asks. *)
LEMMA PageAsks ==
    ASSUME SecurityInvariant, NEW u \in Officers, NEW q \in Requests, Ask(u, q),
           NEW p, page' = [page EXCEPT ![u] = p], PageFits(p, log, time), p.query = q,
           UNCHANGED <<log, time, chain, packet>>, budget' \in Budgets
    PROVE  SecurityInvariant'
<1>1. Fits(log, time, chain, req', page, packet, budget)
      /\ req'[q].user = u /\ req'[q].pc = "asked" /\ req'[q].stated = -1
  BY AskKeeps
<1>2. Waits(u, p, req')
  BY <1>1 DEF Waits
<1>3. Fits(log, time, chain, req', page', packet, budget)
  BY <1>1, <1>2, PageSet
<1> QED
  BY <1>3, BudgetSet DEF SecurityInvariant

LEMMA RefreshKeeps ==
    ASSUME SecurityInvariant, NEW u \in Officers, NEW q \in Requests, Refresh(u, q) \/ Verified(u, q)
    PROVE  SecurityInvariant'
<1>1. PageFits(page[u], log, time) /\ page[u] \in PageType /\ page = [o \in Officers |-> page[o]] /\ q # 0
  BY InvariantFacts, CenterAssumption
<1>2. CASE Refresh(u, q)
  <2> DEFINE p == [page[u] EXCEPT !.query = q]
  <2>1. page' = [page EXCEPT ![u] = p] /\ Ask(u, q) /\ UNCHANGED <<log, time, chain, packet>>
    BY <1>1, <1>2 DEF Refresh
  <2>2. budget' \in Budgets
    BY <1>2, InvariantFacts, Spent DEF Refresh, Spendable
  <2>3. /\ p \in PageType /\ p.query = q /\ p.shown = page[u].shown /\ p.save = page[u].save
        /\ p.saved = page[u].saved /\ p.load = page[u].load /\ p.window = page[u].window
    BY <1>1 DEF PageType
  <2> HIDE DEF p
  <2>4. PageFits(p, log, time)
    BY <1>1, <2>3 DEF PageFits
  <2> QED
    BY <2>1, <2>2, <2>3, <2>4, PageAsks
<1>3. CASE Verified(u, q)
  <2> DEFINE p == [page[u] EXCEPT !.query = q, !.verifying = FALSE]
  <2>1. page' = [page EXCEPT ![u] = p] /\ Ask(u, q) /\ UNCHANGED <<log, time, chain, packet, budget>>
    BY <1>1, <1>3 DEF Verified
  <2>2. budget' \in Budgets
    BY <2>1, InvariantFacts
  <2>3. /\ p \in PageType /\ p.query = q /\ p.shown = page[u].shown /\ p.save = page[u].save
        /\ p.saved = page[u].saved /\ p.load = page[u].load /\ p.window = page[u].window
    BY <1>1 DEF PageType
  <2> HIDE DEF p
  <2>4. PageFits(p, log, time)
    BY <1>1, <2>3 DEF PageFits
  <2> QED
    BY <2>1, <2>2, <2>3, <2>4, PageAsks
<1> QED
  BY <1>2, <1>3

LEMMA PageOnly ==
    ASSUME SecurityInvariant, NEW u \in Officers, NEW p, page' = [page EXCEPT ![u] = p],
           PageFits(p, log, time), p.query = page[u].query, Settled(p) = Settled(page[u]),
           UNCHANGED <<log, time, chain, req, packet>>, budget' \in Budgets
    PROVE  SecurityInvariant'
<1>1. Waits(u, p, req)
  BY InvariantFacts DEF Waits
<1>2. Fits(log, time, chain, req, page', packet, budget)
  BY <1>1, PageSet DEF SecurityInvariant
<1> QED
  BY <1>2, BudgetSet DEF SecurityInvariant

(* A history has every update, or as many as it can hold. *)
LEMMA HistoryTrail ==
    ASSUME NEW t \in Nat, NEW l, EntryLog(l, t), NEW id, NEW rec, InLog(id, rec, l)
    PROVE  LET ids == {e.id : e \in WorkflowHistory(l, rec)}
           IN id \in ids \/ Cardinality(ids) = HistoryLimit
<1> DEFINE entries == StatusEvents(l, rec)
           P == {p \in entries \X entries : Supersedes(p[1], p[2])}
           n == Cardinality(entries)
           r == Ranked(entries, P)
           ids == {e.id : e \in WorkflowHistory(l, rec)}
           h == HistoryLimit
<1>1. entries \in SUBSET Events(l)
  BY DEF StatusEvents
<1>2. /\ IsFiniteSet(entries) /\ entries \in SUBSET EventsBy(t) /\ Distinct(entries)
  <2>1. IsFiniteSet(Events(l)) /\ Events(l) \subseteq EventsBy(t) /\ Distinct(Events(l))
    BY EventsOfLog
  <2> HIDE DEF entries
  <2> QED
    BY <1>1, <2>1, FS_Subset DEF Distinct
<1>3. l[id] \in entries /\ l[id].id = id
  <2>1. l[id] \in Events(l) /\ l[id].id = id
    BY EventsOfLog DEF InLog
  <2> QED
    BY <2>1 DEF StatusEvents, InLog
<1>4. Orders(entries, P)
  <2> HIDE DEF entries
  <2> QED
    BY <1>2, EventOrders
<1>5. WorkflowHistory(l, rec) = {e \in entries : Ahead(entries, P, e) < h}
  <2>1. \A e \in entries : {f \in entries : Supersedes(f, e)} = {f \in entries : <<f, e>> \in P}
    OBVIOUS
  <2> QED
    BY <2>1 DEF WorkflowHistory, Ahead
<1> HIDE DEF entries, P, r, n
<1>6. /\ n \in Nat
      /\ \A x \in entries : Ahead(entries, P, x) \in 0..(n - 1) /\ r[Ahead(entries, P, x) + 1] = x
      /\ \A k \in 1..n : Ahead(entries, P, r[k]) = k - 1
      /\ \A k \in 1..n : r[k] \in entries
  <2>1. /\ r \in Seq(entries) /\ Len(r) = n /\ n \in Nat
        /\ \A x \in entries : Ahead(entries, P, x) \in 0..(n - 1) /\ r[Ahead(entries, P, x) + 1] = x
        /\ \A k \in 1..n : Ahead(entries, P, r[k]) = k - 1
    BY <1>2, <1>4, RankedFacts DEF r, n
  <2> QED
    BY <2>1
<1>7. h \in Nat
  BY AnalysisAssumption
<1> HIDE DEF h
<1>8. CASE n <= h
  <2>1. Ahead(entries, P, l[id]) < h
    BY <1>3, <1>6, <1>7, <1>8
  <2>2. l[id] \in WorkflowHistory(l, rec)
    BY <1>3, <1>5, <2>1
  <2> QED
    BY <1>3, <2>2
<1>9. CASE n > h
  <2> DEFINE f == [k \in 1..h |-> r[k].id]
  <2>1. \A k \in 1..h : k \in 1..n
    BY <1>6, <1>7, <1>9
  <2>2. \A k \in 1..h : r[k] \in WorkflowHistory(l, rec)
    BY <1>5, <1>6, <1>7, <2>1
  <2>3. \A e \in WorkflowHistory(l, rec) : \E k \in 1..h : r[k] = e
    <3> SUFFICES ASSUME NEW e \in WorkflowHistory(l, rec) PROVE \E k \in 1..h : r[k] = e
      OBVIOUS
    <3>1. e \in entries /\ Ahead(entries, P, e) < h
      BY <1>5
    <3>2. Ahead(entries, P, e) + 1 \in 1..h /\ r[Ahead(entries, P, e) + 1] = e
      BY <1>6, <1>7, <3>1
    <3> QED
      BY <3>2
  <2>4. \A j, k \in 1..h : r[j].id = r[k].id => j = k
    <3> SUFFICES ASSUME NEW j \in 1..h, NEW k \in 1..h, r[j].id = r[k].id PROVE j = k
      OBVIOUS
    <3>1. r[j] = r[k]
      BY <1>2, <1>6, <2>1 DEF Distinct
    <3>2. Ahead(entries, P, r[j]) = j - 1 /\ Ahead(entries, P, r[k]) = k - 1
      BY <1>6, <2>1
    <3> QED
      BY <1>7, <3>1, <3>2
  <2>5. \A k \in 1..h : r[k].id \in ids
    BY <2>2
  <2>6. \A i \in ids : \E k \in 1..h : r[k].id = i
    BY <2>3
  <2> HIDE DEF ids
  <2>7. f \in Surjection(1..h, ids) /\ f \in Injection(1..h, ids)
    BY <2>4, <2>5, <2>6 DEF Injection, Surjection, IsInjective
  <2> HIDE DEF f
  <2>8. IsFiniteSet(1..h) /\ Cardinality(1..h) = h
    <3>1. IsFiniteSet(1..h) /\ Cardinality(1..h) = IF 1 > h THEN 0 ELSE h - 1 + 1
      BY <1>7, FS_Interval
    <3> QED
      BY <1>7, <3>1
  <2>9. Cardinality(ids) = h
    BY <2>7, <2>8, FS_Surjection
  <2> QED
    BY <2>9 DEF h, ids
<1> QED
  BY <1>6, <1>7, <1>8, <1>9

(* The fields of a page. *)
LEMMA PageFields ==
    ASSUME NEW l, NEW t, NEW p, PageFits(p, l, t)
    PROVE  /\ p \in PageType /\ p.shown \in SUBSET AnswerType
           /\ p.save \in SaveType /\ p.saved \in SaveType /\ SaveFits(p.save, l, t) /\ SaveFits(p.saved, l, t)
           /\ p.load \in LoadType /\ LoadFits(p.load, l)
           /\ p.window \in WindowType /\ WindowFits(p.window, l)
           /\ p.kept \in SUBSET [rec : RecIds, ids : SUBSET Nat] /\ p.open \in SUBSET RecIds
           /\ p.chosen \in [recs : SUBSET RecIds, docs : SUBSET Docs]
BY DEF PageFits, PageType

(* A save under way that no answer is judged by. *)
LEMMA SaveSet ==
    ASSUME SecurityInvariant, NEW u \in Officers, NEW s, SaveFits(s, log, time), s.pc # "fetching",
           page[u].save.pc # "fetching", page' = [page EXCEPT ![u] = [page[u] EXCEPT !.save = s]],
           UNCHANGED <<log, time, chain, req, packet>>, budget' \in Budgets
    PROVE  SecurityInvariant'
<1> DEFINE p == [page[u] EXCEPT !.save = s]
<1>1. PageFits(page[u], log, time) /\ page[u] \in PageType
  BY InvariantFacts
<1>2. s \in SaveType
  BY DEF SaveFits
<1>3. /\ p \in PageType /\ p.query = page[u].query /\ p.error = page[u].error /\ p.shown = page[u].shown
      /\ p.save = s /\ p.saved = page[u].saved /\ p.load = page[u].load /\ p.window = page[u].window
  BY <1>1, <1>2 DEF PageType
<1> HIDE DEF p
<1>4. Settled(p) = Settled(page[u])
  BY <1>3 DEF Settled
<1>5. PageFits(p, log, time)
  BY <1>1, <1>3, <1>4 DEF PageFits
<1>6. page' = [page EXCEPT ![u] = p]
  BY DEF p
<1> QED
  BY <1>3, <1>4, <1>5, <1>6, PageOnly

(* What the invariant says of the types. *)
LEMMA TypesHold == SecurityInvariant => SecurityTypeOK
<1> SUFFICES ASSUME SecurityInvariant PROVE SecurityTypeOK
  OBVIOUS
<1>1. log \in Seq(EventsBy(time)) /\ (\A i \in DOMAIN log : log[i].id = i) /\ time \in Nat /\ time >= Lag
      /\ chain \in Chains /\ budget \in Budgets /\ Len(log) \in Nat
  BY InvariantFacts DEF EntryLog
<1>2. req \in [Requests -> RequestsOf] /\ page \in [Officers -> PageType]
  BY InvariantFacts
<1>3. \A q \in Requests : {req[q].counted, req[q].listed, req[q].stated} \subseteq -1..Len(log)
  <2> SUFFICES ASSUME NEW q \in Requests PROVE {req[q].counted, req[q].listed, req[q].stated} \subseteq -1..Len(log)
    OBVIOUS
  <2>1. RequestFits(req[q], log, time) /\ req[q] \in RequestsOf
    BY InvariantFacts
  <2> QED
    BY <1>1, <2>1 DEF RequestFits, RequestsOf, Stamps
<1>4. ASSUME NEW u \in Officers
      PROVE  /\ page[u].query # 0 => req[page[u].query].user = u
             /\ \A s \in page[u].shown : {s.counted, s.listed, s.stated} \subseteq 0..Len(log)
  <2>1. PageFits(page[u], log, time) /\ Waits(u, page[u], req)
    BY InvariantFacts
  <2>2. page[u].shown \in SUBSET AnswerType
    BY <2>1 DEF PageFits, PageType
  <2>3. \A s \in page[u].shown : s.counted \in Nat /\ s.listed \in Nat /\ s.stated \in Nat
    BY <2>2 DEF AnswerType
  <2> QED
    BY <1>1, <2>1, <2>3 DEF PageFits, Waits
<1> QED
  BY <1>1, <1>2, <1>3, <1>4 DEF SecurityTypeOK

(* The steps of a save. *)
LEMMA SaveKeeps ==
    ASSUME SecurityInvariant, NEW u \in Officers, NEW r \in Shown(u), NEW step, Save(u, r, step)
    PROVE  SecurityInvariant'
<1> DEFINE s == [NoSave EXCEPT !.pc = "sent", !.rec = r.id, !.status = step.status, !.note = step.note]
<1>1. r \in RowType
  BY ShownFacts, TypesHold
<1>2. step.status \in Statuses /\ step.note \in Notes
  BY <1>1, StepsFacts DEF Save
<1>3. s \in SaveType /\ s.pc = "sent" /\ s.id = 0 /\ s.at = 0
  BY <1>1, <1>2 DEF SaveType, NoSave, RowType
<1>4. /\ page' = [page EXCEPT ![u] = [page[u] EXCEPT !.save = s]] /\ page[u].save.pc = "idle"
      /\ UNCHANGED <<log, time, chain, req, packet>>
  BY InvariantFacts DEF Save
<1> HIDE DEF s
<1>5. SaveFits(s, log, time)
  BY <1>3, InvariantFacts DEF SaveFits
<1>6. budget' \in Budgets
  BY InvariantFacts, Spent DEF Save, Spendable
<1> QED
  BY <1>3, <1>4, <1>5, <1>6, SaveSet

LEMMA StampKeeps ==
    ASSUME SecurityInvariant, NEW u \in Officers, StampSave(u)
    PROVE  SecurityInvariant'
<1> DEFINE s == [page[u].save EXCEPT !.pc = "stamped", !.at = time]
<1>1. PageFits(page[u], log, time) /\ page[u] \in PageType /\ page = [o \in Officers |-> page[o]] /\ time \in Nat
      /\ budget \in Budgets
  BY InvariantFacts
<1>2. page[u].save \in SaveType /\ SaveFits(page[u].save, log, time)
  BY <1>1, PageFields
<1>3. page[u].save.pc = "sent" /\ UNCHANGED <<log, time, chain, req, packet, budget>>
      /\ page' = [page EXCEPT ![u] = [page[u] EXCEPT !.save = s]]
  <2>1. page' = [page EXCEPT ![u].save.pc = "stamped", ![u].save.at = time]
        /\ page[u].save.pc = "sent" /\ UNCHANGED <<log, time, chain, req, packet, budget>>
    BY DEF StampSave
  <2> QED
    BY <1>1, <1>2, <2>1 DEF PageType, SaveType
<1>4. s \in SaveType /\ s.pc = "stamped" /\ s.id = page[u].save.id /\ s.at = time
  BY <1>1, <1>2 DEF SaveType
<1> HIDE DEF s
<1>5. s.id = 0
  BY <1>2, <1>3, <1>4 DEF SaveFits
<1>6. SaveFits(s, log, time)
  BY <1>1, <1>4, <1>5 DEF SaveFits
<1> QED
  BY <1>1, <1>3, <1>4, <1>6, SaveSet

LEMMA SaveFailsKeeps ==
    ASSUME SecurityInvariant, NEW u \in Officers, SaveFails(u)
    PROVE  SecurityInvariant'
<1>1. NoSave \in SaveType /\ NoSave.id = 0 /\ NoSave.at = 0 /\ NoSave.pc = "idle"
  BY DEF NoSave, SaveType, Statuses, Notes
<1>2. SaveFits(NoSave, log, time)
  BY <1>1, InvariantFacts DEF SaveFits
<1>3. page' = [page EXCEPT ![u] = [page[u] EXCEPT !.save = NoSave]] /\ page[u].save.pc # "fetching"
      /\ UNCHANGED <<log, time, chain, req, packet>>
  BY InvariantFacts DEF SaveFails
<1>4. budget' \in Budgets
  BY InvariantFacts, Spent DEF SaveFails, Spendable
<1> QED
  BY <1>1, <1>2, <1>3, <1>4, SaveSet

LEMMA AppendSaveKeeps ==
    ASSUME SecurityInvariant, NEW u \in Officers, AppendSave(u)
    PROVE  SecurityInvariant'
<1> DEFINE v == page[u].save
           e == [Entry("status", u, "none", "UNKNOWN", v.at) EXCEPT !.rec = v.rec, !.status = v.status, !.note = v.note]
           s == [v EXCEPT !.pc = "applied", !.id = Len(log) + 1]
           p == [page[u] EXCEPT !.save = s]
<1>1. PageFits(page[u], log, time) /\ page[u] \in PageType /\ page = [o \in Officers |-> page[o]] /\ time \in Nat
      /\ Len(log) \in Nat /\ log \in Seq(EventsBy(time))
  BY InvariantFacts DEF EntryLog
<1>2. v \in SaveType /\ SaveFits(v, log, time)
  BY <1>1, PageFields
<1>3. v.pc = "stamped" /\ log' = Append(log, [e EXCEPT !.id = Len(log) + 1])
      /\ UNCHANGED <<time, chain, req, packet, budget>> /\ page' = [page EXCEPT ![u] = p]
  <2>1. page' = [page EXCEPT ![u].save.pc = "applied", ![u].save.id = Len(log) + 1]
        /\ v.pc = "stamped" /\ log' = Append(log, [e EXCEPT !.id = Len(log) + 1])
        /\ UNCHANGED <<time, chain, req, packet, budget>>
    BY DEF AppendSave, Append1
  <2> QED
    BY <1>1, <1>2, <2>1 DEF PageType, SaveType
<1>4. e \in EventsBy(time) /\ e.kind = "status" /\ e.rec = v.rec /\ e.at = v.at
  <2>1. Entry("status", u, "none", "UNKNOWN", v.at) \in EventsBy(time)
    BY <1>2, EntryType DEF SaveFits, SaveType, Kinds
  <2>2. v.rec \in RecIds \cup {NoRec} /\ v.status \in Statuses /\ v.note \in Notes
    BY <1>2 DEF SaveType
  <2>3. e \in EventsBy(time)
    BY <2>1, <2>2 DEF EventsBy
  <2> QED
    BY <2>3 DEF Entry
<1>5. s \in SaveType /\ s.pc = "applied" /\ s.id = Len(log) + 1 /\ s.at = v.at /\ s.rec = v.rec
  <2> DEFINE n == Len(log) + 1
  <2>1. n \in Nat
    BY <1>1
  <2> HIDE DEF n, v, e
  <2>2. s = [v EXCEPT !.pc = "applied", !.id = n]
    BY DEF n
  <2> HIDE DEF s
  <2>3. s \in SaveType /\ s.pc = "applied" /\ s.id = n /\ s.at = v.at /\ s.rec = v.rec
    BY <1>2, <2>1, <2>2 DEF SaveType
  <2> QED
    BY <2>3 DEF n
<1> DEFINE x == [e EXCEPT !.id = Len(log) + 1]
<1>6. x.kind = "status" /\ x.rec = v.rec /\ x.at = v.at
  BY <1>4 DEF EventsBy
<1> HIDE DEF e, s, x
<1>7. Len(log') = Len(log) + 1 /\ log'[Len(log) + 1] = x
  BY <1>1, <1>3 DEF x
<1>8. Fits(log', time, chain, req, page, packet, budget)
  BY <1>3, <1>4, EntriesGrow DEF SecurityInvariant
<1>9. InLog(s.id, s.rec, log') /\ log'[s.id].at = s.at
  BY <1>1, <1>5, <1>6, <1>7 DEF InLog
<1>10. SaveFits(s, log', time)
  <2>1. v.at <= time
    BY <1>2 DEF SaveFits
  <2> HIDE DEF v
  <2> QED
    BY <1>5, <1>9, <2>1 DEF SaveFits
<1>11. PageFits(page[u], log', time) /\ Waits(u, page[u], req)
  BY <1>8 DEF Fits
<1>12. /\ p \in PageType /\ p.query = page[u].query /\ p.error = page[u].error /\ p.shown = page[u].shown
       /\ p.save = s /\ p.saved = page[u].saved /\ p.load = page[u].load /\ p.window = page[u].window
  BY <1>1, <1>5 DEF PageType
<1>13. Settled(p) = Settled(page[u])
  <2> HIDE DEF p
  <2> QED
    BY <1>3, <1>5, <1>12 DEF Settled
<1> HIDE DEF p
<1>14. PageFits(p, log', time) /\ Waits(u, p, req)
  BY <1>10, <1>11, <1>12, <1>13 DEF PageFits, Waits
<1>15. Fits(log', time, chain, req, page', packet, budget)
  BY <1>3, <1>8, <1>14, PageSet
<1> QED
  BY <1>3, <1>15 DEF SecurityInvariant

LEMMA SaveAnsweredKeeps ==
    ASSUME SecurityInvariant, NEW u \in Officers, NEW q \in Requests, SaveAnswered(u, q)
    PROVE  SecurityInvariant'
<1> DEFINE v == page[u].save
           s == [v EXCEPT !.pc = "fetching", !.query = q]
           p == [page[u] EXCEPT !.save = s, !.query = q]
<1>1. PageFits(page[u], log, time) /\ page[u] \in PageType /\ page = [o \in Officers |-> page[o]] /\ budget \in Budgets
  BY InvariantFacts
<1>2. v \in SaveType /\ SaveFits(v, log, time) /\ q # 0
  BY <1>1, PageFields, CenterAssumption
<1>3. v.pc = "applied" /\ Ask(u, q) /\ UNCHANGED <<log, time, chain, packet, budget>> /\ page' = [page EXCEPT ![u] = p]
  <2>1. page' = [page EXCEPT ![u].save.pc = "fetching", ![u].save.query = q, ![u].query = q]
        /\ v.pc = "applied" /\ Ask(u, q) /\ UNCHANGED <<log, time, chain, packet, budget>>
    BY DEF SaveAnswered, Joins
  <2> QED
    BY <1>1, <1>2, <2>1 DEF PageType, SaveType
<1>4. s \in SaveType /\ s.pc = "fetching" /\ s.id = v.id /\ s.at = v.at /\ s.rec = v.rec
  BY <1>2 DEF SaveType
<1> HIDE DEF s
<1>5. SaveFits(s, log, time)
  BY <1>2, <1>4 DEF SaveFits
<1>6. /\ p \in PageType /\ p.query = q /\ p.error = page[u].error /\ p.shown = page[u].shown
      /\ p.save = s /\ p.saved = page[u].saved /\ p.load = page[u].load /\ p.window = page[u].window
  BY <1>1, <1>4 DEF PageType
<1> HIDE DEF p
<1>7. PageFits(p, log, time)
  BY <1>1, <1>2, <1>5, <1>6 DEF PageFits
<1>8. budget' \in Budgets
  BY <1>1, <1>3
<1> QED
  BY <1>3, <1>6, <1>7, <1>8, PageAsks

LEMMA SaveDoneKeeps ==
    ASSUME SecurityInvariant, NEW u \in Officers, SaveDone(u)
    PROVE  SecurityInvariant'
<1> DEFINE s == page[u].save
           kept == {h \in page[u].kept : h.rec # s.rec}
           p == [page[u] EXCEPT !.save = NoSave, !.saved = s, !.kept = kept]
<1>1. PageFits(page[u], log, time) /\ page[u] \in PageType /\ page = [o \in Officers |-> page[o]] /\ budget \in Budgets
      /\ Waits(u, page[u], req)
  BY InvariantFacts
<1>2. s \in SaveType /\ SaveFits(s, log, time) /\ kept \in SUBSET [rec : RecIds, ids : SUBSET Nat]
  BY <1>1, PageFields
<1>3. s.pc = "fetching" /\ UNCHANGED <<log, time, chain, req, packet, budget>> /\ page' = [page EXCEPT ![u] = p]
  BY <1>1 DEF SaveDone
<1>4. NoSave \in SaveType /\ NoSave.id = 0 /\ NoSave.at = 0 /\ NoSave.pc = "idle"
  BY DEF NoSave, SaveType, Statuses, Notes
<1>5. SaveFits(NoSave, log, time)
  BY <1>4, InvariantFacts DEF SaveFits
<1>6. /\ p \in PageType /\ p.query = page[u].query /\ p.error = page[u].error /\ p.shown = page[u].shown
      /\ p.save = NoSave /\ p.saved = s /\ p.load = page[u].load /\ p.window = page[u].window
  BY <1>1, <1>2, <1>4 DEF PageType
<1>7. Settled(p) \subseteq Settled(page[u])
  <2> HIDE DEF p
  <2> QED
    BY <1>3, <1>4, <1>6 DEF Settled
<1> HIDE DEF p
<1>8. PageFits(p, log, time) /\ Waits(u, p, req)
  BY <1>1, <1>2, <1>5, <1>6, <1>7 DEF PageFits, Waits
<1>9. Fits(log, time, chain, req, page', packet, budget)
  BY <1>3, <1>8, PageSet DEF SecurityInvariant
<1> QED
  BY <1>3, <1>9 DEF SecurityInvariant

(* The steps of the histories, the packets, the windows and the selection. *)
LEMMA OtherFields ==
    ASSUME SecurityInvariant, NEW u \in Officers, NEW p \in PageType, page' = [page EXCEPT ![u] = p],
           p.query = page[u].query, p.error = page[u].error, p.shown = page[u].shown,
           p.save = page[u].save, p.saved = page[u].saved, LoadFits(p.load, log), WindowFits(p.window, log),
           UNCHANGED <<log, time, chain, req, packet>>, budget' \in Budgets
    PROVE  SecurityInvariant'
<1>1. PageFits(page[u], log, time)
  BY InvariantFacts
<1>2. Settled(p) = Settled(page[u])
  BY DEF Settled
<1>3. PageFits(p, log, time)
  BY <1>1, <1>2 DEF PageFits
<1> QED
  BY <1>2, <1>3, PageOnly

LEMMA VerifyKeeps ==
    ASSUME SecurityInvariant, NEW u \in Officers, Verify(u)
    PROVE  SecurityInvariant'
<1> DEFINE p == [page[u] EXCEPT !.verifying = TRUE]
<1>1. PageFits(page[u], log, time) /\ page[u] \in PageType /\ page = [o \in Officers |-> page[o]]
  BY InvariantFacts
<1>2. page' = [page EXCEPT ![u] = p] /\ UNCHANGED <<log, time, chain, req, packet>>
  BY <1>1 DEF Verify
<1>3. budget' \in Budgets
  BY InvariantFacts, Spent DEF Verify, Spendable
<1>4. /\ p \in PageType /\ p.query = page[u].query /\ p.error = page[u].error /\ p.shown = page[u].shown
      /\ p.save = page[u].save /\ p.saved = page[u].saved /\ p.load = page[u].load /\ p.window = page[u].window
  BY <1>1 DEF PageType
<1> HIDE DEF p
<1>5. LoadFits(p.load, log) /\ WindowFits(p.window, log)
  BY <1>1, <1>4, PageFields
<1> QED
  BY <1>2, <1>3, <1>4, <1>5, OtherFields

LEMMA ShownInLog ==
    ASSUME SecurityInvariant, NEW u \in Officers, NEW r \in Shown(u)
    PROVE  /\ r \in RowType /\ r.id \in RecIds /\ r.workflow \in StateType
           /\ r.workflow.id # 0 => InLog(r.workflow.id, r.id, log)
<1>1. /\ r \in RowType
      /\ \E s \in page[u].shown : /\ s.stated \in 0..Len(log)
                                  /\ r.workflow = WorkflowState(SubSeq(log, 1, s.stated), r.id)
  BY TypesHold, ShownFacts
<1>2. PICK s \in page[u].shown : s.stated \in 0..Len(log) /\ r.workflow = WorkflowState(SubSeq(log, 1, s.stated), r.id)
  BY <1>1
<1> DEFINE seen == SubSeq(log, 1, s.stated)
<1>3. time \in Nat /\ EntryLog(log, time) /\ Len(log) \in Nat
  BY InvariantFacts
<1>4. EntryLog(seen, time) /\ Len(seen) = s.stated /\ Events(seen) = {e \in Events(log) : e.id <= s.stated}
  BY <1>2, <1>3, PrefixOfLog
<1> HIDE DEF seen
<1>5. ASSUME r.workflow.id # 0 PROVE InLog(r.workflow.id, r.id, log)
  <2>1. PICK e \in StatusEvents(seen, r.id) : r.workflow.id = e.id
    BY <1>2, <1>3, <1>4, <1>5, WorkflowFacts DEF seen
  <2>2. e \in Events(log) /\ e.kind = "status" /\ e.rec = r.id
    BY <1>4, <2>1 DEF StatusEvents
  <2>3. e.id \in 1..Len(log) /\ log[e.id] = e
    BY <1>3, <2>2, EventsOfLog
  <2> QED
    BY <2>1, <2>2, <2>3 DEF InLog
<1> QED
  BY <1>1, <1>5 DEF RowType

LEMMA AskedFits ==
    ASSUME SecurityInvariant, NEW u \in Officers, NEW r \in Shown(u), NEW use \in {"view", "packet", "evidence"}
    PROVE  Asked(r, use) \in LoadType /\ LoadFits(Asked(r, use), log)
<1>1. r.id \in RecIds /\ r.workflow \in StateType /\ (r.workflow.id # 0 => InLog(r.workflow.id, r.id, log))
  BY ShownInLog
<1>2. NotStarted \in StateType
  BY DEF NotStarted, StateType, Statuses, Notes, Stamps
<1>3. NoLoad \in LoadType
  BY <1>2 DEF NoLoad, LoadType
<1>4. Asked(r, use) \in LoadType /\ Asked(r, use).pc = "asked" /\ Asked(r, use).rec = r.id
      /\ Asked(r, use).stated = r.workflow
  BY <1>1, <1>3 DEF Asked, LoadType
<1> QED
  BY <1>1, <1>4 DEF LoadFits

LEMMA ToggleKeeps ==
    ASSUME SecurityInvariant, NEW u \in Officers, NEW r \in Shown(u), ToggleHistory(u, r)
    PROVE  SecurityInvariant'
<1> DEFINE x == IF r.id \notin page[u].open /\ Kept(u, r.id) = {} THEN Asked(r, "view") ELSE page[u].load
           open == Flip(page[u].open, r.id)
<1>1. PageFits(page[u], log, time) /\ page[u] \in PageType /\ page = [o \in Officers |-> page[o]]
  BY InvariantFacts
<1>2. x \in LoadType /\ LoadFits(x, log) /\ WindowFits(page[u].window, log)
  BY <1>1, AskedFits, PageFields
<1>3. open \in SUBSET RecIds
  <2>1. page[u].open \in SUBSET RecIds /\ r.id \in RecIds
    BY <1>1, PageFields, ShownInLog
  <2> QED
    BY <2>1 DEF Flip
<1>4. page' = [page EXCEPT ![u].open = open, ![u].load = x] /\ UNCHANGED <<log, time, chain, req, packet>>
  BY DEF ToggleHistory
<1>5. budget' \in Budgets
  BY InvariantFacts, Spent DEF ToggleHistory, Spendable
<1> HIDE DEF x, open
<1> DEFINE p == [page[u] EXCEPT !.open = open, !.load = x]
<1>6. page' = [page EXCEPT ![u] = p]
  BY <1>1, <1>4
<1>7. /\ p \in PageType /\ p.query = page[u].query /\ p.error = page[u].error /\ p.shown = page[u].shown
      /\ p.save = page[u].save /\ p.saved = page[u].saved /\ p.load = x /\ p.window = page[u].window
  BY <1>1, <1>2, <1>3 DEF PageType
<1> HIDE DEF p
<1> QED
  BY <1>2, <1>4, <1>5, <1>6, <1>7, OtherFields

LEMMA LoadSet ==
    ASSUME SecurityInvariant, NEW u \in Officers, NEW x \in LoadType, LoadFits(x, log),
           page' = [page EXCEPT ![u] = [page[u] EXCEPT !.load = x]],
           UNCHANGED <<log, time, chain, req, packet>>, budget' \in Budgets
    PROVE  SecurityInvariant'
<1> DEFINE p == [page[u] EXCEPT !.load = x]
<1>1. PageFits(page[u], log, time) /\ page[u] \in PageType
  BY InvariantFacts
<1>2. /\ p \in PageType /\ p.query = page[u].query /\ p.error = page[u].error /\ p.shown = page[u].shown
      /\ p.save = page[u].save /\ p.saved = page[u].saved /\ p.load = x /\ p.window = page[u].window
  BY <1>1 DEF PageType
<1>3. page' = [page EXCEPT ![u] = p]
  OBVIOUS
<1> HIDE DEF p
<1>4. WindowFits(page[u].window, log)
  BY <1>1, PageFields
<1> QED
  BY <1>2, <1>3, <1>4, OtherFields

LEMMA LoadKeeps ==
    ASSUME SecurityInvariant, NEW u \in Officers, NEW r \in Shown(u), NEW use \in {"packet", "evidence"}, Load(u, r, use)
    PROVE  SecurityInvariant'
<1>1. page' = [page EXCEPT ![u] = [page[u] EXCEPT !.load = Asked(r, use)]] /\ UNCHANGED <<log, time, chain, req, packet>>
  BY InvariantFacts DEF Load
<1>2. budget' \in Budgets
  BY InvariantFacts, Spent DEF Load, Spendable
<1>3. Asked(r, use) \in LoadType /\ LoadFits(Asked(r, use), log)
  BY AskedFits
<1> QED
  BY <1>1, <1>2, <1>3, LoadSet

LEMMA LoadFailsKeeps ==
    ASSUME SecurityInvariant, NEW u \in Officers, LoadFails(u)
    PROVE  SecurityInvariant'
<1>1. page' = [page EXCEPT ![u] = [page[u] EXCEPT !.load = NoLoad]] /\ UNCHANGED <<log, time, chain, req, packet>>
  BY InvariantFacts DEF LoadFails
<1>2. budget' \in Budgets
  BY InvariantFacts, Spent DEF LoadFails, Spendable
<1>3. NotStarted \in StateType
  BY DEF NotStarted, StateType, Statuses, Notes, Stamps
<1>4. NoLoad \in LoadType /\ LoadFits(NoLoad, log)
  BY <1>3 DEF NoLoad, LoadType, LoadFits
<1> QED
  BY <1>1, <1>2, <1>4, LoadSet

LEMMA ServeKeeps ==
    ASSUME SecurityInvariant, NEW u \in Officers, ServeHistory(u)
    PROVE  SecurityInvariant'
<1> DEFINE v == page[u].load
           got == {e.id : e \in WorkflowHistory(log, v.rec)}
           x == [v EXCEPT !.pc = "read", !.got = got]
<1>1. PageFits(page[u], log, time) /\ page[u] \in PageType /\ page = [o \in Officers |-> page[o]] /\ budget \in Budgets
      /\ time \in Nat /\ EntryLog(log, time)
  BY InvariantFacts
<1>2. v \in LoadType /\ LoadFits(v, log)
  BY <1>1, PageFields
<1>3. v.pc = "asked" /\ UNCHANGED <<log, time, chain, req, packet, budget>>
      /\ page' = [page EXCEPT ![u] = [page[u] EXCEPT !.load = x]]
  <2>1. page' = [page EXCEPT ![u].load.pc = "read", ![u].load.got = got]
        /\ v.pc = "asked" /\ UNCHANGED <<log, time, chain, req, packet, budget>>
    BY DEF ServeHistory
  <2> HIDE DEF got
  <2> QED
    BY <1>1, <1>2, <2>1 DEF PageType, LoadType
<1>4. got \in SUBSET Nat
  <2>1. \A e \in WorkflowHistory(log, v.rec) : e \in Events(log)
    BY DEF WorkflowHistory, StatusEvents
  <2>2. \A e \in Events(log) : e.id \in Nat
    BY <1>1, EventsOfLog
  <2> QED
    BY <2>1, <2>2
<1>5. Trailed(v.stated, got)
  <2> SUFFICES ASSUME v.stated.id # 0 PROVE v.stated.id \in got \/ Cardinality(got) = HistoryLimit
    BY DEF Trailed
  <2>1. InLog(v.stated.id, v.rec, log)
    BY <1>2, <1>3 DEF LoadFits
  <2> QED
    BY <1>1, <2>1, HistoryTrail
<1> HIDE DEF got
<1>6. x \in LoadType /\ x.pc = "read" /\ x.rec = v.rec /\ x.stated = v.stated /\ x.got = got
  BY <1>2, <1>4 DEF LoadType
<1> HIDE DEF x
<1>7. LoadFits(x, log)
  BY <1>2, <1>3, <1>5, <1>6 DEF LoadFits
<1>8. budget' \in Budgets
  BY <1>1, <1>3
<1> QED
  BY <1>3, <1>6, <1>7, <1>8, LoadSet

LEMMA HistoryArrivesKeeps ==
    ASSUME SecurityInvariant, NEW u \in Officers, HistoryArrives(u)
    PROVE  SecurityInvariant'
<1> DEFINE v == page[u].load
           kept == IF v.use = "evidence" THEN page[u].kept
                   ELSE {h \in page[u].kept : h.rec # v.rec} \cup {[rec |-> v.rec, ids |-> v.got]}
           p == [page[u] EXCEPT !.load = NoLoad, !.kept = kept]
<1>1. PageFits(page[u], log, time) /\ page[u] \in PageType /\ page = [o \in Officers |-> page[o]] /\ Waits(u, page[u], req)
  BY InvariantFacts
<1>2. v \in LoadType /\ LoadFits(v, log) /\ page[u].kept \in SUBSET [rec : RecIds, ids : SUBSET Nat]
      /\ WindowFits(page[u].window, log)
  BY <1>1, PageFields
<1>3. v.pc = "read" /\ UNCHANGED <<log, time, chain, req, budget>>
      /\ packet' = (IF v.use = "view" THEN packet ELSE {Packet(v.use, v.stated, v.got)})
      /\ page' = [page EXCEPT ![u].load = NoLoad, ![u].kept = kept]
  BY DEF HistoryArrives, Trail
<1>4. kept \in SUBSET [rec : RecIds, ids : SUBSET Nat]
  <2>1. v.rec \in RecIds /\ v.got \in SUBSET Nat
    BY <1>2, <1>3 DEF LoadFits, LoadType
  <2> HIDE DEF v
  <2> QED
    BY <1>2, <2>1
<1>5. \A k \in packet' : k.use = "evidence" => Trailed(k.workflow, k.history)
  <2>1. Trailed(v.stated, v.got)
    BY <1>2, <1>3 DEF LoadFits
  <2>2. \A k \in packet : k.use = "evidence" => Trailed(k.workflow, k.history)
    BY DEF SecurityInvariant, Fits
  <2> HIDE DEF v
  <2> QED
    BY <1>3, <2>1, <2>2 DEF Packet
<1>6. NotStarted \in StateType
  BY DEF NotStarted, StateType, Statuses, Notes, Stamps
<1>7. NoLoad \in LoadType /\ LoadFits(NoLoad, log)
  BY <1>6 DEF NoLoad, LoadType, LoadFits
<1> HIDE DEF kept
<1>8. page' = [page EXCEPT ![u] = p]
  BY <1>1, <1>3
<1>9. /\ p \in PageType /\ p.query = page[u].query /\ p.error = page[u].error /\ p.shown = page[u].shown
      /\ p.save = page[u].save /\ p.saved = page[u].saved /\ p.load = NoLoad /\ p.window = page[u].window
  BY <1>1, <1>4, <1>7 DEF PageType
<1> HIDE DEF p
<1>10. Settled(p) = Settled(page[u])
  BY <1>9 DEF Settled
<1>11. PageFits(p, log, time) /\ Waits(u, p, req)
  BY <1>1, <1>2, <1>7, <1>9, <1>10 DEF PageFits, Waits
<1>12. Fits(log, time, chain, req, page', packet, budget)
  BY <1>8, <1>11, PageSet DEF SecurityInvariant
<1>13. Fits(log, time, chain, req, page', packet', budget)
  BY <1>5, <1>12 DEF Fits
<1> QED
  BY <1>3, <1>13 DEF SecurityInvariant

LEMMA ExportKeeps ==
    ASSUME SecurityInvariant, NEW u \in Officers, NEW r, ExportKept(u, r)
    PROVE  SecurityInvariant'
<1>1. budget' \in Budgets
  BY InvariantFacts, Spent DEF ExportKept, Spendable
<1>2. \A k \in packet' : k.use = "evidence" => Trailed(k.workflow, k.history)
  BY DEF ExportKept, Packet
<1>3. Fits(log, time, chain, req, page, packet', budget)
  BY <1>2 DEF SecurityInvariant, Fits
<1> QED
  BY <1>1, <1>3, BudgetSet DEF SecurityInvariant, ExportKept

LEMMA WindowSet ==
    ASSUME SecurityInvariant, NEW u \in Officers, NEW w \in WindowType, WindowFits(w, log),
           page' = [page EXCEPT ![u] = [page[u] EXCEPT !.window = w]],
           UNCHANGED <<log, time, chain, req, packet>>, budget' \in Budgets
    PROVE  SecurityInvariant'
<1> DEFINE p == [page[u] EXCEPT !.window = w]
<1>1. PageFits(page[u], log, time) /\ page[u] \in PageType
  BY InvariantFacts
<1>2. /\ p \in PageType /\ p.query = page[u].query /\ p.error = page[u].error /\ p.shown = page[u].shown
      /\ p.save = page[u].save /\ p.saved = page[u].saved /\ p.load = page[u].load /\ p.window = w
  BY <1>1 DEF PageType
<1>3. page' = [page EXCEPT ![u] = p]
  OBVIOUS
<1> HIDE DEF p
<1>4. LoadFits(page[u].load, log)
  BY <1>1, PageFields
<1> QED
  BY <1>2, <1>3, <1>4, OtherFields

LEMMA LoadWindowKeeps ==
    ASSUME SecurityInvariant, NEW u \in Officers, NEW kind \in Authorized, LoadWindow(u, kind)
    PROVE  SecurityInvariant'
<1> DEFINE asked == {e.id : e \in OfKind(Events(log), {kind})}
           w == [NoWindow EXCEPT !.pc = "loading", !.kind = kind, !.asked = asked]
<1>1. time \in Nat /\ EntryLog(log, time) /\ page = [o \in Officers |-> page[o]]
  BY InvariantFacts
<1>2. asked \in SUBSET Nat
  <2>1. \A e \in OfKind(Events(log), {kind}) : e \in Events(log)
    BY DEF OfKind
  <2>2. \A e \in Events(log) : e.id \in Nat
    BY <1>1, EventsOfLog
  <2> QED
    BY <2>1, <2>2
<1>3. page' = [page EXCEPT ![u] = [page[u] EXCEPT !.window = w]] /\ UNCHANGED <<log, time, chain, req, packet>>
  BY <1>1 DEF LoadWindow
<1>4. budget' \in Budgets
  BY InvariantFacts, Spent DEF LoadWindow, Spendable
<1> HIDE DEF asked
<1>5. NoWindow \in WindowType /\ NoWindow.next = 1
  BY DEF NoWindow, WindowType, Authorized
<1>6. w \in WindowType /\ w.pc = "loading" /\ w.kind = kind /\ w.asked = asked /\ w.next = 1
  BY <1>2, <1>5 DEF WindowType
<1> HIDE DEF w
<1>7. \A e : RankIn(OfKind(Events(log), {kind}), e) >= (w.next - 1) * PageSize
  <2> DEFINE all == OfKind(Events(log), {kind})
  <2>1. IsFiniteSet(all)
    <3>1. all \subseteq Events(log)
      BY DEF OfKind
    <3> QED
      BY <1>1, <3>1, EventsOfLog, FS_Subset
  <2> HIDE DEF all
  <2>2. \A e : RankIn(all, e) \in Nat
    <3> SUFFICES ASSUME NEW e PROVE RankIn(all, e) \in Nat
      OBVIOUS
    <3> DEFINE A == {f \in all : Newer(f, e)}
    <3>1. A \subseteq all
      OBVIOUS
    <3> HIDE DEF A
    <3>2. Cardinality(A) \in Nat
      BY <2>1, <3>1, FS_Subset, FS_CardinalityType
    <3> QED
      BY <3>2 DEF RankIn, A
  <2>3. (w.next - 1) * PageSize = 0
    <3>1. PageSize \in Nat
      BY ViewsAssumption
    <3> QED
      BY <1>6, <3>1
  <2>4. \A e : RankIn(all, e) >= (w.next - 1) * PageSize
    <3>1. \A n \in Nat : n >= 0
      OBVIOUS
    <3> QED
      BY <2>2, <2>3, <3>1
  <2> QED
    BY <2>4 DEF all
<1>8. WindowFits(w, log)
  BY <1>6, <1>7 DEF WindowFits, asked
<1> QED
  BY <1>3, <1>4, <1>6, <1>8, WindowSet

(* A page of the query brings the ranks it covers; what is not on it has been  *)
(* had or is still to come, and after the last page nothing is.                *)
LEMMA FetchKeeps ==
    ASSUME SecurityInvariant, NEW u \in Officers, FetchPage(u)
    PROVE  SecurityInvariant'
<1> DEFINE v == page[u].window
           all == OfKind(Events(log), {v.kind})
           batch == {e.id : e \in PageAt(all, v.next)}
           last == v.next * PageSize >= Cardinality(all)
           more == [v EXCEPT !.pc = IF last THEN "shown" ELSE v.pc, !.next = v.next + 1,
                             !.got = v.got \cup batch, !.twice = v.twice \cup (v.got \cap batch)]
           failed == [v EXCEPT !.pc = "failed"]
           w == IF v.next > MaxPages THEN failed ELSE more
<1>1. PageFits(page[u], log, time) /\ page = [o \in Officers |-> page[o]] /\ budget \in Budgets
      /\ time \in Nat /\ EntryLog(log, time)
  BY InvariantFacts
<1>2. v \in WindowType /\ WindowFits(v, log)
  BY <1>1, PageFields
<1>3. v.pc = "loading" /\ UNCHANGED <<log, time, chain, req, packet, budget>>
      /\ page' = [page EXCEPT ![u] = [page[u] EXCEPT !.window = w]]
  BY <1>1 DEF FetchPage
<1>4. /\ v.asked \subseteq {e.id : e \in all}
      /\ \A e \in all : e.id \in v.asked => e.id \in v.got \/ RankIn(all, e) >= (v.next - 1) * PageSize
      /\ v.next \in Nat \ {0} /\ v.got \in SUBSET Nat /\ v.twice \in SUBSET Nat /\ v.asked \in SUBSET Nat
  BY <1>2, <1>3 DEF WindowFits, WindowType
<1>5. IsFiniteSet(all) /\ \A e \in all : e.id \in Nat
  <2>1. all \subseteq Events(log)
    BY DEF OfKind
  <2>2. IsFiniteSet(Events(log)) /\ \A e \in Events(log) : e.id \in Nat
    BY <1>1, EventsOfLog
  <2> HIDE DEF all
  <2> QED
    BY <2>1, <2>2, FS_Subset
<1>6. batch = {e.id : e \in {f \in all : (v.next - 1) * PageSize <= RankIn(all, f) /\ RankIn(all, f) < v.next * PageSize}}
  BY DEF PageAt, RankIn
<1>7. PageSize \in Nat \ {0}
  BY ViewsAssumption
<1>8. batch \in SUBSET Nat
  <2> HIDE DEF all
  <2> QED
    BY <1>5, <1>6
<1>10. Cardinality(all) \in Nat
  <2> HIDE DEF all
  <2> QED
    BY <1>5, FS_CardinalityType
<1>9. \A e \in all : RankIn(all, e) \in Nat /\ RankIn(all, e) < Cardinality(all)
  <2> SUFFICES ASSUME NEW e \in all PROVE RankIn(all, e) \in Nat /\ RankIn(all, e) < Cardinality(all)
    OBVIOUS
  <2> DEFINE A == {f \in all : Newer(f, e)}
  <2>1. A \subseteq all /\ e \notin A
    <3>1. e.at \in Nat /\ e.id \in Nat
      <4>1. e \in EventsBy(time)
        BY <1>1, EventsOfLog DEF OfKind
      <4> QED
        BY <4>1 DEF EventsBy
    <3> HIDE DEF all
    <3>2. ~Newer(e, e)
      BY <3>1 DEF Newer
    <3> QED
      BY <3>2
  <2> HIDE DEF A, all
  <2>2. IsFiniteSet(A) /\ Cardinality(A) < Cardinality(all)
    <3>1. IsFiniteSet(A) /\ Cardinality(A) <= Cardinality(all) /\ (Cardinality(A) = Cardinality(all) => A = all)
      BY <1>5, <2>1, FS_Subset
    <3>2. A # all
      BY <2>1
    <3>3. Cardinality(A) \in Nat
      BY <3>1, FS_CardinalityType
    <3> QED
      BY <1>10, <3>1, <3>2, <3>3
  <2>3. Cardinality(A) \in Nat
    BY <2>2, FS_CardinalityType
  <2> QED
    BY <2>2, <2>3 DEF RankIn, A
<1> HIDE DEF all, batch, last
<1>11. \A e \in all : e.id \in v.asked => e.id \in v.got \cup batch \/ RankIn(all, e) >= v.next * PageSize
  <2> SUFFICES ASSUME NEW e \in all, e.id \in v.asked, e.id \notin v.got, RankIn(all, e) < v.next * PageSize
               PROVE  e.id \in batch
    <3>1. \A e \in all : RankIn(all, e) \in Nat /\ v.next * PageSize \in Nat
      BY <1>4, <1>7, <1>9
    <3> QED
      BY <3>1
  <2>1. RankIn(all, e) >= (v.next - 1) * PageSize
    BY <1>4
  <2>2. (v.next - 1) * PageSize \in Nat /\ RankIn(all, e) \in Nat
    BY <1>4, <1>7, <1>9
  <2>3. (v.next - 1) * PageSize <= RankIn(all, e)
    BY <2>1, <2>2
  <2> QED
    BY <1>6, <2>3
<1>12. last => v.asked \subseteq v.got \cup batch
  <2> SUFFICES ASSUME last, NEW e \in all, e.id \in v.asked PROVE e.id \in v.got \cup batch
    BY <1>4
  <2>1. ~(RankIn(all, e) >= v.next * PageSize)
    <3>1. v.next * PageSize \in Nat /\ v.next * PageSize >= Cardinality(all)
      BY <1>4, <1>7 DEF last
    <3>2. RankIn(all, e) \in Nat /\ RankIn(all, e) < Cardinality(all)
      BY <1>9
    <3> QED
      BY <1>10, <3>1, <3>2
  <2> QED
    BY <1>11, <2>1
<1>13. failed \in WindowType /\ WindowFits(failed, log)
  <2>1. failed \in WindowType /\ failed.pc = "failed"
    BY <1>2 DEF WindowType
  <2> HIDE DEF failed
  <2> QED
    BY <2>1 DEF WindowFits
<1>14. more \in WindowType /\ WindowFits(more, log)
  <2> DEFINE pc == IF last THEN "shown" ELSE v.pc
             next == v.next + 1
             got == v.got \cup batch
             twice == v.twice \cup (v.got \cap batch)
  <2>1. pc \in {"loading", "shown"} /\ next \in Nat \ {0} /\ got \in SUBSET Nat /\ twice \in SUBSET Nat
        /\ next - 1 = v.next /\ (pc = "shown" => last)
    BY <1>3, <1>4, <1>8
  <2>2. more = [v EXCEPT !.pc = pc, !.next = next, !.got = got, !.twice = twice]
    OBVIOUS
  <2> HIDE DEF more, pc, next, twice
  <2>3. more \in WindowType /\ more.pc = pc /\ more.next = next /\ more.got = got /\ more.asked = v.asked /\ more.kind = v.kind
    <3> HIDE DEF v, got
    <3> QED
      BY <1>2, <2>1, <2>2 DEF WindowType
  <2>4. \A e \in all : e.id \in more.asked => e.id \in more.got \/ RankIn(all, e) >= (more.next - 1) * PageSize
    BY <1>11, <2>1, <2>3
  <2>5. all = OfKind(Events(log), {more.kind})
    BY <2>3 DEF all
  <2>6. more.asked \subseteq {e.id : e \in all} /\ (more.pc = "shown" => more.asked \subseteq more.got)
    BY <1>4, <1>12, <2>1, <2>3
  <2> QED
    BY <2>3, <2>4, <2>5, <2>6 DEF WindowFits
<1>15. w \in WindowType /\ WindowFits(w, log)
  BY <1>13, <1>14
<1>16. budget' \in Budgets
  BY <1>1, <1>3
<1> HIDE DEF w
<1> QED
  BY <1>3, <1>15, <1>16, WindowSet

-----------------------------------------------------------------------------
LEMMA ChooseKeeps ==
    ASSUME SecurityInvariant, NEW u \in Officers, NEW s \in page[u].shown,
           NEW chosen \in Selections(u, Summary(s)), Choose(u, chosen)
    PROVE  SecurityInvariant'
<1> DEFINE Chosen == [recs : SUBSET RecIds, docs : SUBSET Docs]
           rows == Rows(Summary(s))
           p == [page[u] EXCEPT !.chosen = chosen]
<1>1. PageFits(page[u], log, time) /\ page[u] \in PageType /\ page = [o \in Officers |-> page[o]]
      /\ time \in Nat /\ EntryLog(log, time)
  BY InvariantFacts
<1>2. ReadOf(s)
  BY TypesHold DEF SecurityTypeOK, ReadOf
<1>3. rows \in Seq(RowType)
  <2>1. RecsOf(s) \in Seq(RowType)
    BY <1>1, <1>2, RecsOfFacts
  <2>2. Summary(s).recs = RecsOf(s)
    BY DEF Summary
  <2> QED
    BY <2>1, <2>2, RowsFacts
<1>4. page[u].chosen \in Chosen
  BY <1>1, PageFields
<1>5. \A i \in DOMAIN rows : rows[i].id \in RecIds
  <2>1. \A i \in DOMAIN rows : rows[i] \in RowType
    BY <1>3
  <2> HIDE DEF rows
  <2> QED
    BY <2>1 DEF RowType
<1>6. /\ \A x \in Seqs!ToSet(QueueRows(RecTargets(Summary(s), time), "all", TRUE)) : x.id \in RecIds
      /\ IdsOf(rows) \in SUBSET RecIds
  <2>1. QueueRows(RecTargets(Summary(s), time), "all", TRUE) = [i \in DOMAIN rows |-> RecTarget(rows[i], time)]
    BY DEF QueueRows, QueueOf, RecTargets
  <2>2. \A r : RecTarget(r, time).id = r.id
    BY DEF RecTarget
  <2> HIDE DEF rows
  <2>3. IdsOf(rows) \in SUBSET RecIds
    BY <1>5 DEF IdsOf
  <2> DEFINE shown == QueueRows(RecTargets(Summary(s), time), "all", TRUE)
  <2>4. DOMAIN shown = DOMAIN rows /\ \A i \in DOMAIN rows : shown[i] = RecTarget(rows[i], time)
    BY <2>1
  <2> HIDE DEF shown
  <2>5. \A x \in Seqs!ToSet(shown) : x.id \in RecIds
    <3>1. Seqs!ToSet(shown) = {shown[i] : i \in DOMAIN rows}
      BY <2>4 DEF Seqs!ToSet
    <3>2. \A i \in DOMAIN rows : shown[i].id \in RecIds
      BY <1>5, <2>2, <2>4
    <3> QED
      BY <3>1, <3>2
  <2> QED
    BY <2>3, <2>5 DEF shown
<1>7. chosen \in Chosen
  <2>1. \/ \E x \in Seqs!ToSet(QueueRows(RecTargets(Summary(s), time), "all", TRUE)) :
              chosen = ToggleRec(page[u].chosen, x.id)
        \/ \E d \in Docs : chosen = ToggleDoc(page[u].chosen, d)
        \/ chosen = ChooseRecs(page[u].chosen, Summary(s)) \/ chosen = NothingChosen
        \/ \E t \in Retentions : chosen = ChooseDocs(page[u].chosen, t)
    BY DEF Selections
  <2> DEFINE c == page[u].chosen
  <2>2. \A id \in RecIds : ToggleRec(c, id) \in Chosen
    BY <1>4 DEF ToggleRec, Flip
  <2>3. \A d \in Docs : ToggleDoc(c, d) \in Chosen
    BY <1>4 DEF ToggleDoc, Flip
  <2>4. ChooseRecs(c, Summary(s)) \in Chosen /\ NothingChosen \in Chosen
    BY <1>4, <1>6 DEF ChooseRecs, NothingChosen
  <2>5. \A t \in Retentions : ChooseDocs(c, t) \in Chosen
    BY <1>4 DEF ChooseDocs, Retentions
  <2> HIDE DEF Chosen, c
  <2> QED
    BY <1>6, <2>1, <2>2, <2>3, <2>4, <2>5 DEF c
<1>8. page' = [page EXCEPT ![u] = p] /\ UNCHANGED <<log, time, chain, req, packet>>
  BY <1>1 DEF Choose
<1>9. budget' \in Budgets
  BY InvariantFacts, Spent DEF Choose, Spendable
<1>10. /\ p \in PageType /\ p.query = page[u].query /\ p.error = page[u].error /\ p.shown = page[u].shown
       /\ p.save = page[u].save /\ p.saved = page[u].saved /\ p.load = page[u].load /\ p.window = page[u].window
  BY <1>1, <1>7 DEF PageType
<1> HIDE DEF p
<1>11. LoadFits(p.load, log) /\ WindowFits(p.window, log)
  BY <1>1, <1>10, PageFields
<1> QED
  BY <1>8, <1>9, <1>10, <1>11, OtherFields

LEMMA SecurityKeeps == SecurityInvariant /\ [SecurityNext]_securityVars => SecurityInvariant'
<1> SUFFICES ASSUME SecurityInvariant, [SecurityNext]_securityVars PROVE SecurityInvariant'
  OBVIOUS
<1>1. CASE \E e \in budget.activity : Happens(e)
  BY <1>1, HappensKeeps
<1>2. CASE Tick \/ ChainChanges
  BY <1>2, TickKeeps, ChainKeeps
<1>3. ASSUME NEW q \in Requests, Serving(q) \/ Fails(q) PROVE SecurityInvariant'
  BY <1>3, ReadingKeeps, RecordViewKeeps, AnswerKeeps, FailsKeeps DEF Serving
<1>4. budget.officers \subseteq Officers
  BY InvariantFacts
<1>5. ASSUME NEW u \in Officers, NEW q \in Requests, Refresh(u, q) PROVE SecurityInvariant'
  BY <1>5, RefreshKeeps
<1>6. ASSUME NEW u \in Officers, Verify(u) \/ Working(u) \/ SaveFails(u) \/ LoadFails(u) PROVE SecurityInvariant'
  <2>1. CASE Working(u)
    BY <2>1, StampKeeps, AppendSaveKeeps, SaveAnsweredKeeps, SaveDoneKeeps, ServeKeeps, HistoryArrivesKeeps,
       FetchKeeps, RefreshKeeps DEF Working
  <2> QED
    BY <1>6, <2>1, VerifyKeeps, SaveFailsKeeps, LoadFailsKeeps
<1>7. ASSUME NEW u \in Officers, NEW r \in Shown(u),
             \/ \E step \in Steps(r) \cap budget.steps : Save(u, r, step)
             \/ ToggleHistory(u, r)
             \/ \E use \in {"packet", "evidence"} : Load(u, r, use)
             \/ ExportKept(u, r)
      PROVE  SecurityInvariant'
  BY <1>7, SaveKeeps, ToggleKeeps, LoadKeeps, ExportKeeps
<1>8. ASSUME NEW u \in Officers, NEW kind \in Authorized, LoadWindow(u, kind) PROVE SecurityInvariant'
  BY <1>8, LoadWindowKeeps
<1>9. ASSUME NEW u \in Officers, NEW s \in page[u].shown, NEW chosen \in Selections(u, Summary(s)), Choose(u, chosen)
      PROVE  SecurityInvariant'
  BY <1>9, ChooseKeeps
<1>10. CASE UNCHANGED securityVars
  BY <1>10 DEF SecurityInvariant, securityVars
<1>11. CASE SecurityNext
  BY <1>1, <1>2, <1>3, <1>4, <1>5, <1>6, <1>7, <1>8, <1>9, <1>11, Zenon DEF SecurityNext
<1> QED
  BY <1>10, <1>11

LEMMA SecurityHolds == SecuritySpec => []SecurityInvariant
BY SecurityStarts, SecurityKeeps, PTL DEF SecuritySpec

(* The variables of the security pages have their types: no event of the log   *)
(* is ahead of the clock, and a page waits for a request of its own only       *)
(* (audit.service.ts:1203, security/page.tsx:204).                             *)
THEOREM SecurityTypes == SecuritySpec => []SecurityTypeOK
BY SecurityHolds, TypesHold, PTL

(* The row of the recommendation saved last shows that save or one that        *)
(* supersedes it, once the page is quiet (security/page.tsx:254).              *)
THEOREM OwnSaveShownHolds == SecuritySpec => []OwnSaveShown
<1>1. SecurityInvariant => OwnSaveShown
  <2> SUFFICES ASSUME SecurityInvariant, NEW u \in Officers, page[u].query = 0, ~page[u].error,
                      page[u].saved.id # 0, NEW r \in Shown(u), r.id = page[u].saved.rec
               PROVE  \/ r.workflow.id = page[u].saved.id
                      \/ r.workflow.at > page[u].saved.at
                      \/ r.workflow.at = page[u].saved.at /\ r.workflow.id > page[u].saved.id
    BY DEF OwnSaveShown
  <2> DEFINE saved == page[u].saved
  <2>1. PageFits(page[u], log, time) /\ time \in Nat /\ EntryLog(log, time) /\ Len(log) \in Nat
    BY InvariantFacts
  <2>2. PICK s \in page[u].shown : s.stated \in 0..Len(log)
                                   /\ r.workflow = WorkflowState(SubSeq(log, 1, s.stated), r.id)
    BY TypesHold, ShownFacts
  <2>3. s.stated >= saved.id
    BY <2>1 DEF PageFits, Settled
  <2>4. InLog(saved.id, saved.rec, log) /\ log[saved.id].at = saved.at
    BY <2>1 DEF PageFits, SaveFits
  <2> DEFINE seen == SubSeq(log, 1, s.stated)
             f == log[saved.id]
  <2>5. EntryLog(seen, time) /\ Events(seen) = {e \in Events(log) : e.id <= s.stated}
    BY <2>1, <2>2, PrefixOfLog
  <2>6. f \in Events(log) /\ f.id = saved.id /\ f.kind = "status" /\ f.rec = r.id /\ f.at = saved.at /\ saved.id \in Nat
    BY <2>1, <2>4, EventsOfLog DEF InLog
  <2>7. f \in StatusEvents(seen, r.id)
    BY <2>2, <2>3, <2>5, <2>6 DEF StatusEvents
  <2> HIDE DEF seen, f, saved
  <2>8. r.workflow.id # 0
    BY <2>1, <2>2, <2>5, <2>7, WorkflowFacts DEF seen
  <2>9. PICK e \in StatusEvents(seen, r.id) :
           /\ r.workflow.id = e.id /\ r.workflow.at = e.at
           /\ \A g \in StatusEvents(seen, r.id) \ {e} : Supersedes(e, g)
    BY <2>1, <2>2, <2>5, <2>8, WorkflowFacts DEF seen
  <2>10. f = e \/ Supersedes(e, f)
    BY <2>7, <2>9
  <2> QED
    BY <2>6, <2>9, <2>10 DEF Supersedes, saved
<1> QED
  BY <1>1, SecurityHolds, PTL

LEMMA TrailHolds == SecurityInvariant => PacketTrail
BY DEF SecurityInvariant, Fits, PacketTrail, Trailed

LEMMA WindowsHold == SecurityInvariant => WindowsWhole
<1> SUFFICES ASSUME SecurityInvariant, NEW u \in Officers, page[u].window.pc = "shown"
             PROVE  page[u].window.asked \subseteq page[u].window.got
  BY DEF WindowsWhole
<1>1. WindowFits(page[u].window, log)
  BY InvariantFacts, PageFields
<1> QED
  BY <1>1 DEF WindowFits

-----------------------------------------------------------------------------
(* What a page shows of a summary. *)
LEMMA SummaryFacts ==
    ASSUME SecurityInvariant, NEW u \in Officers, NEW s \in page[u].shown
    PROVE  /\ ReadOf(s) /\ time \in Nat /\ EntryLog(log, time) /\ Len(log) \in Nat
           /\ Summary(s).chain = s.chain /\ s.chain \in Chains
           /\ Summary(s).recs = RecsOf(s) /\ RecsOf(s) \in Seq(RowType)
           /\ Summary(s).totals = Totals(SubSeq(log, 1, s.counted))
           /\ Summary(s).denying = DenyActors(SubSeq(log, 1, s.listed), s.now)
           /\ Summary(s).risky = RiskyDocuments(SubSeq(log, 1, s.listed), s.now)
           /\ Summary(s).signals = BehaviorSignals(SubSeq(log, 1, s.listed), s.now)
           /\ EntryLog(SubSeq(log, 1, s.counted), time) /\ EntryLog(SubSeq(log, 1, s.listed), time)
           /\ Events(SubSeq(log, 1, s.counted)) \subseteq Events(log)
           /\ Events(SubSeq(log, 1, s.listed)) \subseteq Events(log)
<1>1. ReadOf(s)
  BY TypesHold DEF SecurityTypeOK, ReadOf
<1>2. time \in Nat /\ EntryLog(log, time) /\ Len(log) \in Nat /\ PageFits(page[u], log, time)
  BY InvariantFacts
<1>3. s.chain \in Chains
  <2>1. s \in AnswerType
    BY <1>2, PageFields
  <2> QED
    BY <2>1 DEF AnswerType
<1>4. RecsOf(s) \in Seq(RowType)
  BY <1>1, <1>2, RecsOfFacts
<1>5. s.counted \in 0..Len(log) /\ s.listed \in 0..Len(log)
  BY <1>1 DEF ReadOf
<1>6. /\ EntryLog(SubSeq(log, 1, s.counted), time) /\ EntryLog(SubSeq(log, 1, s.listed), time)
      /\ Events(SubSeq(log, 1, s.counted)) \subseteq Events(log)
      /\ Events(SubSeq(log, 1, s.listed)) \subseteq Events(log)
  BY <1>2, <1>5, PrefixOfLog
<1>7. /\ Summary(s).chain = s.chain /\ Summary(s).recs = RecsOf(s)
      /\ Summary(s).totals = Totals(SubSeq(log, 1, s.counted))
      /\ Summary(s).denying = DenyActors(SubSeq(log, 1, s.listed), s.now)
      /\ Summary(s).risky = RiskyDocuments(SubSeq(log, 1, s.listed), s.now)
      /\ Summary(s).signals = BehaviorSignals(SubSeq(log, 1, s.listed), s.now)
  BY DEF Summary
<1> QED
  BY <1>1, <1>2, <1>3, <1>4, <1>6, <1>7

Covers(f) == f.counted \subseteq {e.id : e \in Opens(f.link, log)}

LEMMA KindsCovered ==
    ASSUME SecurityInvariant, NEW t \in Nat, NEW l, EntryLog(l, t), Events(l) \subseteq Events(log), NEW kinds
    PROVE  Covers(Figure({e.id : e \in OfKind(Events(l), kinds)}, To(OfKinds(kinds))))
<1>1. Opens(To(OfKinds(kinds)), log) = Answers(OfKinds(kinds), log)
  BY DEF Opens, To, Link
<1>2. \A e \in OfKind(Events(l), kinds) : e \in Answers(OfKinds(kinds), log)
  <2>1. \A e \in Events(l) : e.at \in Nat
    BY EventsOfLog DEF EventsBy
  <2> QED
    BY <2>1 DEF OfKind, Answers, OfKinds, AnyEvent
<1> QED
  BY <1>1, <1>2 DEF Covers, Figure

(* The links of the counters, the recommendations and the lists.              *)
LEMMA LinksHold == SecurityInvariant => LinksCover
<1> SUFFICES ASSUME SecurityInvariant, NEW u \in Officers, NEW s \in page[u].shown
             PROVE  /\ \A r \in Seqs!ToSet(Summary(s).recs) :
                          r.id.kind # "BURST" => r.counted \subseteq {e.id : e \in Answers(r.filter, log)}
                    /\ \A f \in Figures(Summary(s)) : Covers(f)
  BY DEF LinksCover, Contents, SummariesShown, Covers
<1> DEFINE counted == SubSeq(log, 1, s.counted)
           listed == SubSeq(log, 1, s.listed)
           recs == Recommendations(s.chain, counted, listed, s.now)
<1>1. /\ ReadOf(s) /\ time \in Nat /\ EntryLog(log, time)
      /\ Summary(s).recs = RecsOf(s)
      /\ Summary(s).totals = Totals(counted)
      /\ Summary(s).risky = RiskyDocuments(listed, s.now)
      /\ Summary(s).signals = BehaviorSignals(listed, s.now)
      /\ EntryLog(counted, time) /\ EntryLog(listed, time)
      /\ Events(counted) \subseteq Events(log) /\ Events(listed) \subseteq Events(log)
  BY SummaryFacts
<1>2. /\ RecsOf(s) \in Seq(RowType) /\ Len(RecsOf(s)) = Len(recs) /\ recs \in Seq(RecType)
      /\ \A i \in DOMAIN recs : /\ RecsOf(s)[i].id = recs[i].id /\ RecsOf(s)[i].filter = recs[i].filter
                                /\ RecsOf(s)[i].counted = recs[i].counted
  BY <1>1, RecsOfFacts
<1>3. \A r \in Seqs!ToSet(recs) : Sourced(r, Events(counted) \cup Events(listed))
  BY <1>1, RecommendationsFacts
<1> HIDE DEF counted, listed, recs
<1>4. ASSUME NEW r \in Seqs!ToSet(Summary(s).recs), r.id.kind # "BURST"
      PROVE  r.counted \subseteq {e.id : e \in Answers(r.filter, log)}
  <2>1. PICK i \in DOMAIN recs : r = RecsOf(s)[i]
    BY <1>1, <1>2 DEF Seqs!ToSet
  <2>2. Sourced(recs[i], Events(counted) \cup Events(listed))
    BY <1>3 DEF Seqs!ToSet
  <2>3. \A id \in r.counted : \E e \in Events(log) : e.id = id /\ Passes(r.filter, e)
    BY <1>1, <1>2, <1>4, <2>1, <2>2 DEF Sourced
  <2> QED
    BY <2>3 DEF Answers, Passes
<1>5. /\ \A f \in Metrics(Summary(s).totals) : Covers(f)
      /\ \A f \in EventSegments(Summary(s).totals) : Covers(f)
  <2> DEFINE c(kinds) == {e.id : e \in OfKind(Events(counted), kinds)}
  <2>1. Totals(counted) = [deniedEvents |-> c(DeniedResults), downloadDenied |-> c(DownloadDenied),
                           malwareBlocked |-> c({"malware"}), dlpDetections |-> c({"dlp"})]
    BY DEF Totals
  <2>2. \A kinds : Covers(Figure(c(kinds), To(OfKinds(kinds))))
    BY <1>1, KindsCovered
  <2> HIDE DEF c
  <2>3. /\ DOMAIN Totals(counted) = {"deniedEvents", "downloadDenied", "malwareBlocked", "dlpDetections"}
        /\ Totals(counted)["deniedEvents"] = c(DeniedResults) /\ Totals(counted)["downloadDenied"] = c(DownloadDenied)
        /\ Totals(counted)["malwareBlocked"] = c({"malware"}) /\ Totals(counted)["dlpDetections"] = c({"dlp"})
        /\ Totals(counted).deniedEvents = c(DeniedResults) /\ Totals(counted).downloadDenied = c(DownloadDenied)
        /\ Totals(counted).malwareBlocked = c({"malware"}) /\ Totals(counted).dlpDetections = c({"dlp"})
    BY <2>1
  <2>4. /\ MetricLink("deniedEvents") = To(OfKinds(DeniedResults))
        /\ MetricLink("downloadDenied") = To(OfKinds(DownloadDenied))
        /\ MetricLink("malwareBlocked") = To(OfKinds({"malware"}))
        /\ MetricLink("dlpDetections") = To(OfKinds({"dlp"}))
    BY DEF MetricLink
  <2>5. \A f \in Metrics(Totals(counted)) : \E kinds : f = Figure(c(kinds), To(OfKinds(kinds)))
    <3> SUFFICES ASSUME NEW key \in {"deniedEvents", "downloadDenied", "malwareBlocked", "dlpDetections"}
                 PROVE  \E kinds : Figure(Totals(counted)[key], MetricLink(key)) = Figure(c(kinds), To(OfKinds(kinds)))
      BY <2>3 DEF Metrics
    <3> QED
      BY <2>3, <2>4
  <2>6. \A f \in EventSegments(Totals(counted)) : \E kinds : f = Figure(c(kinds), To(OfKinds(kinds)))
    BY <2>3 DEF EventSegments
  <2> QED
    BY <1>1, <2>2, <2>5, <2>6
<1>6. ASSUME NEW f \in RiskFigures(Summary(s).risky) PROVE Covers(f)
  <2> DEFINE risky == RiskyDocuments(listed, s.now)
  <2>1. /\ risky \in Seq(RiskType)
        /\ \A i \in DOMAIN risky : \A id \in risky[i].counted : \E e \in Events(listed) : e.id = id /\ e.doc = risky[i].doc
    BY <1>1, RiskyFacts
  <2>2. f \in RiskFigures(risky)
    BY <1>1
  <2> HIDE DEF risky
  <2>3. PICK i \in DOMAIN risky : f = Figure(risky[i].counted, To([AnyEvent EXCEPT !.doc = risky[i].doc]))
    BY <2>2 DEF RiskFigures
  <2> DEFINE d == risky[i].doc
  <2>4. Opens(To([AnyEvent EXCEPT !.doc = d]), log) = Answers([AnyEvent EXCEPT !.doc = d], log)
    BY DEF Opens, To, Link
  <2>5. \A e \in Events(listed) : e.doc = d => e \in Answers([AnyEvent EXCEPT !.doc = d], log)
    <3>1. \A e \in Events(listed) : e \in Events(log) /\ e.at \in Nat /\ e.kind \in Kinds
      BY <1>1, EventsOfLog DEF EventsBy
    <3> QED
      BY <3>1 DEF Answers, AnyEvent
  <2>6. f.counted = risky[i].counted /\ f.link = To([AnyEvent EXCEPT !.doc = d])
    BY <2>3 DEF Figure
  <2>7. \A id \in risky[i].counted : \E e \in Answers([AnyEvent EXCEPT !.doc = d], log) : e.id = id
    BY <2>1, <2>5
  <2> HIDE DEF d
  <2> QED
    BY <2>4, <2>6, <2>7 DEF Covers
<1>7. ASSUME NEW f \in SignalFigures(Summary(s).signals) PROVE Covers(f)
  <2> DEFINE signals == BehaviorSignals(listed, s.now)
  <2>1. signals \in Seq(SignalType) /\ \A i \in DOMAIN signals : Counts(signals[i], Events(listed))
    BY <1>1, BehaviorFacts
  <2>2. f \in SignalFigures(signals)
    BY <1>1
  <2> HIDE DEF signals
  <2>3. PICK i \in DOMAIN signals : signals[i].type # "BURST" /\ f = Figure(signals[i].counted, To(RowFilter(signals[i])))
    BY <2>2 DEF SignalFigures
  <2> DEFINE x == signals[i]
  <2>4. x \in SignalType /\ Counts(x, Events(listed)) /\ x.type # "BURST"
    BY <2>1, <2>3
  <2> HIDE DEF x
  <2>5. f.counted = x.counted /\ f.link = To(RowFilter(x))
    BY <2>3 DEF Figure, x
  <2>6. Opens(To(RowFilter(x)), log) = Answers(RowFilter(x), log)
    BY DEF Opens, To, Link
  <2>7. /\ RowFilter(x).kinds = KindsCounted(x.type) /\ RowFilter(x).actor = x.actor /\ RowFilter(x).doc = "any"
        /\ RowFilter(x).from = x.span.from /\ RowFilter(x).to = x.span.to
    BY <2>4 DEF RowFilter, KindsCounted, SignalType
  <2>8. \A id \in x.counted : \E e \in Answers(RowFilter(x), log) : e.id = id
    BY <1>1, <2>4, <2>7 DEF Counts, Answers
  <2> QED
    BY <2>5, <2>6, <2>8 DEF Covers
<1> QED
  BY <1>4, <1>5, <1>6, <1>7 DEF Figures

(* What raises an alert, and which alerts there are.                          *)
AllKinds ==
    {"chain", "epoch", "malware", "dlp", "deny", "downloads", "sensitive", "risk", "behavior",
     "critical behavior"}

LEMMA Raised ==
    ASSUME NEW all, NEW downloads, NEW sensitive, NEW kind
    PROVE  kind \in AlertKinds(all, downloads, sensitive) <=>
             \/ kind = "chain" /\ all.chain = "invalid"
             \/ kind = "epoch" /\ all.chain = "compromised"
             \/ kind = "malware" /\ all.totals.malwareBlocked # {}
             \/ kind = "dlp" /\ all.totals.dlpDetections # {}
             \/ kind = "deny" /\ all.denying # <<>>
             \/ kind = "downloads" /\ downloads >= ManyDownloads
             \/ kind = "sensitive" /\ sensitive > 0
             \/ kind = "risk" /\ "critical" \in Bands(all.risky)
             \/ kind = "behavior" /\ all.signals # <<>> /\ "critical" \notin Bands(all.signals)
             \/ kind = "critical behavior" /\ all.signals # <<>> /\ "critical" \in Bands(all.signals)
<1> DEFINE raised(test, k) == IF test THEN {k} ELSE {}
<1>1. \A test, k : kind \in raised(test, k) <=> test /\ kind = k
  OBVIOUS
<1>2. AlertKinds(all, downloads, sensitive) =
        raised(all.chain = "invalid", "chain")
         \cup raised(all.chain = "compromised", "epoch")
         \cup raised(all.totals.malwareBlocked # {}, "malware")
         \cup raised(all.totals.dlpDetections # {}, "dlp")
         \cup raised(all.denying # <<>>, "deny")
         \cup raised(downloads >= ManyDownloads, "downloads")
         \cup raised(sensitive > 0, "sensitive")
         \cup raised("critical" \in Bands(all.risky), "risk")
         \cup raised(all.signals # <<>>,
                IF "critical" \in Bands(all.signals) THEN "critical behavior" ELSE "behavior")
  BY Zenon DEF AlertKinds
<1>3. \A k : kind \in raised(all.chain = "invalid", k) <=> all.chain = "invalid" /\ kind = k
  OBVIOUS
<1> QED
  BY <1>2

(* The first rows of a list of which the scores fall.                          *)
LEMMA FirstRow ==
    ASSUME NEW X, NEW rows \in Seq(X), NEW n \in Nat \ {0}, rows # <<>>
    PROVE  FirstOf(rows, n) # <<>> /\ rows[1] \in Seqs!ToSet(FirstOf(rows, n))
<1> DEFINE m == Least(n, Len(rows))
<1>1. Len(rows) \in Nat \ {0}
  OBVIOUS
<1>2. m \in 1..Len(rows)
  BY <1>1 DEF Least
<1> HIDE DEF m
<1>3. Len(SubSeq(rows, 1, m)) = m /\ SubSeq(rows, 1, m)[1] = rows[1] /\ DOMAIN SubSeq(rows, 1, m) = 1..m
  BY <1>1, <1>2
<1>4. 1 \in 1..m /\ m # 0
  BY <1>1, <1>2
<1> QED
  BY <1>3, <1>4 DEF FirstOf, m, Seqs!ToSet

LEMMA FirstBand ==
    ASSUME NEW X, NEW rows \in Seq(X), \A i \in DOMAIN rows : rows[i].score \in Nat, Falls(rows),
           "critical" \in Bands(rows)
    PROVE  rows # <<>> /\ Band(rows[1].score) = "critical"
<1>1. PICK i \in DOMAIN rows : Band(rows[i].score) = "critical"
  BY DEF Bands
<1>2. i \in 1..Len(rows) /\ Len(rows) \in Nat /\ DOMAIN rows = 1..Len(rows)
  OBVIOUS
<1>3. rows[i].score >= 80 /\ rows[i].score \in Nat
  BY <1>1 DEF Band
<1>4. 1 \in DOMAIN rows /\ rows[1].score \in Nat
  BY <1>2
<1>5. rows[1].score >= rows[i].score
  BY <1>2, <1>3, <1>4 DEF Falls
<1>6. rows[1].score >= 80
  BY <1>3, <1>4, <1>5
<1> QED
  BY <1>2, <1>6 DEF Band

(* The grants of the access panel.                                             *)
LEMMA GrantsFacts ==
    ASSUME NEW t \in Nat, NEW l, EntryLog(l, t)
    PROVE  /\ SensitiveGrants(l) \in Seq(EventsBy(t))
           /\ OfKind(Events(l), {"download"}) = {} => Cardinality(OfKind(Events(l), {"download"})) = 0
<1> DEFINE window(kind) == Where(NewestFirst(OfKind(Events(l), {kind})), IsSensitive)
<1>1. ASSUME NEW kind PROVE window(kind) \in Seq(EventsBy(t))
  <2> DEFINE S == OfKind(Events(l), {kind})
             R == {p \in S \X S : Newer(p[1], p[2])}
  <2>1. S \in SUBSET EventsBy(t) /\ Distinct(S) /\ IsFiniteSet(S)
    <3>1. /\ Events(l) \subseteq EventsBy(t) /\ Distinct(Events(l)) /\ IsFiniteSet(Events(l))
      BY EventsOfLog
    <3>2. S \subseteq Events(l)
      BY DEF OfKind
    <3> QED
      BY <3>1, <3>2, FS_Subset DEF Distinct
  <2> HIDE DEF S
  <2>2. Orders(S, R)
    BY <2>1, EventOrders
  <2>3. NewestFirst(S) = Ranked(S, R)
    BY DEF NewestFirst
  <2> HIDE DEF R
  <2>4. NewestFirst(S) \in Seq(S)
    BY <2>1, <2>2, <2>3, RankedFacts
  <2> DEFINE rows == NewestFirst(S)
             T == {e \in Seqs!ToSet(rows) : IsSensitive(e)}
  <2>5. Where(rows, IsSensitive) = Only(rows, T)
    BY DEF Where
  <2>6. rows \in Seq(EventsBy(t))
    BY <2>1, <2>4
  <2>7. window(kind) = Where(rows, IsSensitive)
    BY DEF S
  <2> HIDE DEF T, rows, window
  <2>8. Only(rows, T) \in Seq(EventsBy(t))
    BY <2>6, OnlyFacts
  <2> QED
    BY <2>5, <2>7, <2>8
<1>2. SensitiveGrants(l) = window("download") \o window("preview")
  BY DEF SensitiveGrants
<1> HIDE DEF window
<1>3. SensitiveGrants(l) \in Seq(EventsBy(t))
  BY <1>1, <1>2
<1> QED
  BY <1>3, FS_EmptySet

(* Every alert but those of findings leads to a panel that shows its subject.  *)
LEMMA LedHolds ==
    SecurityInvariant =>
      Led({"chain", "epoch", "deny", "downloads", "sensitive", "risk", "behavior", "critical behavior"})
<1> SUFFICES ASSUME SecurityInvariant, NEW u \in Officers, NEW s \in page[u].shown,
                    NEW seen \in {SubSeq(log, 1, s.listed), log},
                    NEW kind \in AlertKinds(Summary(s), Cardinality(OfKind(Events(seen), {"download"})),
                                            Len(SensitiveGrants(seen))),
                    kind \notin {"malware", "dlp"}
             PROVE  Leads(kind, Summary(s), seen)
  BY DEF Led, SummariesShown
<1> DEFINE all == Summary(s)
           downloads == Cardinality(OfKind(Events(seen), {"download"}))
           grants == SensitiveGrants(seen)
<1>1. /\ time \in Nat /\ EntryLog(seen, time) /\ EntryLog(SubSeq(log, 1, s.listed), time)
      /\ all.denying = DenyActors(SubSeq(log, 1, s.listed), s.now)
      /\ all.risky = RiskyDocuments(SubSeq(log, 1, s.listed), s.now)
      /\ all.signals = BehaviorSignals(SubSeq(log, 1, s.listed), s.now)
  BY SummaryFacts
<1>2. all.denying \in Seq(Actors)
  BY <1>1, DenyActorsFacts
<1>3. all.risky \in Seq(RiskType) /\ Falls(all.risky) /\ \A i \in DOMAIN all.risky : all.risky[i].score \in Nat
  <2>1. all.risky \in Seq(RiskType) /\ Falls(all.risky)
    BY <1>1, RiskyFacts
  <2>2. \A rows \in Seq(RiskType) : \A i \in DOMAIN rows : rows[i] \in RiskType
    OBVIOUS
  <2>3. \A r \in RiskType : r.score \in Nat
    BY DEF RiskType
  <2> QED
    BY <2>1, <2>2, <2>3
<1>4. all.signals \in Seq(SignalType) /\ Falls(all.signals) /\ \A i \in DOMAIN all.signals : all.signals[i].score \in Nat
  <2>1. all.signals \in Seq(SignalType) /\ Falls(all.signals)
    BY <1>1, BehaviorFacts
  <2>2. \A rows \in Seq(SignalType) : \A i \in DOMAIN rows : rows[i] \in SignalType
    OBVIOUS
  <2>3. \A r \in SignalType : r.score \in Nat
    BY DEF SignalType
  <2> QED
    BY <2>1, <2>2, <2>3
<1>5. grants \in Seq(EventsBy(time)) /\ (OfKind(Events(seen), {"download"}) = {} => downloads = 0)
  BY <1>1, GrantsFacts
<1>6. FewRows \in Nat \ {0} /\ FewEvents \in Nat \ {0}
  BY ViewsAssumption
<1>7. kind \in AlertKinds(all, downloads, Len(grants))
  OBVIOUS
<1> HIDE DEF all, downloads, grants
<1>15. \/ kind = "chain" /\ all.chain = "invalid"
       \/ kind = "epoch" /\ all.chain = "compromised"
       \/ kind = "malware" \/ kind = "dlp"
       \/ kind = "deny" /\ all.denying # <<>>
       \/ kind = "downloads" /\ downloads >= ManyDownloads
       \/ kind = "sensitive" /\ Len(grants) > 0
       \/ kind = "risk" /\ "critical" \in Bands(all.risky)
       \/ kind = "behavior" /\ all.signals # <<>>
       \/ kind = "critical behavior" /\ all.signals # <<>> /\ "critical" \in Bands(all.signals)
  BY <1>7, Raised
<1>8. CASE kind \in {"chain", "epoch"}
  <2>1. all.chain # "valid"
    BY <1>8, <1>15
  <2> QED
    BY <1>8, <2>1 DEF Leads, PosturePanel, all
<1>9. CASE kind = "deny"
  <2>1. all.denying # <<>>
    BY <1>9, <1>15
  <2>2. ActorsPanel(all) # <<>>
    BY <1>2, <1>6, <2>1, FirstRow DEF ActorsPanel
  <2> QED
    BY <1>9, <2>2 DEF Leads, all
<1>10. CASE kind = "downloads"
  <2>1. downloads >= ManyDownloads /\ ManyDownloads \in Nat \ {0}
    BY <1>10, <1>15, DashboardAssumption
  <2>2. OfKind(Events(seen), {"download"}) # {}
    BY <1>5, <2>1
  <2> QED
    BY <1>10, <2>2 DEF Leads
<1>11. CASE kind = "sensitive"
  <2>1. Len(grants) > 0
    BY <1>11, <1>15
  <2>2. FirstOf(grants, FewEvents) # <<>>
    BY <1>5, <1>6, <2>1, FirstRow
  <2> QED
    BY <1>11, <2>2 DEF Leads, AccessPanel, grants
<1>12. CASE kind = "risk"
  <2>1. "critical" \in Bands(all.risky)
    BY <1>12, <1>15
  <2>2. all.risky # <<>> /\ Band(all.risky[1].score) = "critical"
    BY <1>3, <2>1, FirstBand
  <2>3. all.risky[1] \in Seqs!ToSet(RiskPanel(all))
    BY <1>3, <1>6, <2>2, FirstRow DEF RiskPanel
  <2> QED
    BY <1>12, <2>2, <2>3 DEF Leads, all
<1>13. CASE kind \in {"behavior", "critical behavior"}
  <2>1. all.signals # <<>>
    BY <1>13, <1>15
  <2>2. AnomalyPanel(all) # <<>> /\ all.signals[1] \in Seqs!ToSet(AnomalyPanel(all))
    BY <1>4, <1>6, <2>1, FirstRow DEF AnomalyPanel
  <2>3. CASE kind = "behavior"
    BY <2>2, <2>3 DEF Leads, all
  <2>4. CASE kind = "critical behavior"
    <3>1. "critical" \in Bands(all.signals)
      BY <2>4, <1>15
    <3>2. Band(all.signals[1].score) = "critical"
      BY <1>4, <3>1, FirstBand
    <3> QED
      BY <2>2, <2>4, <3>2 DEF Leads, all
  <2> QED
    BY <1>13, <2>3, <2>4
<1>14. kind \in {"chain", "epoch", "deny", "downloads", "sensitive", "risk", "behavior", "critical behavior"}
  BY <1>15
<1> QED
  BY <1>8, <1>9, <1>10, <1>11, <1>12, <1>13, <1>14

(* Whatever a panel counts can be looked at, and every alert leads somewhere:  *)
(* the links of the counters, the rows and the recommendations show at least   *)
(* the events behind the number, although the counters, the lists and the      *)
(* query read the log at three moments; a panel an alert leads to shows a row  *)
(* it is about; and a window loaded while the log grows lacks no grant that    *)
(* was there when it was asked for.                                            *)
THEOREM DrillDownCoversHolds == SecuritySpec => []DrillDownCovers
<1>1. SecurityInvariant => DrillDownCovers
  BY LinksHold, LedHolds, WindowsHold DEF DrillDownCovers
<1> QED
  BY <1>1, SecurityHolds, PTL

-----------------------------------------------------------------------------
(* The rows of a list that pass a test. *)
LEMMA SomeOf ==
    ASSUME NEW X, NEW rows \in Seq(X), NEW S
    PROVE  /\ Len(Only(rows, S)) \in Nat
           /\ Len(Only(rows, S)) > 0 <=> \E i \in DOMAIN rows : rows[i] \in S
<1> DEFINE some == Only(rows, S)
<1>1. some \in Seq(X) /\ Seqs!ToSet(some) = Seqs!ToSet(rows) \cap S
  BY OnlyFacts
<1>2. /\ Seqs!ToSet(some) = {some[i] : i \in DOMAIN some}
      /\ Seqs!ToSet(rows) = {rows[i] : i \in DOMAIN rows}
  BY DEF Seqs!ToSet
<1> HIDE DEF some
<1>3. Len(some) \in Nat /\ DOMAIN some = 1..Len(some)
  BY <1>1
<1>4. Len(some) > 0 <=> \E x : x \in Seqs!ToSet(some)
  <2>1. Len(some) > 0 => 1 \in DOMAIN some
    BY <1>3
  <2>2. (\E i : i \in DOMAIN some) => Len(some) > 0
    BY <1>3
  <2> QED
    BY <1>2, <2>1, <2>2
<1> QED
  BY <1>1, <1>2, <1>3, <1>4 DEF some

LEMMA InBandFacts ==
    ASSUME NEW X, NEW rows \in Seq(X), NEW band
    PROVE  Len(InBand(rows, band)) \in Nat /\ (Len(InBand(rows, band)) > 0 <=> band \in Bands(rows))
<1> DEFINE S == {r \in Seqs!ToSet(rows) : Band(r.score) = band}
<1>1. InBand(rows, band) = Only(rows, S)
  BY DEF InBand, Where
<1>2. \A i \in DOMAIN rows : rows[i] \in S <=> Band(rows[i].score) = band
  BY DEF Seqs!ToSet
<1> HIDE DEF S
<1>3. Len(Only(rows, S)) \in Nat /\ (Len(Only(rows, S)) > 0 <=> \E i \in DOMAIN rows : rows[i] \in S)
  BY SomeOf
<1>4. band \in Bands(rows) <=> \E i \in DOMAIN rows : Band(rows[i].score) = band
  BY DEF Bands
<1> QED
  BY <1>1, <1>2, <1>3, <1>4

(* Where findings lead. *)
LEMMA ScoreRoutes ==
    ASSUME NEW i \in Nat, NEW c \in Nat, NEW a \in Nat, NEW x \in Nat, NEW e \in Nat
    PROVE  Route(Score(i, c, a, x, e)) = "CASE" <=> i >= 3 /\ c >= 2 /\ a >= 2 /\ x >= 2 /\ e >= 3
<1> DEFINE s == Score(i, c, a, x, e)
<1>1. s.impact = i /\ s.confidence = c /\ s.actionability = a /\ s.exposure = x /\ s.evidence = e
  BY DEF Score
<1> HIDE DEF s
<1> QED
  BY <1>1 DEF Route, s

LEMMA AlertRoutes == \A k \in AllKinds : Route(AlertScore(k)) = "CASE" <=> k \in Severe
<1>1. /\ AlertScore("chain") = Score(3, 3, 3, 3, 3)
      /\ AlertScore("critical behavior") = Score(3, 2, 2, 3, 3)
      /\ AlertScore("epoch") = Score(2, 3, 2, 2, 3)
      /\ AlertScore("malware") = Score(2, 3, 2, 1, 2)
      /\ AlertScore("dlp") = Score(2, 2, 2, 1, 2)
      /\ AlertScore("deny") = Score(2, 2, 2, 2, 2)
      /\ AlertScore("sensitive") = Score(2, 2, 2, 2, 2)
      /\ AlertScore("risk") = Score(2, 2, 2, 2, 2)
      /\ AlertScore("behavior") = Score(2, 2, 2, 2, 2)
      /\ AlertScore("downloads") = Score(1, 2, 1, 1, 1)
  BY DEF AlertScore
<1>2. /\ Route(AlertScore("chain")) = "CASE" /\ Route(AlertScore("critical behavior")) = "CASE"
      /\ \A k \in AllKinds \ Severe : Route(AlertScore(k)) # "CASE"
  <2>1. Route(Score(3, 3, 3, 3, 3)) = "CASE" /\ Route(Score(3, 2, 2, 3, 3)) = "CASE"
    BY ScoreRoutes
  <2>2. /\ Route(Score(2, 3, 2, 2, 3)) # "CASE" /\ Route(Score(2, 3, 2, 1, 2)) # "CASE"
        /\ Route(Score(2, 2, 2, 1, 2)) # "CASE" /\ Route(Score(2, 2, 2, 2, 2)) # "CASE"
        /\ Route(Score(1, 2, 1, 1, 1)) # "CASE"
    BY ScoreRoutes
  <2>3. AllKinds \ Severe = {"epoch", "malware", "dlp", "deny", "sensitive", "risk", "behavior", "downloads"}
    BY DEF AllKinds, Severe
  <2> QED
    BY <1>1, <2>1, <2>2, <2>3
<1> QED
  BY <1>2 DEF Severe

LEMMA RecRoutes ==
    \A r \in RowType : r.id.kind # "document" =>
        (RecRoute(r) = "CASE" <=> r.id.kind = "chain" \/ (r.id.kind \in ActorKinds /\ r.severity = "critical"))
<1> SUFFICES ASSUME NEW r \in RowType, r.id.kind # "document"
             PROVE  RecRoute(r) = "CASE" <=> r.id.kind = "chain" \/ (r.id.kind \in ActorKinds /\ r.severity = "critical")
  OBVIOUS
<1>1. r.id.kind \in RecKinds
  BY DEF RowType, RecIds
<1>2. CASE r.id.kind = "chain"
  <2>1. RecScore(r) = Score(3, 3, 3, 3, 3)
    BY <1>2 DEF RecScore, ActorKinds
  <2> QED
    BY <1>2, <2>1, ScoreRoutes DEF RecRoute
<1>3. CASE r.id.kind \in ActorKinds
  <2>1. RecScore(r) = IF r.severity = "critical" THEN Score(3, 2, 2, 3, 3) ELSE Score(2, 2, 2, 3, 2)
    BY <1>3 DEF RecScore, ActorKinds, ActorScore
  <2>2. RecRoute(r) = "CASE" <=> r.severity = "critical"
    BY <2>1, ScoreRoutes DEF RecRoute
  <2> QED
    BY <1>3, <2>2 DEF ActorKinds
<1>4. CASE r.id.kind \in {"dlp", "malware"}
  <2>1. RecScore(r) = Score(2, 2, 2, 1, 2) \/ RecScore(r) = Score(2, 3, 2, 1, 2)
    BY <1>4 DEF RecScore, ActorKinds
  <2>2. RecRoute(r) # "CASE"
    BY <2>1, ScoreRoutes DEF RecRoute
  <2> QED
    BY <1>4, <2>2 DEF ActorKinds
<1> QED
  BY <1>1, <1>2, <1>3, <1>4 DEF RecKinds, ActorKinds

(* The alerts of a summary. *)
AlertOf(k) == [kind |-> k, severity |-> IF k \in Severe THEN "critical" ELSE "warning", route |-> Route(AlertScore(k))]

LEMMA AlertsFacts ==
    ASSUME NEW all, NEW kinds, kinds = AlertKinds(all, 0, 0)
    PROVE  LET alerts == Alerts(all, 0, 0)
           IN /\ alerts = {AlertOf(k) : k \in kinds} /\ kinds \subseteq AllKinds /\ IsFiniteSet(alerts)
              /\ \A a \in alerts : a.kind \in kinds /\ a = AlertOf(a.kind)
              /\ Posture(alerts) = "critical" <=> kinds \cap Severe # {}
              /\ Posture(alerts) = "healthy" <=> alerts = {}
              /\ (\E a \in alerts : a.route = "CASE") <=> kinds \cap Severe # {}
              /\ {a \in alerts : a.severity = "critical"} = {AlertOf(k) : k \in kinds \cap Severe}
<1> DEFINE alerts == Alerts(all, 0, 0)
<1>1. alerts = {AlertOf(k) : k \in kinds}
  BY DEF Alerts, AlertOf
<1>2. kinds \subseteq AllKinds
  <2> SUFFICES ASSUME NEW k \in kinds PROVE k \in AllKinds
    OBVIOUS
  <2> QED
    <3>1. k \in AlertKinds(all, 0, 0)
      OBVIOUS
    <3> QED
      BY <3>1, Raised DEF AllKinds
<1>3. IsFiniteSet(alerts)
  <2>1. IsFiniteSet(AllKinds)
    <3> DEFINE add(S, k) == S \cup {k}
    <3>1. \A S, k : IsFiniteSet(S) => IsFiniteSet(add(S, k))
      BY FS_AddElement
    <3>2. AllKinds = add(add(add(add(add(add(add(add(add(add({}, "chain"), "epoch"), "malware"), "dlp"), "deny"),
                       "downloads"), "sensitive"), "risk"), "behavior"), "critical behavior")
      BY DEF AllKinds
    <3> HIDE DEF add
    <3> QED
      BY <3>1, <3>2, FS_EmptySet
  <2>2. IsFiniteSet(kinds)
    BY <1>2, <2>1, FS_Subset
  <2> DEFINE f == [k \in kinds |-> AlertOf(k)]
  <2>3. f \in Surjection(kinds, alerts)
    BY <1>1 DEF Surjection
  <2> QED
    BY <2>2, <2>3, FS_Surjection
<1> HIDE DEF alerts
<1>4. \A k : /\ AlertOf(k).kind = k /\ (AlertOf(k).severity = "critical" <=> k \in Severe)
             /\ AlertOf(k).route = Route(AlertScore(k))
  BY DEF AlertOf
<1>5. \A k \in kinds : AlertOf(k).route = "CASE" <=> k \in Severe
  BY <1>2, <1>4, AlertRoutes
<1>6. \A a \in alerts : a.kind \in kinds /\ a = AlertOf(a.kind)
  BY <1>1, <1>4
<1>7. (\E a \in alerts : a.severity = "critical") <=> kinds \cap Severe # {}
  BY <1>1, <1>4
<1>8. /\ Posture(alerts) = "critical" <=> \E a \in alerts : a.severity = "critical"
      /\ Posture(alerts) = "healthy" <=> alerts = {}
  BY DEF Posture
<1>9. (\E a \in alerts : a.route = "CASE") <=> kinds \cap Severe # {}
  BY <1>1, <1>5
<1>10. {a \in alerts : a.severity = "critical"} = {AlertOf(k) : k \in kinds \cap Severe}
  BY <1>1, <1>4
<1> QED
  BY <1>1, <1>2, <1>3, <1>6, <1>7, <1>8, <1>9, <1>10 DEF alerts

(* How many alerts are critical. *)
LEMMA CriticalAlerts ==
    ASSUME NEW all, NEW kinds, kinds = AlertKinds(all, 0, 0)
    PROVE  AlertSegments(Alerts(all, 0, 0))["critical"] =
             (IF "chain" \in kinds THEN 1 ELSE 0) + (IF "critical behavior" \in kinds THEN 1 ELSE 0)
<1> DEFINE one == AlertOf("chain")
           two == AlertOf("critical behavior")
           C == {AlertOf(k) : k \in kinds \cap Severe}
<1>1. AlertSegments(Alerts(all, 0, 0))["critical"] = Cardinality(C)
  <2>1. {a \in Alerts(all, 0, 0) : a.severity = "critical"} = C
    BY AlertsFacts
  <2> QED
    BY <2>1 DEF AlertSegments
<1>2. one # two
  BY DEF AlertOf
<1>3. Severe = {"chain", "critical behavior"}
  BY DEF Severe
<1>4. C = (IF "chain" \in kinds THEN {one} ELSE {}) \cup (IF "critical behavior" \in kinds THEN {two} ELSE {})
  BY <1>3
<1> HIDE DEF one, two, C
<1>5. /\ Cardinality({}) = 0 /\ Cardinality({one}) = 1 /\ Cardinality({two}) = 1
      /\ Cardinality({one} \cup {two}) = 2
  <2>1. Cardinality({}) = 0 /\ Cardinality({one}) = 1 /\ Cardinality({two}) = 1 /\ IsFiniteSet({one})
    BY FS_EmptySet, FS_Singleton
  <2>2. Cardinality({one} \cup {two}) = Cardinality({one}) + 1
    BY <1>2, <2>1, FS_AddElement
  <2> QED
    BY <2>1, <2>2
<1>6. /\ "chain" \in kinds /\ "critical behavior" \in kinds => C = {one} \cup {two}
      /\ "chain" \in kinds /\ "critical behavior" \notin kinds => C = {one}
      /\ "chain" \notin kinds /\ "critical behavior" \in kinds => C = {two}
      /\ "chain" \notin kinds /\ "critical behavior" \notin kinds => C = {}
  BY <1>4
<1>7. /\ "chain" \in kinds /\ "critical behavior" \in kinds => Cardinality(C) = 2
      /\ "chain" \in kinds /\ "critical behavior" \notin kinds => Cardinality(C) = 1
      /\ "chain" \notin kinds /\ "critical behavior" \in kinds => Cardinality(C) = 1
      /\ "chain" \notin kinds /\ "critical behavior" \notin kinds => Cardinality(C) = 0
  BY <1>5, <1>6, Zenon
<1> DEFINE n == Cardinality(C)
           has == "chain" \in kinds
           also == "critical behavior" \in kinds
<1>8. /\ has /\ also => n = 2
      /\ has /\ ~also => n = 1
      /\ ~has /\ also => n = 1
      /\ ~has /\ ~also => n = 0
  BY <1>7
<1> HIDE DEF n, has, also
<1>9. n = (IF has THEN 1 ELSE 0) + (IF also THEN 1 ELSE 0)
  BY <1>8
<1> QED
  BY <1>1, <1>9 DEF n, has, also

(* What is behind a critical posture. *)
SevereFinding(all) == all.chain = "invalid" \/ "critical" \in Bands(all.signals)

LEMMA SevereFacts ==
    ASSUME NEW X, NEW all, all.signals \in Seq(X)
    PROVE  LET kinds == AlertKinds(all, 0, 0)
           IN /\ "chain" \in kinds <=> all.chain = "invalid"
              /\ "critical behavior" \in kinds <=> "critical" \in Bands(all.signals)
              /\ "risk" \in kinds <=> "critical" \in Bands(all.risky)
              /\ kinds \cap Severe # {} <=> SevereFinding(all)
<1> DEFINE kinds == AlertKinds(all, 0, 0)
<1>1. "critical" \in Bands(all.signals) => all.signals # <<>>
  <2> SUFFICES ASSUME "critical" \in Bands(all.signals) PROVE all.signals # <<>>
    OBVIOUS
  <2>1. PICK i \in DOMAIN all.signals : TRUE
    BY DEF Bands
  <2>2. DOMAIN all.signals = 1..Len(all.signals) /\ Len(all.signals) \in Nat
    OBVIOUS
  <2>3. Len(all.signals) # 0
    BY <2>1, <2>2
  <2> QED
    BY <2>3
<1>2. ASSUME NEW kind PROVE kind = "chain" => (kind \in kinds <=> all.chain = "invalid")
  BY Raised
<1>3. ASSUME NEW kind
      PROVE  kind = "critical behavior" =>
                (kind \in kinds <=> all.signals # <<>> /\ "critical" \in Bands(all.signals))
  BY Raised
<1>4. ASSUME NEW kind PROVE kind = "risk" => (kind \in kinds <=> "critical" \in Bands(all.risky))
  BY Raised
<1> HIDE DEF kinds
<1>5. kinds \cap Severe # {} <=> "chain" \in kinds \/ "critical behavior" \in kinds
  BY DEF Severe
<1> QED
  BY <1>1, <1>2, <1>3, <1>4, <1>5 DEF SevereFinding, kinds

(* The gauge says the same as the posture. *)
LEMMA GaugeFacts ==
    ASSUME NEW all
    PROVE  LET alerts == Alerts(all, 0, 0)
               gauge == Gauge(Posture(alerts), alerts)
           IN /\ gauge = 100 <=> Posture(alerts) = "healthy"
              /\ Posture(alerts) = "critical" => gauge <= 65
<1> DEFINE alerts == Alerts(all, 0, 0)
           level == Posture(alerts)
           n(severity) == Cardinality({a \in alerts : a.severity = severity})
           raw == 100 - 25 * n("critical") - 8 * n("warning") - 3 * n("info")
           cap == IF level = "critical" THEN 65 ELSE IF level = "warning" THEN 84 ELSE 100
<1>1. IsFiniteSet(alerts) /\ (level = "healthy" <=> alerts = {})
  BY AlertsFacts
<1>2. level \in {"critical", "warning", "healthy"}
  BY DEF Posture
<1>3. \A severity : n(severity) \in Nat /\ (alerts = {} => n(severity) = 0)
  <2> SUFFICES ASSUME NEW severity PROVE n(severity) \in Nat /\ (alerts = {} => n(severity) = 0)
    OBVIOUS
  <2> DEFINE S == {a \in alerts : a.severity = severity}
  <2>1. IsFiniteSet(S) /\ (alerts = {} => S = {})
    BY <1>1, FS_Subset
  <2> HIDE DEF S
  <2>2. Cardinality(S) \in Nat /\ (S = {} => Cardinality(S) = 0)
    BY <2>1, FS_CardinalityType, FS_EmptySet
  <2> QED
    BY <2>1, <2>2 DEF S
<1>4. Gauge(level, alerts) = Most(0, Least(cap, raw))
  <2>1. /\ AlertSegments(alerts)["critical"] = n("critical") /\ AlertSegments(alerts)["warning"] = n("warning")
        /\ AlertSegments(alerts)["info"] = n("info")
    BY DEF AlertSegments
  <2> HIDE DEF alerts, level, n
  <2> QED
    BY <1>2, <2>1 DEF Gauge
<1> HIDE DEF alerts, level, n
<1>5. raw \in Int /\ cap \in {65, 84, 100} /\ (level = "healthy" => raw = 100)
  BY <1>1, <1>2, <1>3
<1>6. /\ Most(0, Least(cap, raw)) <= cap
      /\ raw = 100 /\ cap = 100 => Most(0, Least(cap, raw)) = 100
  <2> HIDE DEF raw, cap
  <2> QED
    BY <1>5 DEF Most, Least
<1>7. Gauge(level, alerts) <= cap /\ (level = "healthy" => Gauge(level, alerts) = 100)
  BY <1>4, <1>5, <1>6
<1>8. Gauge(level, alerts) = 100 => level = "healthy"
  BY <1>2, <1>7
<1>9. level = "critical" => Gauge(level, alerts) <= 65
  BY <1>7
<1> QED
  BY <1>7, <1>8, <1>9 DEF alerts, level

LEMMA ChartsHold ==
    ASSUME SecurityInvariant, NEW u \in Officers, NEW s \in page[u].shown
    PROVE  ChartsMatch(Summary(s), Alerts(Summary(s), 0, 0), CommandCenter(Summary(s), 0, 0, 0))
<1> DEFINE all == Summary(s)
           alerts == Alerts(all, 0, 0)
           center == CommandCenter(all, 0, 0, 0)
           kinds == AlertKinds(all, 0, 0)
<1>1. all.signals \in Seq(SignalType) /\ all.risky \in Seq(RiskType)
  <2>1. /\ time \in Nat /\ EntryLog(SubSeq(log, 1, s.listed), time)
        /\ all.risky = RiskyDocuments(SubSeq(log, 1, s.listed), s.now)
        /\ all.signals = BehaviorSignals(SubSeq(log, 1, s.listed), s.now)
    BY SummaryFacts
  <2> HIDE DEF all
  <2>2. BehaviorSignals(SubSeq(log, 1, s.listed), s.now) \in Seq(SignalType)
    BY <2>1, BehaviorFacts
  <2>3. RiskyDocuments(SubSeq(log, 1, s.listed), s.now) \in Seq(RiskType)
    BY <2>1, RiskyFacts
  <2> QED
    BY <2>1, <2>2, <2>3
<1> HIDE DEF all
<1>2. /\ center.gauge = Gauge(Posture(alerts), alerts)
      /\ center.alerts = AlertSegments(alerts)
      /\ center.risk["critical"].value = Len(InBand(all.risky, "critical"))
      /\ center.anomalies["critical"].value = Len(InBand(all.signals, "critical"))
  BY DEF CommandCenter, RiskBands, AnomalyBands, BandNames
<1>3. /\ center.gauge = 100 <=> Posture(alerts) = "healthy"
      /\ Posture(alerts) = "critical" => center.gauge <= 65
  BY <1>2, GaugeFacts
<1>4. /\ "chain" \in kinds <=> all.chain = "invalid"
      /\ "critical behavior" \in kinds <=> "critical" \in Bands(all.signals)
      /\ "risk" \in kinds <=> "critical" \in Bands(all.risky)
  BY <1>1, SevereFacts
<1>5. AlertSegments(alerts)["critical"] =
        (IF "chain" \in kinds THEN 1 ELSE 0) + (IF "critical behavior" \in kinds THEN 1 ELSE 0)
  BY CriticalAlerts
<1>6. /\ Len(InBand(all.signals, "critical")) > 0 <=> "critical" \in Bands(all.signals)
      /\ Len(InBand(all.risky, "critical")) > 0 <=> "critical" \in Bands(all.risky)
  BY <1>1, InBandFacts
<1>7. "risk" \in kinds <=> \E a \in alerts : a.kind = "risk"
  <2>1. alerts = {AlertOf(k) : k \in kinds} /\ (\A a \in alerts : a.kind \in kinds)
    BY AlertsFacts
  <2>2. AlertOf("risk").kind = "risk"
    BY DEF AlertOf
  <2> QED
    BY <2>1, <2>2
<1> HIDE DEF alerts, center, kinds
<1>8. center.alerts["critical"] = (IF all.chain = "invalid" THEN 1 ELSE 0)
                                    + (IF center.anomalies["critical"].value > 0 THEN 1 ELSE 0)
  BY <1>2, <1>4, <1>5, <1>6
<1>9. ChartsMatch(all, alerts, center)
  BY <1>2, <1>3, <1>4, <1>6, <1>7, <1>8 DEF ChartsMatch
<1> QED
  BY <1>9 DEF all, alerts, center

(* The queue has a case about the chain or an actor exactly when there is a    *)
(* severe finding.                                                             *)
HasCase(recs) == \E r \in Seqs!ToSet(recs) : RecRoute(r) = "CASE" /\ r.id.kind # "document"

LEMMA CasesHold ==
    ASSUME SecurityInvariant, NEW u \in Officers, NEW s \in page[u].shown, Len(Summary(s).recs) < MaxRecs
    PROVE  HasCase(Summary(s).recs) <=> SevereFinding(Summary(s))
<1> DEFINE all == Summary(s)
           counted == SubSeq(log, 1, s.counted)
           listed == SubSeq(log, 1, s.listed)
           recs == Recommendations(s.chain, counted, listed, s.now)
           signals == BehaviorSignals(listed, s.now)
           rows == RecsOf(s)
           high == \E k \in DOMAIN signals : signals[k].score >= 80
<1>1. /\ ReadOf(s) /\ time \in Nat /\ EntryLog(log, time) /\ all.chain = s.chain /\ all.recs = rows
      /\ rows \in Seq(RowType) /\ all.signals = signals /\ EntryLog(counted, time) /\ EntryLog(listed, time)
  BY SummaryFacts
<1>2. /\ Len(rows) = Len(recs) /\ recs \in Seq(RecType)
      /\ \A i \in DOMAIN recs : rows[i].id = recs[i].id /\ rows[i].severity = recs[i].severity
  BY <1>1, RecsOfFacts
<1>3. Agree(recs, signals, s.chain)
  BY <1>1, RecommendationsFacts
<1>4. Len(rows) < MaxRecs
  BY <1>1
<1>5. signals \in Seq(SignalType)
  BY <1>1, BehaviorFacts
<1> HIDE DEF all, counted, listed, recs, rows, signals
<1>6. high <=> "critical" \in Bands(signals)
  <2>1. \A k \in DOMAIN signals : signals[k] \in SignalType
    BY <1>5
  <2>2. \A x \in SignalType : x.score \in Nat
    BY DEF SignalType
  <2>3. \A n \in Nat : Band(n) = "critical" <=> n >= 80
    BY DEF Band
  <2>4. \A k \in DOMAIN signals : Band(signals[k].score) = "critical" <=> signals[k].score >= 80
    BY <2>1, <2>2, <2>3
  <2> QED
    BY <2>4 DEF Bands
<1>7. SevereFinding(all) <=> s.chain = "invalid" \/ high
  BY <1>1, <1>6 DEF SevereFinding
<1> HIDE DEF high
<1>8. DOMAIN rows = DOMAIN recs /\ DOMAIN recs = 1..Len(recs)
  BY <1>1, <1>2
<1>9. \A i \in DOMAIN recs :
         /\ rows[i] \in Seqs!ToSet(rows) /\ recs[i] \in Seqs!ToSet(recs) /\ rows[i] \in RowType
         /\ rows[i].id = recs[i].id /\ rows[i].severity = recs[i].severity
  BY <1>1, <1>2, <1>8 DEF Seqs!ToSet
<1>10. ActorKinds = SignalKinds \cup {"deny"} /\ "document" \notin ActorKinds
  BY DEF ActorKinds, SignalKinds
<1>11. ASSUME HasCase(rows) PROVE SevereFinding(all)
  <2>1. PICK r \in Seqs!ToSet(rows) : RecRoute(r) = "CASE" /\ r.id.kind # "document"
    BY <1>11 DEF HasCase
  <2>2. PICK i \in DOMAIN recs : r = rows[i]
    BY <1>8, <2>1 DEF Seqs!ToSet
  <2>3. r.id.kind = "chain" \/ (r.id.kind \in ActorKinds /\ r.severity = "critical")
    BY <1>9, <2>1, <2>2, RecRoutes
  <2>4. recs[i].id.kind = "chain" \/ (recs[i].id.kind \in ActorKinds /\ recs[i].severity = "critical")
    BY <1>9, <2>2, <2>3
  <2> QED
    BY <1>3, <1>7, <1>9, <1>10, <2>4 DEF Agree, high
<1>12. ASSUME SevereFinding(all) PROVE HasCase(rows)
  <2>1. \E r \in Seqs!ToSet(recs) : r.id.kind = "chain" \/ (r.id.kind \in SignalKinds /\ r.severity = "critical")
    BY <1>2, <1>3, <1>4, <1>7, <1>12 DEF Agree, high
  <2>2. PICK i \in DOMAIN recs :
            recs[i].id.kind = "chain" \/ (recs[i].id.kind \in SignalKinds /\ recs[i].severity = "critical")
    BY <2>1 DEF Seqs!ToSet
  <2>3. rows[i].id.kind = "chain" \/ (rows[i].id.kind \in ActorKinds /\ rows[i].severity = "critical")
    BY <1>9, <1>10, <2>2
  <2>4. rows[i].id.kind # "document"
    BY <1>10, <2>3
  <2>5. RecRoute(rows[i]) = "CASE"
    BY <1>9, <2>3, <2>4, RecRoutes
  <2> QED
    BY <1>9, <2>4, <2>5 DEF HasCase
<1> QED
  BY <1>1, <1>11, <1>12 DEF all

(* A case of the queue and the alert that goes with it are both counted.       *)
LEMMA TwoCases ==
    ASSUME NEW all, all.recs \in Seq(RowType), HasCase(all.recs),
           \E a \in Alerts(all, 0, 0) : a.route = "CASE"
    PROVE  CommandCenter(all, 0, 0, 0).routes["CASE"] >= 2
<1> DEFINE alerts == Alerts(all, 0, 0)
           A == {a \in alerts : a.route = "CASE"}
           rows == Rows(all)
           S == {r \in Seqs!ToSet(rows) : RecRoute(r) = "CASE"}
<1>1. CommandCenter(all, 0, 0, 0).routes["CASE"] = Cardinality(A) + Len(Only(rows, S))
  BY DEF CommandCenter, RouteCounts, Where
<1>2. Cardinality(A) \in Nat \ {0}
  <2>1. IsFiniteSet(alerts)
    BY AlertsFacts
  <2>2. A # {} /\ A \subseteq alerts
    OBVIOUS
  <2> HIDE DEF A, alerts
  <2>3. IsFiniteSet(A)
    BY <2>1, <2>2, FS_Subset
  <2> QED
    BY <2>2, <2>3, FS_CardinalityType, FS_EmptySet
<1>3. rows \in Seq(RowType) /\ Seqs!ToSet(rows) = Seqs!ToSet(all.recs)
  BY RowsFacts
<1>4. \E i \in DOMAIN rows : rows[i] \in S
  <2>1. PICK r \in Seqs!ToSet(all.recs) : RecRoute(r) = "CASE"
    BY DEF HasCase
  <2>2. r \in S
    BY <1>3, <2>1
  <2> QED
    BY <2>2 DEF Seqs!ToSet
<1> HIDE DEF A, rows, S
<1>5. Len(Only(rows, S)) \in Nat /\ Len(Only(rows, S)) > 0
  BY <1>3, <1>4, SomeOf
<1> QED
  BY <1>1, <1>2, <1>5

(* While the gauge of the evidence center is green, nothing blocks a case.     *)
LEMMA GreenHolds ==
    ASSUME NEW all, NEW t \in Retentions, NEW ids, Green(Readiness(all, t))
    PROVE  Blockers(Bundle(Rows(all), all.chain, t, ids, t.docs)) = {}
<1> DEFINE cards == Cards(all, t)
           a == StateScore[cards.chain]
           b == StateScore[cards.recommendations]
           c == StateScore[cards.retention]
           d == StateScore[cards.documents]
<1>1. /\ cards.chain = IF all.chain = "invalid" THEN "attention" ELSE "ready"
      /\ cards.recommendations = IF all.recs # <<>> THEN "attention" ELSE "empty"
      /\ cards.retention = IF t.dueSoon > 0 \/ t.overdue > 0 THEN "attention"
                           ELSE IF t.docs # {} THEN "ready" ELSE "empty"
      /\ cards.documents = IF t.docs # {} THEN "ready" ELSE "empty"
  BY DEF Cards
<1>2. StateScore["ready"] = 100 /\ StateScore["attention"] = 50 /\ StateScore["empty"] = 0
  BY DEF StateScore
<1>3. /\ a = IF all.chain = "invalid" THEN 50 ELSE 100
      /\ b \in {0, 50} /\ c \in {0, 50, 100} /\ d \in {0, 100}
      /\ t.overdue > 0 => c = 50
  BY <1>1, <1>2
<1>4. (a + b + c + d) \div 4 >= 80
  BY DEF Green, Readiness
<1> HIDE DEF cards, a, b, c, d
<1>5. a + b + c + d \in Nat
  BY <1>3
<1>6. a + b + c + d >= 320
  <2>1. \A n \in Nat : n \div 4 >= 80 => n >= 320
    OBVIOUS
  <2> QED
    BY <1>4, <1>5, <2>1
<1>7. all.chain # "invalid" /\ ~(t.overdue > 0)
  BY <1>3, <1>6
<1>8. RetentionPosture(t) # "blocked"
  BY <1>7 DEF RetentionPosture
<1> QED
  BY <1>7, <1>8 DEF Blockers, Bundle

(* The posture, the routes and the gauges agree: the posture is critical, and  *)
(* an alert is routed as a case, exactly when the queue has a case about the   *)
(* chain or an actor, although the thresholds and the routes are written down  *)
(* twice; and a green gauge of the evidence center goes with an unblocked case.*)
THEOREM CasesMatchPostureHolds == SecuritySpec => []CasesMatchPosture
<1>1. SecurityInvariant => CasesMatchPosture
  <2> SUFFICES ASSUME SecurityInvariant, NEW u \in Officers, NEW s \in page[u].shown
               PROVE  LET all == Summary(s)
                          alerts == Alerts(all, 0, 0)
                          center == CommandCenter(all, 0, 0, 0)
                      IN /\ ChartsMatch(all, alerts, center)
                         /\ Len(all.recs) < MaxRecs =>
                              /\ Posture(alerts) = "critical" <=> HasCase(all.recs)
                              /\ (\E a \in alerts : a.route = "CASE") <=> HasCase(all.recs)
                              /\ HasCase(all.recs) => center.routes["CASE"] >= 2
                         /\ \A t \in Retentions : Green(Readiness(all, t)) =>
                              Blockers(Bundle(Rows(all), all.chain, t, IdsOf(all.recs), t.docs)) = {}
    BY DEF CasesMatchPosture, Contents, SummariesShown, HasCase
  <2> DEFINE all == Summary(s)
             alerts == Alerts(all, 0, 0)
             center == CommandCenter(all, 0, 0, 0)
             kinds == AlertKinds(all, 0, 0)
  <2>1. ChartsMatch(all, alerts, center)
    BY ChartsHold
  <2>2. Len(all.recs) < MaxRecs => (HasCase(all.recs) <=> SevereFinding(all))
    BY CasesHold
  <2>3. /\ time \in Nat /\ EntryLog(SubSeq(log, 1, s.listed), time) /\ all.recs \in Seq(RowType)
        /\ all.signals = BehaviorSignals(SubSeq(log, 1, s.listed), s.now)
    BY SummaryFacts
  <2> HIDE DEF all
  <2>4. all.signals \in Seq(SignalType)
    BY <2>3, BehaviorFacts
  <2>5. kinds \cap Severe # {} <=> SevereFinding(all)
    BY <2>4, SevereFacts
  <2>6. /\ Posture(alerts) = "critical" <=> kinds \cap Severe # {}
        /\ (\E a \in alerts : a.route = "CASE") <=> kinds \cap Severe # {}
    BY AlertsFacts
  <2>7. HasCase(all.recs) /\ (\E a \in alerts : a.route = "CASE") => center.routes["CASE"] >= 2
    BY <2>3, TwoCases
  <2>8. \A t \in Retentions : Green(Readiness(all, t)) =>
            Blockers(Bundle(Rows(all), all.chain, t, IdsOf(all.recs), t.docs)) = {}
    BY GreenHolds
  <2> QED
    BY <2>1, <2>2, <2>5, <2>6, <2>7, <2>8 DEF all
<1> QED
  BY <1>1, SecurityHolds, PTL

-----------------------------------------------------------------------------
(* There are finitely many recommendations.                                    *)
LEMMA RecIdsFinite == IsFiniteSet(RecIds)
<1> DEFINE of == Actors \cup Docs \cup {"all"}
           pairs == RecKinds \X of
           f == [p \in pairs |-> [kind |-> p[1], of |-> p[2]]]
<1>1. IsFiniteSet(of)
  BY AnalysisAssumption, FS_Union, FS_Singleton
<1>2. IsFiniteSet(RecKinds)
  <2> DEFINE add(S, k) == S \cup {k}
  <2>1. \A S, k : IsFiniteSet(S) => IsFiniteSet(add(S, k))
    BY FS_AddElement
  <2>2. RecKinds = add(add(add(add(add(add(add(add({}, "chain"), "document"), "MASS"), "BURST"), "DESTRUCTIVE"), "deny"),
                     "dlp"), "malware")
    BY DEF RecKinds
  <2> HIDE DEF add
  <2> QED
    BY <2>1, <2>2, FS_EmptySet
<1> HIDE DEF of
<1>3. IsFiniteSet(pairs)
  BY <1>1, <1>2, FS_Product
<1>4. f \in Surjection(pairs, RecIds)
  <2>1. \A p \in pairs : f[p] \in RecIds
    BY DEF RecIds, of
  <2>2. ASSUME NEW id \in RecIds PROVE \E p \in pairs : f[p] = id
    <3>1. id.kind \in RecKinds /\ id.of \in of /\ id = [kind |-> id.kind, of |-> id.of]
      BY DEF RecIds, of
    <3>2. <<id.kind, id.of>> \in pairs
      BY <3>1
    <3> QED
      BY <3>1, <3>2
  <2> QED
    BY <2>1, <2>2 DEF Surjection
<1> QED
  BY <1>3, <1>4, FS_Surjection

(* A set that has all of a finite one, by its size.                            *)
LEMMA WholeBySize ==
    ASSUME NEW S, NEW T, IsFiniteSet(S)
    PROVE  IsFiniteSet(S \cap T) /\ (Cardinality(S \cap T) = Cardinality(S) <=> S \subseteq T)
<1>1. S \cap T \subseteq S
  OBVIOUS
<1>2. IsFiniteSet(S \cap T) /\ (Cardinality(S \cap T) = Cardinality(S) => S \cap T = S)
  BY <1>1, FS_Subset
<1>3. S \subseteq T => S \cap T = S
  OBVIOUS
<1> QED
  BY <1>2, <1>3

LEMMA IdsFacts == \A rows : IdsOf(rows) = {r.id : r \in Seqs!ToSet(rows)}
BY DEF IdsOf, Seqs!ToSet

(* The packets of a bundle are those of the rows that were chosen.             *)
Picked(recs, rows, ids) ==
    /\ recs \in Seq(RowType) /\ IdsOf(recs) = ids \cap IdsOf(rows)
    /\ Len(recs) = Cardinality(ids \cap IdsOf(rows))
    /\ recs = <<>> <=> ids \cap IdsOf(rows) = {}

LEMMA BundleFacts ==
    ASSUME NEW rows \in Seq(RowType), OneEach(rows), NEW verdict, NEW t, NEW ids, NEW docs
    PROVE  Picked(Bundle(rows, verdict, t, ids, docs).recs, rows, ids)
<1> DEFINE S == {r \in Seqs!ToSet(rows) : r.id \in ids}
           recs == Only(rows, S)
           places == {i \in DOMAIN rows : rows[i] \in S}
           f == [i \in places |-> rows[i].id]
           chosen == ids \cap IdsOf(rows)
<1>1. Bundle(rows, verdict, t, ids, docs).recs = recs
  BY DEF Bundle, Where
<1>3. \A i \in DOMAIN rows : rows[i] \in S <=> rows[i].id \in ids
  BY DEF Seqs!ToSet
<1>a. \A r \in Seqs!ToSet(rows) : r \in S <=> r.id \in ids
  OBVIOUS
<1> HIDE DEF S
<1>b. recs \in Seq(RowType)
  BY OnlyFacts
<1>c. Seqs!ToSet(recs) = Seqs!ToSet(rows) \cap S
  BY OnlyFacts
<1>d. Len(recs) = Cardinality(places)
  BY OnlyFacts
<1>2. /\ recs \in Seq(RowType) /\ Seqs!ToSet(recs) = Seqs!ToSet(rows) \cap S /\ Len(recs) = Cardinality(places)
  BY <1>b, <1>c, <1>d
<1>4. IdsOf(recs) = chosen
  <2> HIDE DEF recs
  <2> QED
    BY <1>a, <1>2, IdsFacts
<1>5. f \in Bijection(places, chosen)
  <2>1. \A i \in places : f[i] \in chosen
    BY <1>3 DEF IdsOf
  <2>2. \A i, j \in places : f[i] = f[j] => i = j
    BY DEF OneEach
  <2>3. ASSUME NEW id \in chosen PROVE \E i \in places : f[i] = id
    <3>1. PICK i \in DOMAIN rows : id = rows[i].id
      BY DEF IdsOf
    <3> QED
      BY <1>3, <3>1
  <2> HIDE DEF chosen, places
  <2>4. f \in [places -> chosen]
    BY <2>1
  <2> HIDE DEF f
  <2>5. f \in Surjection(places, chosen)
    BY <2>3, <2>4 DEF Surjection
  <2>6. f \in Injection(places, chosen)
    BY <2>2, <2>4 DEF Injection, IsInjective
  <2> QED
    BY <2>5, <2>6 DEF Bijection
<1>6. IsFiniteSet(places)
  <2>1. IsFiniteSet(1..Len(rows)) /\ DOMAIN rows = 1..Len(rows)
    BY FS_Interval
  <2> QED
    BY <2>1, FS_Subset
<1> HIDE DEF f, places, recs, chosen
<1>7. Cardinality(chosen) = Cardinality(places)
  BY <1>5, <1>6, FS_Bijection DEF ExistsBijection
<1>8. recs = <<>> <=> chosen = {}
  <2>1. recs # <<>> => 1 \in DOMAIN recs
    BY <1>2
  <2>2. (\E i : i \in DOMAIN recs) => recs # <<>>
    BY <1>2
  <2>3. (\E id : id \in chosen) <=> \E i : i \in DOMAIN recs
    BY <1>4 DEF IdsOf
  <2> QED
    BY <2>1, <2>2, <2>3
<1> QED
  BY <1>1, <1>2, <1>4, <1>7, <1>8 DEF chosen, Picked

(* What makes a case ready, and what blocks it. *)
LEMMA ReadyHolds ==
    ASSUME NEW all, all.recs \in Seq(RowType), OneEach(all.recs), NEW t \in Retentions,
           NEW chosen \in [recs : SUBSET RecIds, docs : SUBSET Docs]
    PROVE  LET bundle == BundleOf(all, t, chosen)
               case == Presentation(bundle, Narrative(bundle, chosen))
           IN /\ case.of.status = "ready" <=> Complete(case.of.checklist) /\ t.overdue = 0
              /\ case.of.status = "ready" =>
                   /\ chosen.recs # {} /\ chosen.recs = case.report.packets.recs
                   /\ chosen.docs # {} /\ chosen.docs = case.report.packets.docs
                   /\ chosen.recs \subseteq IdsOf(all.recs) /\ chosen.docs \subseteq t.docs
                   /\ all.chain # "invalid" /\ case.export /\ case.of.notes = {}
                   /\ \A part \in {"metadata", "workflow", "audit"} : case.of.sections[part] = "verified"
              /\ case.of.status = "blocked" <=> \E i \in 1..4 : case.of.timeline[i].state = "blocked"
<1> DEFINE rows == Rows(all)
           bundle == BundleOf(all, t, chosen)
           case == Presentation(bundle, Narrative(bundle, chosen))
           ids == IdsOf(rows)
<1>1. rows \in Seq(RowType) /\ OneEach(rows) /\ Seqs!ToSet(rows) = Seqs!ToSet(all.recs)
  BY RowsFacts
<1>2. ids = IdsOf(all.recs)
  BY <1>1, IdsFacts
<1>3. bundle = Bundle(rows, all.chain, t, chosen.recs, chosen.docs)
  BY DEF BundleOf
<1> HIDE DEF rows, ids, bundle
<1>4. /\ IsFiniteSet(chosen.recs) /\ IsFiniteSet(chosen.docs)
  <2>1. chosen.recs \subseteq RecIds /\ chosen.docs \subseteq Docs
    OBVIOUS
  <2> QED
    BY <2>1, RecIdsFinite, AnalysisAssumption, FS_Subset
<1>5. /\ bundle.recs \in Seq(RowType) /\ IdsOf(bundle.recs) = chosen.recs \cap ids
      /\ Len(bundle.recs) = Cardinality(chosen.recs \cap ids)
      /\ bundle.recs = <<>> <=> chosen.recs \cap ids = {}
  <2>1. Picked(bundle.recs, rows, chosen.recs)
    BY <1>1, <1>3, BundleFacts
  <2> QED
    BY <2>1 DEF Picked, ids
<1>6. /\ bundle.docs = chosen.docs \cap t.docs /\ bundle.chain = all.chain /\ bundle.retention = t
      /\ bundle.missing = (chosen.recs \ ids) \cup (chosen.docs \ t.docs)
  BY <1>3 DEF Bundle, ids
<1>7. /\ Len(bundle.recs) = Cardinality(chosen.recs) <=> chosen.recs \subseteq ids
      /\ Cardinality(bundle.docs) = Cardinality(chosen.docs) <=> chosen.docs \subseteq t.docs
  <2>1. Cardinality(chosen.recs \cap ids) = Cardinality(chosen.recs) <=> chosen.recs \subseteq ids
    BY <1>4, WholeBySize
  <2>2. Cardinality(chosen.docs \cap t.docs) = Cardinality(chosen.docs) <=> chosen.docs \subseteq t.docs
    BY <1>4, WholeBySize
  <2> QED
    BY <1>5, <1>6, <2>1, <2>2
<1>8. t.overdue \in 0..1 /\ t.dueSoon \in 0..1
  BY DEF Retentions
<1>9. Blockers(bundle) = {} <=> all.chain # "invalid" /\ t.overdue = 0
  <2>1. RetentionPosture(t) = "blocked" <=> t.overdue # 0
    BY <1>8 DEF RetentionPosture
  <2> QED
    BY <1>6, <2>1 DEF Blockers
<1>10. Warnings(bundle) = {} <=> /\ chosen.recs # {} /\ chosen.recs \subseteq ids
                                 /\ chosen.docs # {} /\ chosen.docs \subseteq t.docs
  <2>1. Warnings(bundle) = {} <=> bundle.missing = {} /\ bundle.recs # <<>> /\ bundle.docs # {}
    BY DEF Warnings
  <2> QED
    BY <1>5, <1>6, <2>1
<1>11. /\ CaseStatus(bundle) = "ready" <=> Blockers(bundle) = {} /\ Warnings(bundle) = {}
       /\ CaseStatus(bundle) = "blocked" <=> Blockers(bundle) # {}
  BY DEF CaseStatus
<1>12. Complete(Checklist(bundle, chosen)) <=>
         /\ all.chain # "invalid" /\ chosen.recs # {} /\ chosen.recs \subseteq ids
         /\ chosen.docs # {} /\ chosen.docs \subseteq t.docs /\ t.docs # {}
  <2> DEFINE list == Checklist(bundle, chosen)
  <2>1. /\ DOMAIN list = {"manifest", "chain", "recommendations", "documents", "retention"}
        /\ list["manifest"] = TRUE
        /\ list["chain"] <=> all.chain # "invalid"
        /\ list["recommendations"] <=> chosen.recs # {} /\ chosen.recs \subseteq ids
        /\ list["documents"] <=> chosen.docs # {} /\ chosen.docs \subseteq t.docs
        /\ list["retention"] <=> t.docs # {}
    BY <1>6, <1>7 DEF Checklist
  <2> HIDE DEF list
  <2>2. Complete(list) <=> list["manifest"] /\ list["chain"] /\ list["recommendations"] /\ list["documents"]
                           /\ list["retention"]
    BY <2>1 DEF Complete
  <2> QED
    BY <2>1, <2>2 DEF list
<1>13. /\ case.of.status = CaseStatus(bundle) /\ case.of.checklist = Checklist(bundle, chosen)
       /\ case.of.sections = Sections(bundle) /\ case.of.timeline = VisualTimeline(Sections(bundle))
       /\ case.of.notes = Blockers(bundle) \cup Warnings(bundle)
       /\ case.export = CanExport(bundle)
       /\ case.report.packets.recs = IdsOf(bundle.recs) /\ case.report.packets.docs = bundle.docs
  BY DEF Presentation, Narrative, Report
<1> HIDE DEF case
<1>14. /\ DOMAIN Sections(bundle) = {"metadata", "workflow", "retention", "audit"}
       /\ Sections(bundle)["metadata"] = IF CanExport(bundle) /\ bundle.missing = {} THEN "verified" ELSE "attention"
       /\ Sections(bundle)["workflow"] = IF WorkflowStatuses(bundle) # {} THEN "verified" ELSE "attention"
       /\ Sections(bundle)["retention"] = IF RetentionPosture(t) = "ready" THEN "verified" ELSE RetentionPosture(t)
       /\ Sections(bundle)["audit"] = IF all.chain = "invalid" THEN "blocked" ELSE "verified"
  BY <1>6 DEF Sections, Integrity
<1>15. case.of.status = "blocked" <=> \E i \in 1..4 : case.of.timeline[i].state = "blocked"
  <2>1. /\ case.of.timeline[1].state = Sections(bundle)["metadata"]
        /\ case.of.timeline[2].state = Sections(bundle)["workflow"]
        /\ case.of.timeline[3].state = Sections(bundle)["retention"]
        /\ case.of.timeline[4].state = Sections(bundle)["audit"]
    BY <1>13 DEF VisualTimeline
  <2>2. /\ Sections(bundle)["metadata"] # "blocked" /\ Sections(bundle)["workflow"] # "blocked"
        /\ Sections(bundle)["retention"] = "blocked" <=> t.overdue # 0
        /\ Sections(bundle)["audit"] = "blocked" <=> all.chain = "invalid"
    BY <1>8, <1>14 DEF RetentionPosture
  <2>3. 1..4 = {1, 2, 3, 4}
    OBVIOUS
  <2>4. (\E i \in 1..4 : case.of.timeline[i].state = "blocked") <=> t.overdue # 0 \/ all.chain = "invalid"
    BY <2>1, <2>2, <2>3
  <2> QED
    BY <1>9, <1>11, <1>13, <2>4
<1>16. case.of.status = "ready" <=> Complete(case.of.checklist) /\ t.overdue = 0
  BY <1>9, <1>10, <1>11, <1>12, <1>13
<1>17. ASSUME case.of.status = "ready"
       PROVE  /\ chosen.recs # {} /\ chosen.recs = case.report.packets.recs
              /\ chosen.docs # {} /\ chosen.docs = case.report.packets.docs
              /\ chosen.recs \subseteq IdsOf(all.recs) /\ chosen.docs \subseteq t.docs
              /\ all.chain # "invalid" /\ case.export /\ case.of.notes = {}
              /\ \A part \in {"metadata", "workflow", "audit"} : case.of.sections[part] = "verified"
  <2>1. /\ Blockers(bundle) = {} /\ Warnings(bundle) = {} /\ all.chain # "invalid"
        /\ chosen.recs # {} /\ chosen.recs \subseteq ids /\ chosen.docs # {} /\ chosen.docs \subseteq t.docs
    BY <1>9, <1>10, <1>11, <1>13, <1>17
  <2>2. bundle.recs # <<>> /\ IdsOf(bundle.recs) = chosen.recs /\ bundle.docs = chosen.docs /\ bundle.missing = {}
    BY <1>5, <1>6, <2>1
  <2>3. CanExport(bundle)
    BY <2>2 DEF CanExport
  <2>4. WorkflowStatuses(bundle) # {}
    <3>1. 1 \in DOMAIN bundle.recs
      BY <1>5, <2>2
    <3>2. bundle.recs[1] \in Seqs!ToSet(bundle.recs)
      BY <3>1 DEF Seqs!ToSet
    <3> QED
      BY <3>2 DEF WorkflowStatuses
  <2>5. /\ case.of.sections["metadata"] = "verified" /\ case.of.sections["workflow"] = "verified"
        /\ case.of.sections["audit"] = "verified"
    BY <1>13, <1>14, <2>1, <2>2, <2>3, <2>4
  <2> QED
    BY <1>2, <1>13, <2>1, <2>2, <2>3, <2>5
<1> QED
  BY <1>15, <1>16, <1>17 DEF case, bundle

(* The exports are whole: a packet of the evidence center has the update its   *)
(* state comes from, and a case presented as ready names every packet chosen,  *)
(* however the summary and the records changed after the choice.               *)
THEOREM ExportsAreWholeHolds == SecuritySpec => []ExportsAreWhole
<1>1. SecurityInvariant => ReadyCase
  <2> SUFFICES ASSUME SecurityInvariant, NEW u \in Officers, NEW s \in page[u].shown, NEW t \in Retentions
               PROVE  LET all == Summary(s)
                          case == CaseOf(u, all, t)
                          chosen == page[u].chosen
                      IN /\ case.of.status = "ready" <=> Complete(case.of.checklist) /\ t.overdue = 0
                         /\ case.of.status = "ready" =>
                              /\ chosen.recs # {} /\ chosen.recs = case.report.packets.recs
                              /\ chosen.docs # {} /\ chosen.docs = case.report.packets.docs
                              /\ chosen.recs \subseteq IdsOf(all.recs) /\ chosen.docs \subseteq t.docs
                              /\ all.chain # "invalid" /\ case.export /\ case.of.notes = {}
                              /\ \A part \in {"metadata", "workflow", "audit"} : case.of.sections[part] = "verified"
                         /\ case.of.status = "blocked" <=> \E i \in 1..4 : case.of.timeline[i].state = "blocked"
    BY DEF ReadyCase
  <2>1. /\ ReadOf(s) /\ time \in Nat /\ EntryLog(log, time) /\ Summary(s).recs = RecsOf(s) /\ RecsOf(s) \in Seq(RowType)
    BY SummaryFacts
  <2>2. OneEach(RecsOf(s))
    BY <2>1, RecsOfFacts
  <2>3. page[u].chosen \in [recs : SUBSET RecIds, docs : SUBSET Docs]
    BY InvariantFacts, PageFields
  <2> DEFINE all == Summary(s)
             chosen == page[u].chosen
  <2>4. CaseOf(u, all, t) = Presentation(BundleOf(all, t, chosen), Narrative(BundleOf(all, t, chosen), chosen))
    BY DEF CaseOf
  <2>5. all.recs \in Seq(RowType) /\ OneEach(all.recs) /\ chosen \in [recs : SUBSET RecIds, docs : SUBSET Docs]
    BY <2>1, <2>2, <2>3
  <2> HIDE DEF all, chosen
  <2> QED
    BY <2>4, <2>5, ReadyHolds DEF all, chosen
<1> QED
  BY <1>1, TrailHolds, SecurityHolds, PTL DEF ExportsAreWhole

=============================================================================
