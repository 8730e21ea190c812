----------------------- MODULE DocumentLifecycleProofs -----------------------
(***************************************************************************)
(* Theorems about DocumentLifecycle, for any number of documents, users,   *)
(* chains and slots: type correctness; the dates that a status comes with; *)
(* and, for calls that do not overlap, that the lifecycle implements the   *)
(* documented workflow and that the history tells how a document got to    *)
(* its status.                                                             *)
(***************************************************************************)
EXTENDS DocumentLifecycle, SequenceTheorems, TLAPS

Calls == {"status", "checked", "advance", "stepping", "chaining", "restoring"}
Jobs == {"archiving", "purging"}

(* What the pc of a slot says of the rest of its record. *)
LEMMA CallFields ==
    ASSUME NEW r \in ReqTypes
    PROVE  /\ r.pc \in Calls => /\ r.user \in Users /\ r.doc \in Docs
                                /\ r.step \in Nat /\ r.chain \in Seq(Users) /\ r.now \in Nat
           /\ r.pc \in {"status", "checked"} => r.action \in Actions
           /\ r.pc \in Jobs => r.todo \in (SUBSET Docs) \ {{}} /\ r.now \in Nat
           /\ r.pc \in Calls \cup Jobs \cup {"idle"}
           /\ r.pc = "idle" => r = idle
  <1>0. <<>> \in Seq(Users)
    OBVIOUS
  <1>1. CASE r \in TransitionCalls
    <2>1. r.chain = <<>> /\ r.step = 0
      BY <1>1 DEF TransitionCalls
    <2>2. r.chain \in Seq(Users)
      BY <1>0, <2>1
    <2>3. /\ r.pc \in {"status", "checked"} /\ r.user \in Users /\ r.doc \in Docs
          /\ r.action \in Actions /\ r.now \in Nat
      BY <1>1 DEF TransitionCalls
    <2> QED BY <2>1, <2>2, <2>3 DEF Calls, Jobs
  <1>2. CASE r \in OtherCalls
    BY <1>2 DEF OtherCalls, Calls, Jobs
  <1>3. CASE r \in JobRuns
    BY <1>3 DEF JobRuns, Calls, Jobs
  <1>4. CASE r = idle
    BY <1>4 DEF idle, Calls, Jobs
  <1> QED BY <1>1, <1>2, <1>3, <1>4 DEF ReqTypes

(* The records a step may put in a slot. *)
LEMMA CallTypes ==
    ASSUME LifecycleAssumption, NEW u \in Users, NEW d \in Docs
    PROVE  /\ \A a \in Actions :
                [idle EXCEPT !.pc = "status", !.user = u, !.doc = d, !.action = a] \in ReqTypes
           /\ [idle EXCEPT !.pc = "advance", !.user = u, !.doc = d] \in ReqTypes
           /\ \A c \in Chains :
                [idle EXCEPT !.pc = "chaining", !.user = u, !.doc = d, !.chain = c] \in ReqTypes
           /\ [idle EXCEPT !.pc = "restoring", !.user = u, !.doc = d] \in ReqTypes
  <1>0. <<>> \in Seq(Users)
    OBVIOUS
  <1>1. ASSUME NEW a \in Actions
        PROVE  [idle EXCEPT !.pc = "status", !.user = u, !.doc = d, !.action = a] \in TransitionCalls
    BY DEF TransitionCalls, idle
  <1>2. [idle EXCEPT !.pc = "advance", !.user = u, !.doc = d] \in OtherCalls
    BY <1>0 DEF OtherCalls, idle
  <1>3. ASSUME NEW c \in Chains
        PROVE  [idle EXCEPT !.pc = "chaining", !.user = u, !.doc = d, !.chain = c] \in OtherCalls
    <2>1. c \in Seq(Users)
      BY DEF LifecycleAssumption
    <2> QED BY <2>1 DEF OtherCalls, idle
  <1>4. [idle EXCEPT !.pc = "restoring", !.user = u, !.doc = d] \in OtherCalls
    BY <1>0 DEF OtherCalls, idle
  <1> QED BY <1>1, <1>2, <1>3, <1>4 DEF ReqTypes

LEMMA RunTypes ==
    ASSUME NEW now \in Nat, NEW todo \in (SUBSET Docs) \ {{}}, NEW pc \in Jobs
    PROVE  [idle EXCEPT !.pc = pc, !.now = now, !.todo = todo] \in ReqTypes
  <1>1. [idle EXCEPT !.pc = pc, !.now = now, !.todo = todo] \in JobRuns
    BY DEF JobRuns, idle, Jobs
  <1> QED BY <1>1 DEF ReqTypes

LEMMA CallProgress ==
    ASSUME NEW r \in ReqTypes, NEW n \in Nat
    PROVE  /\ r.pc = "status" => [r EXCEPT !.pc = "checked", !.now = n] \in ReqTypes
           /\ r.pc = "advance" => [r EXCEPT !.pc = "stepping", !.step = n] \in ReqTypes
           /\ r.pc \in Jobs => \A d \in Docs : r.todo # {d} /\ d \in r.todo =>
                    [r EXCEPT !.todo = @ \ {d}] \in ReqTypes
  <1>1. ASSUME r.pc = "status"
        PROVE  [r EXCEPT !.pc = "checked", !.now = n] \in TransitionCalls
    <2>1. r \in TransitionCalls
      BY <1>1 DEF ReqTypes, OtherCalls, JobRuns, idle
    <2> QED BY <2>1 DEF TransitionCalls
  <1>2. ASSUME r.pc = "advance"
        PROVE  [r EXCEPT !.pc = "stepping", !.step = n] \in OtherCalls
    <2>1. r \in OtherCalls
      BY <1>2 DEF ReqTypes, TransitionCalls, JobRuns, idle
    <2> QED BY <2>1 DEF OtherCalls
  <1>3. ASSUME r.pc \in Jobs, NEW d \in Docs, r.todo # {d}, d \in r.todo
        PROVE  [r EXCEPT !.todo = @ \ {d}] \in JobRuns
    <2>1. r \in JobRuns
      BY <1>3 DEF ReqTypes, TransitionCalls, OtherCalls, idle, Jobs
    <2>2. r.todo \ {d} \in (SUBSET Docs) \ {{}}
      BY <2>1, <1>3 DEF JobRuns
    <2> QED BY <2>1, <2>2 DEF JobRuns
  <1> QED BY <1>1, <1>2, <1>3 DEF ReqTypes

(* Ending a step puts a request of the right shape in the slot. *)
LEMMA SlotTypes ==
    ASSUME TypeOK, NEW s \in Slots, NEW r \in ReqTypes, Busy(s, r)
    PROVE  req' \in [Slots -> ReqTypes]
  BY DEF TypeOK, Busy

(* One document, one history changes. *)
LEMMA RowTypes ==
    ASSUME TypeOK, NEW d \in Docs, NEW row \in DocType, Write(d, row)
    PROVE  doc' \in [Docs -> DocType]
  BY DEF TypeOK, Write

LEMMA RecordTypes ==
    ASSUME TypeOK, NEW d \in Docs, NEW from \in Statuses, NEW to \in Statuses,
           NEW a \in Actions \cup {"RETENTION"}, NEW u \in Users \cup {None},
           Record(d, from, to, a, u)
    PROVE  history' \in [Docs -> Seq(RowType)]
  <1>1. [from |-> from, to |-> to, action |-> a, by |-> u] \in RowType
    BY DEF RowType
  <1>2. history[d] \in Seq(RowType)
    BY DEF TypeOK
  <1>3. Append(history[d], [from |-> from, to |-> to, action |-> a, by |-> u]) \in Seq(RowType)
    BY <1>1, <1>2
  <1> QED BY <1>3 DEF TypeOK, Record

LEMMA TransitionTypes ==
    ASSUME NEW a \in Actions
    PROVE  /\ TRANSITION_MAP[a] = Edge(TRANSITION_MAP[a].from, TRANSITION_MAP[a].to)
           /\ TRANSITION_MAP[a].from \in {"DRAFT", "PENDING", "PUBLISHED"}
           /\ TRANSITION_MAP[a].to \in {"DRAFT", "PENDING", "PUBLISHED", "ARCHIVED", "DELETED"}
  BY DEF Actions, TRANSITION_MAP, Edge

-----------------------------------------------------------------------------
(* Type correctness *)

LEMMA InitType == ASSUME Init PROVE TypeOK
  <1>1. NewDoc \in DocType
    <2>1. <<>> \in Seq(Users)
      OBVIOUS
    <2> QED BY <2>1 DEF NewDoc, DocType, Statuses
  <1>2. idle \in ReqTypes
    BY DEF ReqTypes
  <1> QED BY <1>1, <1>2 DEF Init, TypeOK

(* The rows that the writes put back. *)
LEMMA WrittenRows ==
    ASSUME NEW row \in DocType
    PROVE  /\ \A a \in Actions, n \in Nat : Moved(row, a, n) \in DocType
           /\ \A n \in Nat : [row EXCEPT !.step = n] \in DocType
           /\ \A c \in Seq(Users) : [row EXCEPT !.chain = c, !.step = 0] \in DocType
           /\ \A h \in BOOLEAN : [row EXCEPT !.hold = h] \in DocType
           /\ [row EXCEPT !.status = "DRAFT", !.deletedAt = 0] \in DocType
           /\ \A n \in Nat : [row EXCEPT !.status = "ARCHIVED", !.archivedAt = n] \in DocType
  <1>1. ASSUME NEW a \in Actions, NEW n \in Nat
        PROVE  Moved(row, a, n) \in DocType
    <2>1. TRANSITION_MAP[a].to \in Statuses
      BY TransitionTypes DEF Statuses
    <2> QED BY <2>1 DEF Moved, DocType
  <1>2. \A n \in Nat : [row EXCEPT !.step = n] \in DocType
    BY DEF DocType
  <1>3. \A c \in Seq(Users) : [row EXCEPT !.chain = c, !.step = 0] \in DocType
    BY DEF DocType
  <1>4. \A h \in BOOLEAN : [row EXCEPT !.hold = h] \in DocType
    BY DEF DocType
  <1>5. [row EXCEPT !.status = "DRAFT", !.deletedAt = 0] \in DocType
    BY DEF DocType, Statuses
  <1>6. \A n \in Nat : [row EXCEPT !.status = "ARCHIVED", !.archivedAt = n] \in DocType
    BY DEF DocType, Statuses
  <1> QED BY <1>1, <1>2, <1>3, <1>4, <1>5, <1>6

(* A run of a job that goes on to its next document, or ends. *)
LEMMA LoopedTypes ==
    ASSUME TypeOK, NEW s \in Slots, NEW d \in Docs,
           req[s].pc \in Jobs, d \in req[s].todo, Looped(s, d)
    PROVE  req' \in [Slots -> ReqTypes]
  <1>1. req[s] \in ReqTypes
    BY DEF TypeOK
  <1>2. CASE req[s].todo = {d}
    <2>1. idle \in ReqTypes
      BY DEF ReqTypes
    <2> QED BY <1>2, <2>1, SlotTypes DEF Looped, Done
  <1>3. CASE req[s].todo # {d}
    <2>1. [req[s] EXCEPT !.todo = @ \ {d}] \in ReqTypes
      <3>1. 0 \in Nat
        OBVIOUS
      <3> QED BY <1>1, <1>3, <3>1, CallProgress
    <2> QED BY <1>3, <2>1, SlotTypes DEF Looped
  <1> QED BY <1>2, <1>3

LEMMA SignedTypes ==
    ASSUME TypeOK, NEW d \in Docs, NEW u \in Users, NEW a \in Actions
    PROVE  /\ Signed(d, a, u) \in [Docs -> Seq(Users)]
           /\ [signed EXCEPT ![d] = Append(@, u)] \in [Docs -> Seq(Users)]
           /\ [signed EXCEPT ![d] = <<>>] \in [Docs -> Seq(Users)]
  <1>1. signed \in [Docs -> Seq(Users)]
    BY DEF TypeOK
  <1>2. [signed EXCEPT ![d] = Append(@, u)] \in [Docs -> Seq(Users)]
    BY <1>1
  <1>3. [signed EXCEPT ![d] = <<>>] \in [Docs -> Seq(Users)]
    <2>1. <<>> \in Seq(Users)
      OBVIOUS
    <2> QED BY <1>1, <2>1
  <1> QED BY <1>1, <1>2, <1>3 DEF Signed

LEMMA CreateType ==
    ASSUME TypeOK, NEW d \in Docs, Create(d)
    PROVE  TypeOK'
  <1>1. [NewDoc EXCEPT !.status = "DRAFT"] \in DocType
    <2>1. <<>> \in Seq(Users)
      OBVIOUS
    <2> QED BY <2>1 DEF NewDoc, DocType, Statuses
  <1>2. doc' \in [Docs -> DocType]
    BY <1>1, RowTypes DEF Create
  <1> QED BY <1>2 DEF Create, TypeOK

LEMMA RunType ==
    ASSUME TypeOK, NEW s \in Slots, NEW pc \in Jobs, NEW now \in Nat,
           NEW todo \in SUBSET Docs, StartJob(s, pc, now, todo)
    PROVE  TypeOK'
  <1>1. [idle EXCEPT !.pc = pc, !.now = now, !.todo = todo] \in ReqTypes
    BY RunTypes DEF StartJob
  <1> QED BY <1>1, SlotTypes DEF StartJob, TypeOK

LEMMA RequestType ==
    ASSUME LifecycleAssumption, TypeOK, NEW s \in Slots, Request(s)
    PROVE  TypeOK'
  <1>1. ASSUME NEW u \in Users, NEW d \in Docs, NEW a \in Actions, RequestTransition(s, u, d, a)
        PROVE  TypeOK'
    <2>1. [idle EXCEPT !.pc = "status", !.user = u, !.doc = d, !.action = a] \in ReqTypes
      BY CallTypes
    <2> QED BY <1>1, <2>1, SlotTypes DEF RequestTransition, TypeOK
  <1>2. ASSUME NEW u \in Users, NEW d \in Docs, NEW a \in Actions, RequestStatus(s, u, d, a)
        PROVE  TypeOK'
    <2>1. [idle EXCEPT !.pc = "status", !.user = u, !.doc = d, !.action = a] \in ReqTypes
      BY CallTypes
    <2> QED BY <1>2, <2>1, SlotTypes DEF RequestStatus, TypeOK
  <1>3. ASSUME NEW u \in Users, NEW d \in Docs, RequestStep(s, u, d)
        PROVE  TypeOK'
    <2>1. [idle EXCEPT !.pc = "advance", !.user = u, !.doc = d] \in ReqTypes
      BY CallTypes
    <2> QED BY <1>3, <2>1, SlotTypes DEF RequestStep, TypeOK
  <1>4. ASSUME NEW u \in Users, NEW d \in Docs, NEW c \in Chains, RequestChain(s, u, d, c)
        PROVE  TypeOK'
    <2>1. [idle EXCEPT !.pc = "chaining", !.user = u, !.doc = d, !.chain = c] \in ReqTypes
      BY CallTypes
    <2> QED BY <1>4, <2>1, SlotTypes DEF RequestChain, TypeOK
  <1>5. ASSUME NEW u \in Users, NEW d \in Docs, NEW h \in BOOLEAN, SetLegalHold(s, u, d, h)
        PROVE  TypeOK'
    <2>0. doc[d] \in DocType
      BY DEF TypeOK
    <2>1. [doc[d] EXCEPT !.hold = h] \in DocType
      BY <2>0, WrittenRows
    <2>2. doc' \in [Docs -> DocType]
      BY <1>5, <2>1, RowTypes DEF SetLegalHold
    <2> QED BY <1>5, <2>2 DEF SetLegalHold, TypeOK
  <1>6. ASSUME NEW u \in Users, NEW d \in Docs, RequestRestore(s, u, d)
        PROVE  TypeOK'
    <2>1. [idle EXCEPT !.pc = "restoring", !.user = u, !.doc = d] \in ReqTypes
      BY CallTypes
    <2> QED BY <1>6, <2>1, SlotTypes DEF RequestRestore, TypeOK
  <1>7. ASSUME NEW u \in Users, NEW day \in AsOf, RunRetention(s, u, day)
        PROVE  TypeOK'
    <2>1. /\ StartJob(s, "archiving", day, Overdue(day)) /\ "archiving" \in Jobs
          /\ day \in Nat /\ Overdue(day) \in SUBSET Docs
      BY <1>7 DEF RunRetention, Jobs, Overdue, LifecycleAssumption
    <2> QED BY <2>1, RunType
  <1> QED BY <1>1, <1>2, <1>3, <1>4, <1>5, <1>6, <1>7 DEF Request

LEMMA StartType ==
    ASSUME LifecycleAssumption, TypeOK, NEW s \in Slots, StartRetention(s) \/ StartPurge(s)
    PROVE  TypeOK'
  <1>1. PICK pc \in Jobs, todo \in SUBSET Docs : StartJob(s, pc, clock, todo)
    BY DEF StartRetention, StartPurge, Overdue, Expired, Jobs
  <1>2. clock \in Nat
    BY DEF TypeOK
  <1> QED BY <1>1, <1>2, RunType

LEMMA StepType ==
    ASSUME LifecycleAssumption, TypeOK, NEW s \in Slots, Step(s)
    PROVE  TypeOK'
  <1>0. /\ req[s] \in ReqTypes
        /\ idle \in ReqTypes
    BY DEF TypeOK, ReqTypes
  <1>1. CASE CheckTransition(s)
    <2>1. [req[s] EXCEPT !.pc = "checked", !.now = clock] \in ReqTypes
      BY <1>0, <1>1, CallProgress DEF CheckTransition, TypeOK
    <2> QED BY <1>1, <2>1, SlotTypes DEF CheckTransition, TypeOK
  <1>2. CASE WriteStatus(s)
    <2> DEFINE r == req[s]
    <2>1. /\ r.user \in Users /\ r.doc \in Docs /\ r.action \in Actions /\ r.now \in Nat
      BY <1>0, <1>2, CallFields DEF WriteStatus, Calls
    <2>2. doc[r.doc] \in DocType
      BY <2>1 DEF TypeOK
    <2>3. Moved(doc[r.doc], r.action, r.now) \in DocType
      BY <2>1, <2>2, WrittenRows
    <2>4. doc' \in [Docs -> DocType]
      BY <1>2, <2>1, <2>3, RowTypes DEF WriteStatus
    <2>5. history' \in [Docs -> Seq(RowType)]
      BY <1>2, <2>1, TransitionTypes, RecordTypes DEF WriteStatus, Statuses
    <2>6. signed' \in [Docs -> Seq(Users)]
      BY <1>2, <2>1, SignedTypes DEF WriteStatus
    <2>7. req' \in [Slots -> ReqTypes]
      BY <1>0, <1>2, SlotTypes DEF WriteStatus, Done
    <2> QED BY <1>2, <2>4, <2>5, <2>6, <2>7 DEF WriteStatus, TypeOK
  <1>3. CASE ReadStep(s)
    <2>1. req[s].doc \in Docs
      BY <1>0, <1>3, CallFields DEF ReadStep, Calls
    <2>2. doc[req[s].doc].step + 1 \in Nat
      BY <2>1 DEF TypeOK, DocType
    <2>3. [req[s] EXCEPT !.pc = "stepping", !.step = doc[req[s].doc].step + 1] \in ReqTypes
      BY <1>0, <1>3, <2>2, CallProgress DEF ReadStep
    <2> QED BY <1>3, <2>3, SlotTypes DEF ReadStep, TypeOK
  <1>4. CASE WriteStep(s)
    <2> DEFINE r == req[s]
    <2>1. /\ r.user \in Users /\ r.doc \in Docs /\ r.step \in Nat
      BY <1>0, <1>4, CallFields DEF WriteStep, Calls
    <2>0. doc[r.doc] \in DocType
      BY <2>1 DEF TypeOK
    <2>2. [doc[r.doc] EXCEPT !.step = r.step] \in DocType
      BY <2>0, <2>1, WrittenRows
    <2>3. doc' \in [Docs -> DocType]
      BY <1>4, <2>1, <2>2, RowTypes DEF WriteStep
    <2>4. signed' \in [Docs -> Seq(Users)]
      BY <1>4, <2>1 DEF WriteStep, TypeOK
    <2>5. req' \in [Slots -> ReqTypes]
      BY <1>0, <1>4, SlotTypes DEF WriteStep, Done
    <2> QED BY <1>4, <2>3, <2>4, <2>5 DEF WriteStep, TypeOK
  <1>5. CASE WriteChain(s)
    <2> DEFINE r == req[s]
    <2>1. /\ r.doc \in Docs /\ r.chain \in Seq(Users)
      BY <1>0, <1>5, CallFields DEF WriteChain, Calls
    <2>0. doc[r.doc] \in DocType
      BY <2>1 DEF TypeOK
    <2>2. [doc[r.doc] EXCEPT !.chain = r.chain, !.step = 0] \in DocType
      BY <2>0, <2>1, WrittenRows
    <2>3. doc' \in [Docs -> DocType]
      BY <1>5, <2>1, <2>2, RowTypes DEF WriteChain
    <2>4. req' \in [Slots -> ReqTypes]
      BY <1>0, <1>5, SlotTypes DEF WriteChain, Done
    <2> QED BY <1>5, <2>3, <2>4 DEF WriteChain, TypeOK
  <1>6. CASE WriteRestore(s)
    <2> DEFINE r == req[s]
    <2>1. r.doc \in Docs
      BY <1>0, <1>6, CallFields DEF WriteRestore, Calls
    <2>0. doc[r.doc] \in DocType
      BY <2>1 DEF TypeOK
    <2>2. [doc[r.doc] EXCEPT !.status = "DRAFT", !.deletedAt = 0] \in DocType
      BY <2>0, <2>1, WrittenRows
    <2>3. doc' \in [Docs -> DocType]
      BY <1>6, <2>1, <2>2, RowTypes DEF WriteRestore
    <2>4. req' \in [Slots -> ReqTypes]
      BY <1>0, <1>6, SlotTypes DEF WriteRestore, Done
    <2> QED BY <1>6, <2>3, <2>4 DEF WriteRestore, TypeOK
  <1>7. CASE Refused(s)
    BY <1>0, <1>7, SlotTypes DEF Refused, Done, TypeOK
  <1>8. ASSUME NEW d \in Docs, ArchiveDocument(s, d)
        PROVE  TypeOK'
    <2>1. req[s].now \in Nat
      BY <1>0, <1>8, CallFields DEF ArchiveDocument, Jobs
    <2>0. doc[d] \in DocType
      BY DEF TypeOK
    <2>2. [doc[d] EXCEPT !.status = "ARCHIVED", !.archivedAt = req[s].now] \in DocType
      BY <2>0, <2>1, WrittenRows
    <2>3. doc' \in [Docs -> DocType]
      BY <1>8, <2>2, RowTypes DEF ArchiveDocument
    <2>4. history' \in [Docs -> Seq(RowType)]
      <3>1. "PUBLISHED" \in Statuses /\ "ARCHIVED" \in Statuses
        BY DEF Statuses
      <3> QED BY <1>8, <3>1, RecordTypes DEF ArchiveDocument
    <2>5. req' \in [Slots -> ReqTypes]
      BY <1>8, LoopedTypes DEF ArchiveDocument, Jobs
    <2> QED BY <1>8, <2>3, <2>4, <2>5 DEF ArchiveDocument, TypeOK
  <1>9. ASSUME NEW d \in Docs, PurgeDocument(s, d)
        PROVE  TypeOK'
    <2>0. /\ <<>> \in Seq(Users)
          /\ <<>> \in Seq(RowType)
      OBVIOUS
    <2>1. [NewDoc EXCEPT !.status = "PURGED"] \in DocType
      BY <2>0 DEF NewDoc, DocType, Statuses
    <2>2. doc' \in [Docs -> DocType]
      BY <1>9, <2>1, RowTypes DEF PurgeDocument
    <2>3. /\ history' \in [Docs -> Seq(RowType)]
          /\ signed' \in [Docs -> Seq(Users)]
      BY <1>9, <2>0 DEF PurgeDocument, TypeOK
    <2>4. req' \in [Slots -> ReqTypes]
      BY <1>9, LoopedTypes DEF PurgeDocument, Jobs
    <2> QED BY <1>9, <2>2, <2>3, <2>4 DEF PurgeDocument, TypeOK
  <1>10. ASSUME NEW d \in Docs, SkipDocument(s, d)
         PROVE  TypeOK'
    BY <1>10, LoopedTypes DEF SkipDocument, Jobs, TypeOK
  <1> QED BY <1>1, <1>2, <1>3, <1>4, <1>5, <1>6, <1>7, <1>8, <1>9, <1>10 DEF Step

LEMMA TypeStep == ASSUME LifecycleAssumption, TypeOK, [Next]_vars PROVE TypeOK'
  <1>1. CASE UNCHANGED vars
    BY <1>1 DEF vars, TypeOK
  <1>2. CASE Tick
    BY <1>2 DEF Tick, TypeOK
  <1>3. ASSUME NEW d \in Docs, Create(d)
        PROVE  TypeOK'
    BY <1>3, CreateType
  <1>4. ASSUME NEW s \in Slots, Request(s) \/ StartRetention(s) \/ StartPurge(s) \/ Step(s)
        PROVE  TypeOK'
    BY <1>4, RequestType, StartType, StepType
  <1>5. ASSUME NEW s \in Slots, Die(s)
        PROVE  TypeOK'
    <2>1. idle \in ReqTypes
      BY DEF ReqTypes
    <2> QED BY <1>5, <2>1, SlotTypes DEF Die, Done, TypeOK
  <1> QED BY <1>1, <1>2, <1>3, <1>4, <1>5 DEF Next

(* The variables of the lifecycle always have the types the schema and the *)
(* services give them: TypeOK.                                             *)
THEOREM TypeCorrect == Spec => []TypeOK
  <1>1. Init => TypeOK
    BY InitType
  <1>2. TypeOK /\ [Next]_vars => TypeOK'
    BY TypeStep, LifecycleAssumption
  <1> QED BY <1>1, <1>2, PTL DEF Spec

-----------------------------------------------------------------------------
(* The dates that come with a status *)

RowEvidence(row) ==
    /\ row.status \in {"PUBLISHED", "ARCHIVED"} => row.publishedAt # 0
    /\ row.status = "ARCHIVED" => row.archivedAt # 0
    /\ row.status = "DELETED" => row.deletedAt # 0

(* What a call or a run that is about to write knows of its documents, no  *)
(* matter what was written since it read them.                             *)
Unrefuted(row) ==
    /\ row.status # "NONE"
    /\ row.status # "PURGED" => row.publishedAt # 0

Seen(s) ==
    /\ req[s].pc = "checked" => /\ req[s].now # 0
                                /\ doc[req[s].doc].status # "NONE"
                                /\ req[s].action = "ARCHIVE" => Unrefuted(doc[req[s].doc])
    /\ req[s].pc = "archiving" => /\ req[s].now # 0
                                  /\ \A d \in req[s].todo : Unrefuted(doc[d])

EvidenceInv == TypeOK /\ StatusEvidence /\ \A s \in Slots : Seen(s)

(* How any step may change a row: it is never uncreated, never comes back, *)
(* and never loses the fact that it was published.                         *)
Evolves(a, b) ==
    /\ a.status # "NONE" => b.status # "NONE"
    /\ a.status = "PURGED" => b.status = "PURGED"
    /\ a.status # "NONE" /\ a.publishedAt # 0 => b.publishedAt # 0 \/ b.status = "PURGED"
    /\ RowEvidence(b)

(* A request only reads, but for the legal hold, which is set at once; so   *)
(* does the scan of a job.                                                 *)
LEMMA RequestsRead ==
    ASSUME NEW s \in Slots, Request(s) \/ StartRetention(s) \/ StartPurge(s),
           ~\E u \in Users, d \in Docs, h \in BOOLEAN : SetLegalHold(s, u, d, h)
    PROVE  UNCHANGED <<doc, signed, clock>>
  <1>1. CASE StartRetention(s) \/ StartPurge(s) \/ \E u \in Users, day \in AsOf : RunRetention(s, u, day)
    BY <1>1 DEF StartRetention, StartPurge, RunRetention, StartJob
  <1>2. ASSUME NEW u \in Users, NEW d \in Docs, NEW a \in Actions,
               RequestTransition(s, u, d, a) \/ RequestStatus(s, u, d, a)
        PROVE  UNCHANGED <<doc, signed, clock>>
    BY <1>2 DEF RequestTransition, RequestStatus
  <1>3. ASSUME NEW u \in Users, NEW d \in Docs, RequestStep(s, u, d) \/ RequestRestore(s, u, d)
        PROVE  UNCHANGED <<doc, signed, clock>>
    BY <1>3 DEF RequestStep, RequestRestore
  <1>4. ASSUME NEW u \in Users, NEW d \in Docs, NEW c \in Chains, RequestChain(s, u, d, c)
        PROVE  UNCHANGED <<doc, signed, clock>>
    BY <1>4 DEF RequestChain
  <1> QED BY <1>1, <1>2, <1>3, <1>4 DEF Request

LEMMA Evolution ==
    ASSUME EvidenceInv, [Next]_vars
    PROVE  \A d \in Docs : Evolves(doc[d], doc'[d])
  <1> SUFFICES ASSUME NEW d \in Docs PROVE Evolves(doc[d], doc'[d])
    OBVIOUS
  <1>0. /\ RowEvidence(doc[d])
        /\ doc[d] \in DocType
        /\ doc \in [Docs -> DocType]
    BY DEF EvidenceInv, StatusEvidence, RowEvidence, TypeOK
  <1>1. CASE doc'[d] = doc[d]
    BY <1>0, <1>1 DEF Evolves
  <1>2. ASSUME NEW e \in Docs, Create(e)
        PROVE  Evolves(doc[d], doc'[d])
    BY <1>0, <1>1, <1>2 DEF Create, Write, NewDoc, Evolves, RowEvidence
  <1>3. ASSUME NEW s \in Slots, WriteStatus(s)
        PROVE  Evolves(doc[d], doc'[d])
    <2> DEFINE r == req[s]
    <2>1. r.doc \in Docs /\ r.action \in Actions /\ r.now \in Nat
      BY <1>3, CallFields DEF WriteStatus, EvidenceInv, TypeOK, Calls
    <2>2. Seen(s)
      BY DEF EvidenceInv
    <2>3. CASE r.doc # d
      BY <1>0, <1>1, <1>3, <2>3 DEF WriteStatus, Write
    <2>4. CASE r.doc = d
      <3>1. doc'[d] = Moved(doc[d], r.action, r.now)
        BY <1>0, <1>3, <2>4 DEF WriteStatus, Write
      <3>2. r.now # 0 /\ (r.action = "ARCHIVE" => doc[d].publishedAt # 0)
        BY <1>3, <2>2, <2>4 DEF WriteStatus, Seen, Unrefuted, Exists
      <3>3. doc[d].status \notin {"NONE", "PURGED"}
        BY <1>3, <2>4 DEF WriteStatus, Exists
      <3>4. /\ doc'[d].status = TRANSITION_MAP[r.action].to
            /\ doc'[d].publishedAt = IF r.action = "APPROVE" THEN r.now ELSE doc[d].publishedAt
            /\ doc'[d].archivedAt = IF r.action = "ARCHIVE" THEN r.now ELSE doc[d].archivedAt
            /\ doc'[d].deletedAt = IF r.action = "DELETE" THEN r.now ELSE doc[d].deletedAt
        BY <1>0, <3>1 DEF Moved, DocType
      <3>5. /\ doc'[d].status = "PUBLISHED" => r.action = "APPROVE"
            /\ doc'[d].status = "ARCHIVED" => r.action = "ARCHIVE"
            /\ doc'[d].status = "DELETED" => r.action = "DELETE"
            /\ doc'[d].status \notin {"NONE", "PURGED"}
        BY <2>1, <3>4 DEF Actions, TRANSITION_MAP, Edge
      <3> QED BY <3>2, <3>3, <3>4, <3>5 DEF Evolves, RowEvidence
    <2> QED BY <2>3, <2>4
  <1>4. ASSUME NEW s \in Slots, WriteStep(s) \/ WriteChain(s) \/ WriteRestore(s)
        PROVE  Evolves(doc[d], doc'[d])
    <2>1. CASE req[s].doc # d
      BY <1>0, <1>1, <1>4, <2>1 DEF WriteStep, WriteChain, WriteRestore, Write
    <2>2. CASE req[s].doc = d
      <3>1. /\ doc'[d].status \in {doc[d].status, "DRAFT"}
            /\ doc'[d].publishedAt = doc[d].publishedAt
            /\ doc'[d].archivedAt = doc[d].archivedAt
            /\ doc'[d].status # "DRAFT" => doc'[d].deletedAt = doc[d].deletedAt
        <4>1. CASE WriteStep(s)
          BY <1>0, <2>2, <4>1 DEF WriteStep, Write, DocType
        <4>2. CASE WriteChain(s)
          BY <1>0, <2>2, <4>2 DEF WriteChain, Write, DocType
        <4>3. CASE WriteRestore(s)
          BY <1>0, <2>2, <4>3 DEF WriteRestore, Write, DocType
        <4> QED BY <1>4, <4>1, <4>2, <4>3
      <3>2. doc[d].status \notin {"NONE", "PURGED"}
        BY <1>4, <2>2 DEF WriteStep, WriteChain, WriteRestore, Exists
      <3> QED BY <1>0, <3>1, <3>2 DEF Evolves, RowEvidence
    <2> QED BY <2>1, <2>2
  <1>5. ASSUME NEW s \in Slots, NEW u \in Users, NEW e \in Docs, NEW h \in BOOLEAN,
               SetLegalHold(s, u, e, h)
        PROVE  Evolves(doc[d], doc'[d])
    <2>1. /\ doc'[d].status = doc[d].status
          /\ doc'[d].publishedAt = doc[d].publishedAt
          /\ doc'[d].archivedAt = doc[d].archivedAt
          /\ doc'[d].deletedAt = doc[d].deletedAt
      BY <1>0, <1>5 DEF SetLegalHold, Write, DocType
    <2> QED BY <1>0, <2>1 DEF Evolves, RowEvidence
  <1>6. ASSUME NEW s \in Slots, NEW e \in Docs, ArchiveDocument(s, e)
        PROVE  Evolves(doc[d], doc'[d])
    <2>1. CASE e # d
      BY <1>0, <1>1, <1>6, <2>1 DEF ArchiveDocument, Write
    <2>2. CASE e = d
      <3>1. /\ doc'[d].status = "ARCHIVED"
            /\ doc'[d].publishedAt = doc[d].publishedAt
            /\ doc'[d].archivedAt = req[s].now
        BY <1>0, <1>6, <2>2 DEF ArchiveDocument, Write, DocType
      <3>2. /\ req[s].now # 0
            /\ doc[d].publishedAt # 0
            /\ doc[d].status # "PURGED"
        BY <1>6, <2>2 DEF ArchiveDocument, EvidenceInv, Seen, Unrefuted, Exists
      <3> QED BY <3>1, <3>2 DEF Evolves, RowEvidence
    <2> QED BY <2>1, <2>2
  <1>7. ASSUME NEW s \in Slots, NEW e \in Docs, PurgeDocument(s, e)
        PROVE  Evolves(doc[d], doc'[d])
    <2>1. CASE e # d
      <3>1. doc'[d] = doc[d]
        BY <1>0, <1>7, <2>1 DEF PurgeDocument, Write
      <3> QED BY <1>1, <3>1
    <2>2. CASE e = d
      <3>1. doc'[d].status = "PURGED"
        BY <1>0, <1>7, <2>2 DEF PurgeDocument, Write, NewDoc
      <3> QED BY <3>1 DEF Evolves, RowEvidence
    <2> QED BY <2>1, <2>2
  <1>8. CASE UNCHANGED doc
    BY <1>1, <1>8
  <1>9. ASSUME NEW s \in Slots, Request(s) \/ StartRetention(s) \/ StartPurge(s)
        PROVE  Evolves(doc[d], doc'[d])
    BY <1>5, <1>8, <1>9, RequestsRead
  <1>10. ASSUME NEW s \in Slots, Step(s) \/ Die(s)
         PROVE  Evolves(doc[d], doc'[d])
    BY <1>3, <1>4, <1>6, <1>7, <1>8, <1>10 DEF Step, Die, CheckTransition, ReadStep, Refused,
                                               SkipDocument
  <1> QED BY <1>2, <1>8, <1>9, <1>10 DEF Next, vars, Tick

(* What a slot knows stays true while the rows evolve. *)
LEMMA SeenStays ==
    ASSUME TypeOK, \A d \in Docs : Evolves(doc[d], doc'[d])
    PROVE  \A d \in Docs : /\ doc[d].status # "NONE" => doc'[d].status # "NONE"
                           /\ Unrefuted(doc[d]) => Unrefuted(doc'[d])
  BY DEF Evolves, Unrefuted

LEMMA SlotValue ==
    ASSUME TypeOK, NEW s \in Slots, NEW r, Busy(s, r)
    PROVE  req'[s] = r /\ \A t \in Slots : t # s => req'[t] = req[t]
  BY DEF TypeOK, Busy

LEMMA EvidenceStep ==
    ASSUME LifecycleAssumption, EvidenceInv, [Next]_vars
    PROVE  EvidenceInv'
  <1>1. TypeOK'
    BY TypeStep DEF EvidenceInv
  <1>2. \A d \in Docs : Evolves(doc[d], doc'[d])
    BY Evolution
  <1>3. StatusEvidence'
    BY <1>2 DEF StatusEvidence, Evolves, RowEvidence
  <1>4. \A d \in Docs : /\ doc[d].status # "NONE" => doc'[d].status # "NONE"
                        /\ Unrefuted(doc[d]) => Unrefuted(doc'[d])
    BY <1>2, SeenStays DEF EvidenceInv
  <1>5. \A t \in Slots : /\ req[t] \in ReqTypes
                         /\ Seen(t)
    BY DEF EvidenceInv, TypeOK
  <1>6. ASSUME NEW t \in Slots, req'[t] = req[t]
        PROVE  Seen(t)'
    <2>1. req[t].pc = "checked" => req[t].doc \in Docs
      BY <1>5, CallFields DEF Calls
    <2>2. req[t].pc = "archiving" => req[t].todo \subseteq Docs
      BY <1>5, CallFields DEF Jobs
    <2>3. ASSUME req[t].pc = "checked"
          PROVE  /\ req[t].now # 0
                 /\ doc'[req[t].doc].status # "NONE"
                 /\ req[t].action = "ARCHIVE" => Unrefuted(doc'[req[t].doc])
      BY <1>4, <1>5, <1>6, <2>1, <2>3 DEF Seen, Unrefuted
    <2>4. ASSUME req[t].pc = "archiving"
          PROVE  req[t].now # 0 /\ \A d \in req[t].todo : Unrefuted(doc'[d])
      <3>1. ASSUME NEW d \in req[t].todo
            PROVE  Unrefuted(doc'[d])
        <4>1. d \in Docs /\ Unrefuted(doc[d])
          BY <1>5, <2>2, <2>4 DEF Seen
        <4> QED BY <1>4, <4>1 DEF Unrefuted
      <3> QED BY <1>5, <2>4, <3>1 DEF Seen
    <2> QED BY <1>6, <2>3, <2>4 DEF Seen
  <1>7. ASSUME NEW t \in Slots, req'[t].pc \notin {"checked", "archiving"}
        PROVE  Seen(t)'
    BY <1>7 DEF Seen
  <1>8. ASSUME NEW s \in Slots, CheckTransition(s)
        PROVE  Seen(s)'
    <2> DEFINE r == req[s]
    <2>1. r.doc \in Docs /\ r.action \in Actions
      BY <1>5, <1>8, CallFields DEF CheckTransition, Calls
    <2>2. req'[s] = [r EXCEPT !.pc = "checked", !.now = clock]
      BY <1>8, SlotValue DEF CheckTransition, EvidenceInv
    <2>3. /\ req'[s].pc = "checked" /\ req'[s].now = clock
          /\ req'[s].doc = r.doc /\ req'[s].action = r.action
      BY <1>5, <1>8, <2>2 DEF CheckTransition, ReqTypes, TransitionCalls, OtherCalls, JobRuns, idle
    <2>4. doc' = doc /\ doc[r.doc].status = TRANSITION_MAP[r.action].from
      BY <1>8 DEF CheckTransition
    <2>5. doc[r.doc].status # "NONE"
      BY <2>1, <2>4, TransitionTypes
    <2>6. r.action = "ARCHIVE" => doc[r.doc].publishedAt # 0
      BY <2>1, <2>4 DEF TRANSITION_MAP, Edge, EvidenceInv, StatusEvidence
    <2>7. clock # 0
      BY DEF EvidenceInv, TypeOK
    <2> QED BY <2>3, <2>4, <2>5, <2>6, <2>7 DEF Seen, Unrefuted
  <1>9. ASSUME NEW s \in Slots, NEW day \in AsOf \cup {clock},
               StartJob(s, "archiving", day, Overdue(day))
        PROVE  Seen(s)'
    <2>1. req'[s] = [idle EXCEPT !.pc = "archiving", !.now = day, !.todo = Overdue(day)]
      BY <1>9, SlotValue DEF StartJob, EvidenceInv
    <2>2. req'[s].pc = "archiving" /\ req'[s].now = day /\ req'[s].todo = Overdue(day)
      BY <2>1 DEF idle
    <2>3. doc' = doc
      BY <1>9 DEF StartJob
    <2>4. day # 0
      BY LifecycleAssumption DEF LifecycleAssumption, EvidenceInv, TypeOK
    <2> QED BY <2>2, <2>3, <2>4 DEF Seen, Unrefuted, Overdue
  <1>10. ASSUME NEW s \in Slots, NEW d \in Docs, req[s].pc \in Jobs, Looped(s, d)
         PROVE  Seen(s)'
    <2>1. CASE req'[s] = idle
      BY <1>7, <2>1 DEF idle
    <2>2. CASE req'[s] = [req[s] EXCEPT !.todo = @ \ {d}]
      <3>1. /\ req'[s].pc = req[s].pc /\ req'[s].now = req[s].now
            /\ req'[s].todo \subseteq req[s].todo
            /\ req[s].todo \subseteq Docs
        BY <1>5, <1>10, <2>2 DEF Jobs, ReqTypes, TransitionCalls, OtherCalls, JobRuns, idle
      <3>2. req[s].pc # "checked"
        BY <1>10 DEF Jobs
      <3>3. ASSUME req[s].pc = "archiving", NEW e \in req'[s].todo
            PROVE  Unrefuted(doc'[e])
        <4>1. e \in Docs /\ Unrefuted(doc[e])
          BY <1>5, <3>1, <3>3 DEF Seen
        <4> QED BY <1>4, <4>1 DEF Unrefuted
      <3> QED BY <1>5, <3>1, <3>2, <3>3 DEF Seen
    <2> QED BY <1>10, <2>1, <2>2, SlotValue DEF Looped, Done, EvidenceInv
  <1>11. ASSUME NEW s \in Slots, NEW r, r.pc \notin {"checked", "archiving"}, Busy(s, r)
         PROVE  Seen(s)'
    BY <1>7, <1>11, SlotValue DEF EvidenceInv
  <1>12. ASSUME NEW s \in Slots, NEW t \in Slots,
                Request(s) \/ StartRetention(s) \/ StartPurge(s) \/ Step(s) \/ Die(s)
         PROVE  Seen(t)'
    <2>1. \/ req' = req
          \/ CheckTransition(s)
          \/ \E day \in AsOf \cup {clock} : StartJob(s, "archiving", day, Overdue(day))
          \/ \E d \in Docs : req[s].pc \in Jobs /\ Looped(s, d)
          \/ \E r : r.pc \notin {"checked", "archiving"} /\ Busy(s, r)
      <3>1. \A u \in Users, d \in Docs :
                /\ \A a \in Actions : [idle EXCEPT !.pc = "status", !.user = u, !.doc = d, !.action = a].pc = "status"
                /\ \A c \in Chains : [idle EXCEPT !.pc = "chaining", !.user = u, !.doc = d, !.chain = c].pc = "chaining"
        BY DEF idle
      <3>2. [idle EXCEPT !.pc = "purging", !.now = clock, !.todo = Expired].pc = "purging"
        BY DEF idle
      <3>3. [req[s] EXCEPT !.pc = "stepping", !.step = doc[req[s].doc].step + 1].pc = "stepping"
        BY <1>5 DEF ReqTypes, TransitionCalls, OtherCalls, JobRuns, idle
      <3>4. idle.pc = "idle"
        BY DEF idle
      <3>5. CASE Request(s)
        <4>1. ASSUME NEW u \in Users, NEW d \in Docs, NEW a \in Actions,
                     RequestTransition(s, u, d, a) \/ RequestStatus(s, u, d, a)
              PROVE  \E r : r.pc \notin {"checked", "archiving"} /\ Busy(s, r)
          <5>1. Busy(s, [idle EXCEPT !.pc = "status", !.user = u, !.doc = d, !.action = a])
            BY <4>1 DEF RequestTransition, RequestStatus
          <5> QED BY <3>1, <5>1
        <4>2. ASSUME NEW u \in Users, NEW d \in Docs, RequestStep(s, u, d)
              PROVE  \E r : r.pc \notin {"checked", "archiving"} /\ Busy(s, r)
          <5>1. Busy(s, [idle EXCEPT !.pc = "advance", !.user = u, !.doc = d])
            BY <4>2 DEF RequestStep
          <5>2. [idle EXCEPT !.pc = "advance", !.user = u, !.doc = d].pc = "advance"
            BY DEF idle
          <5> QED BY <5>1, <5>2
        <4>3. ASSUME NEW u \in Users, NEW d \in Docs, NEW c \in Chains, RequestChain(s, u, d, c)
              PROVE  \E r : r.pc \notin {"checked", "archiving"} /\ Busy(s, r)
          <5>1. Busy(s, [idle EXCEPT !.pc = "chaining", !.user = u, !.doc = d, !.chain = c])
            BY <4>3 DEF RequestChain
          <5> QED BY <3>1, <5>1
        <4>4. ASSUME NEW u \in Users, NEW d \in Docs, RequestRestore(s, u, d)
              PROVE  \E r : r.pc \notin {"checked", "archiving"} /\ Busy(s, r)
          <5>1. Busy(s, [idle EXCEPT !.pc = "restoring", !.user = u, !.doc = d])
            BY <4>4 DEF RequestRestore
          <5>2. [idle EXCEPT !.pc = "restoring", !.user = u, !.doc = d].pc = "restoring"
            BY DEF idle
          <5> QED BY <5>1, <5>2
        <4>5. ASSUME NEW u \in Users, NEW d \in Docs, NEW h \in BOOLEAN, SetLegalHold(s, u, d, h)
              PROVE  req' = req
          BY <4>5 DEF SetLegalHold
        <4>6. ASSUME NEW u \in Users, NEW day \in AsOf, RunRetention(s, u, day)
              PROVE  StartJob(s, "archiving", day, Overdue(day))
          BY <4>6 DEF RunRetention
        <4> QED BY <3>5, <4>1, <4>2, <4>3, <4>4, <4>5, <4>6 DEF Request
      <3>6. CASE StartPurge(s)
        BY <3>2, <3>6 DEF StartPurge, StartJob
      <3>7. CASE Step(s) \/ Die(s)
        BY <3>3, <3>4, <3>7 DEF Step, Die, WriteStatus, WriteStep, WriteChain, WriteRestore,
                          ReadStep, Refused, Done, ArchiveDocument, PurgeDocument, SkipDocument, Jobs
      <3>8. CASE StartRetention(s)
        BY <3>8 DEF StartRetention
      <3> QED BY <1>12, <3>5, <3>6, <3>7, <3>8
    <2>2. CASE t = s
      BY <1>6, <1>8, <1>9, <1>10, <1>11, <2>1, <2>2
    <2>3. CASE t # s
      <3>1. req'[t] = req[t]
        <4>1. \/ req' = req
              \/ \E r : Busy(s, r)
          BY <2>1 DEF CheckTransition, StartJob, Looped, Done
        <4> QED BY <2>3, <4>1, SlotValue DEF EvidenceInv
      <3> QED BY <1>6, <3>1
    <2> QED BY <2>2, <2>3
  <1>13. \A t \in Slots : Seen(t)'
    <2>1. CASE UNCHANGED req
      BY <1>6, <2>1
    <2>2. CASE \E s \in Slots : Request(s) \/ StartRetention(s) \/ StartPurge(s) \/ Step(s) \/ Die(s)
      BY <1>12, <2>2
    <2> QED BY <2>1, <2>2 DEF Next, vars, Tick, Create
  <1> QED BY <1>1, <1>3, <1>13 DEF EvidenceInv

(* Whatever overlaps, a document that is published or archived has been    *)
(* published at some time, an archived one has its archiving date, and one *)
(* in the trash its deletion date: StatusEvidence.                         *)
THEOREM EvidenceKept == Spec => []StatusEvidence
  <1>1. Init => EvidenceInv
    <2> SUFFICES ASSUME Init PROVE EvidenceInv
      OBVIOUS
    <2>1. TypeOK
      BY InitType
    <2>2. StatusEvidence
      BY DEF Init, StatusEvidence, NewDoc
    <2>3. \A s \in Slots : Seen(s)
      BY DEF Init, Seen, idle
    <2> QED BY <2>1, <2>2, <2>3 DEF EvidenceInv
  <1>2. EvidenceInv /\ [Next]_vars => EvidenceInv'
    BY EvidenceStep, LifecycleAssumption
  <1>3. EvidenceInv => StatusEvidence
    BY DEF EvidenceInv
  <1> QED BY <1>1, <1>2, <1>3, PTL DEF Spec

-----------------------------------------------------------------------------
(***************************************************************************)
(* Calls that do not overlap.  With a single slot, what a call or a run    *)
(* read is still so when it writes: Fresh.  Hence every write is a step of *)
(* the documented workflow and every other step a stutter.                 *)
(***************************************************************************)
Serial == \A s, t \in Slots : s = t

(* A caller of workflow-service has the role and the turn; one who sets the *)
(* status directly has neither, and the status is looked at next.           *)
FreshTransition(r) ==
    \/ r.user \in Direct
    \/ /\ MayRequest(r.user, r.doc, r.action)
       /\ doc[r.doc].status = TRANSITION_MAP[r.action].from
       /\ r.action = "APPROVE" /\ Bound(r.user, r.doc) =>
               MyTurn(r.user, r.doc) /\ FinalStep(r.doc)

FreshStep(r) ==
    /\ doc[r.doc].status = "PENDING"
    /\ MyTurn(r.user, r.doc) /\ ~FinalStep(r.doc)

FreshChain(r) ==
    /\ doc[r.doc].status = "PENDING" /\ doc[r.doc].step = 0
    /\ r.chain \in Chains

Fresh(s) ==
    LET r == req[s] IN
    /\ r.pc \in {"status", "checked"} => FreshTransition(r)
    /\ r.pc = "checked" => doc[r.doc].status = TRANSITION_MAP[r.action].from
    /\ r.pc \in {"advance", "stepping"} => FreshStep(r)
    /\ r.pc = "stepping" => r.step = doc[r.doc].step + 1
    /\ r.pc = "chaining" => FreshChain(r)
    /\ r.pc = "restoring" => doc[r.doc].status = "DELETED"
    /\ r.pc \in {"checked", "purging"} => r.now \in 1 .. clock
    /\ r.pc = "archiving" => r.now \in (1 .. clock) \cup AsOf
    /\ r.pc = "archiving" => \A d \in r.todo :
            /\ doc[d].status = "PUBLISHED" /\ ~doc[d].hold
            /\ doc[d].publishedAt + RetentionDays < r.now
    /\ r.pc = "purging" => \A d \in r.todo :
            /\ doc[d].status = "DELETED"
            /\ doc[d].deletedAt + TrashDays < r.now

SerialInv == TypeOK /\ \A s \in Slots : Fresh(s)

(* A slot that is idle knows nothing. *)
LEMMA FreshIdle ==
    ASSUME NEW s \in Slots, req[s].pc = "idle"
    PROVE  Fresh(s)
  BY DEF Fresh

(* What a slot knows depends on the documents it names and on the clock. *)
LEMMA FreshStays ==
    ASSUME SerialInv, TypeOK', NEW s \in Slots, req'[s] = req[s], clock' >= clock,
           \A d \in Docs : doc[d].status # "NONE" => doc'[d] = doc[d]
    PROVE  Fresh(s)'
  <1> DEFINE r == req[s]
  <1>0. /\ r \in ReqTypes
        /\ Fresh(s)
        /\ clock \in Nat /\ clock' \in Nat
    BY DEF SerialInv, TypeOK
  <1>1. CASE r.pc \in {"status", "checked"}
    <2>1. r.doc \in Docs /\ r.action \in Actions
      BY <1>0, <1>1, CallFields DEF Calls
    <2>2. r.pc = "checked" \/ r.user \notin Direct => doc[r.doc].status # "NONE"
      BY <1>0, <1>1, <2>1, TransitionTypes DEF Fresh, FreshTransition
    <2>3. r.pc = "checked" \/ r.user \notin Direct => doc'[r.doc] = doc[r.doc]
      BY <2>1, <2>2
    <2>4. r.pc = "checked" => r.now \in 1 .. clock'
      BY <1>0 DEF Fresh
    <2>5. FreshTransition(r)'
      <3>1. CASE r.user \in Direct
        BY <3>1 DEF FreshTransition
      <3>2. CASE r.user \notin Direct
        BY <1>0, <1>1, <2>3, <3>2 DEF Fresh, FreshTransition, Bound, MyTurn, FinalStep,
                                      MayRequest, CanManage
      <3> QED BY <3>1, <3>2
    <2> QED
      BY <1>0, <1>1, <2>3, <2>4, <2>5 DEF Fresh, FreshTransition, Bound, MyTurn, FinalStep,
                                          MayRequest, CanManage
  <1>2. CASE r.pc \in {"advance", "stepping", "chaining", "restoring"}
    <2>1. r.doc \in Docs
      BY <1>0, <1>2, CallFields DEF Calls
    <2>2. doc[r.doc].status # "NONE"
      BY <1>0, <1>2 DEF Fresh, FreshStep, FreshChain
    <2>3. doc'[r.doc] = doc[r.doc]
      BY <2>1, <2>2
    <2> QED BY <1>0, <1>2, <2>3 DEF Fresh, FreshStep, FreshChain, MyTurn, FinalStep
  <1>3. CASE r.pc \in Jobs
    <2>1. r.todo \subseteq Docs
      BY <1>0, <1>3, CallFields
    <2>2. \A d \in r.todo : doc'[d] = doc[d]
      BY <1>0, <1>3, <2>1 DEF Fresh, Jobs
    <2>3. r.now \in (1 .. clock') \cup AsOf /\ (r.pc = "purging" => r.now \in 1 .. clock')
      BY <1>0, <1>3 DEF Fresh, Jobs
    <2> QED BY <1>0, <1>3, <2>2, <2>3 DEF Fresh, Jobs
  <1>4. CASE r.pc = "idle"
    BY <1>4, FreshIdle DEF Fresh
  <1> QED BY <1>0, <1>1, <1>2, <1>3, <1>4, CallFields DEF Calls

LEMMA FreshRun ==
    ASSUME SerialInv, NEW s \in Slots, NEW day \in AsOf \cup {clock},
           StartJob(s, "archiving", day, Overdue(day))
    PROVE  Fresh(s)'
  <1>1. req'[s] = [idle EXCEPT !.pc = "archiving", !.now = day, !.todo = Overdue(day)]
    BY SlotValue DEF StartJob, SerialInv
  <1>2. req'[s].pc = "archiving" /\ req'[s].now = day /\ req'[s].todo = Overdue(day)
    BY <1>1 DEF idle
  <1>3. doc' = doc /\ clock' = clock /\ clock \in 1 .. clock
    BY DEF StartJob, SerialInv, TypeOK
  <1> QED BY <1>2, <1>3 DEF Fresh, Overdue

LEMMA FreshRequest ==
    ASSUME SerialInv, NEW s \in Slots, Request(s)
    PROVE  Fresh(s)'
  <1>0. /\ TypeOK
        /\ Fresh(s)
    BY DEF SerialInv
  <1>1. ASSUME NEW u \in Users, NEW d \in Docs, NEW a \in Actions, RequestTransition(s, u, d, a)
        PROVE  Fresh(s)'
    <2>1. req'[s] = [idle EXCEPT !.pc = "status", !.user = u, !.doc = d, !.action = a]
      BY <1>0, <1>1, SlotValue DEF RequestTransition
    <2>2. /\ req'[s].pc = "status" /\ req'[s].user = u
          /\ req'[s].doc = d /\ req'[s].action = a
      BY <2>1 DEF idle
    <2>3. doc' = doc
      BY <1>1 DEF RequestTransition
    <2> QED
      BY <1>1, <2>2, <2>3 DEF RequestTransition, Fresh, FreshTransition, Bound, MyTurn, FinalStep,
                              MayRequest, CanManage
  <1>2. ASSUME NEW u \in Users, NEW d \in Docs, RequestStep(s, u, d)
        PROVE  Fresh(s)'
    <2>1. req'[s] = [idle EXCEPT !.pc = "advance", !.user = u, !.doc = d]
      BY <1>0, <1>2, SlotValue DEF RequestStep
    <2>2. req'[s].pc = "advance" /\ req'[s].user = u /\ req'[s].doc = d
      BY <2>1 DEF idle
    <2>3. doc' = doc
      BY <1>2 DEF RequestStep
    <2> QED BY <1>2, <2>2, <2>3 DEF RequestStep, Fresh, FreshStep, MyTurn, FinalStep
  <1>3. ASSUME NEW u \in Users, NEW d \in Docs, NEW c \in Chains, RequestChain(s, u, d, c)
        PROVE  Fresh(s)'
    <2>1. req'[s] = [idle EXCEPT !.pc = "chaining", !.user = u, !.doc = d, !.chain = c]
      BY <1>0, <1>3, SlotValue DEF RequestChain
    <2>2. req'[s].pc = "chaining" /\ req'[s].doc = d /\ req'[s].chain = c
      BY <2>1 DEF idle
    <2>3. doc' = doc
      BY <1>3 DEF RequestChain
    <2> QED BY <1>3, <2>2, <2>3 DEF RequestChain, Fresh, FreshChain
  <1>4. ASSUME NEW u \in Users, NEW d \in Docs, RequestRestore(s, u, d)
        PROVE  Fresh(s)'
    <2>1. req'[s] = [idle EXCEPT !.pc = "restoring", !.user = u, !.doc = d]
      BY <1>0, <1>4, SlotValue DEF RequestRestore
    <2>2. req'[s].pc = "restoring" /\ req'[s].doc = d
      BY <2>1 DEF idle
    <2>3. doc' = doc
      BY <1>4 DEF RequestRestore
    <2> QED BY <1>4, <2>2, <2>3 DEF RequestRestore, Fresh
  <1>5. ASSUME NEW u \in Users, NEW d \in Docs, NEW h \in BOOLEAN, SetLegalHold(s, u, d, h)
        PROVE  Fresh(s)'
    <2>1. req'[s].pc = "idle"
      BY <1>5 DEF SetLegalHold, IsIdle
    <2> QED BY <2>1 DEF Fresh
  <1>6. ASSUME NEW u \in Users, NEW d \in Docs, NEW a \in Actions, RequestStatus(s, u, d, a)
        PROVE  Fresh(s)'
    <2>1. req'[s] = [idle EXCEPT !.pc = "status", !.user = u, !.doc = d, !.action = a]
      BY <1>0, <1>6, SlotValue DEF RequestStatus
    <2>2. req'[s].pc = "status" /\ req'[s].user = u /\ u \in Direct
      BY <1>6, <2>1 DEF idle, RequestStatus
    <2> QED BY <2>2 DEF Fresh, FreshTransition
  <1>7. ASSUME NEW u \in Users, NEW day \in AsOf, RunRetention(s, u, day)
        PROVE  Fresh(s)'
    BY <1>0, <1>7, FreshRun DEF RunRetention
  <1> QED BY <1>1, <1>2, <1>3, <1>4, <1>5, <1>6, <1>7 DEF Request

LEMMA FreshStart ==
    ASSUME LifecycleAssumption, SerialInv, NEW s \in Slots, StartRetention(s) \/ StartPurge(s)
    PROVE  Fresh(s)'
  <1>0. TypeOK /\ clock \in 1 .. clock
    BY DEF SerialInv, TypeOK
  <1>1. CASE StartRetention(s)
    BY <1>1, FreshRun DEF StartRetention
  <1>2. CASE StartPurge(s)
    <2>1. req'[s] = [idle EXCEPT !.pc = "purging", !.now = clock, !.todo = Expired]
      BY <1>0, <1>2, SlotValue DEF StartPurge, StartJob
    <2>2. req'[s].pc = "purging" /\ req'[s].now = clock /\ req'[s].todo = Expired
      BY <2>1 DEF idle
    <2>3. doc' = doc /\ clock' = clock
      BY <1>2 DEF StartPurge, StartJob
    <2> QED BY <1>0, <2>2, <2>3 DEF Fresh, Expired
  <1> QED BY <1>1, <1>2

(* A step of the call itself: it has read what it will need, or it ends. *)
LEMMA FreshProgress ==
    ASSUME LifecycleAssumption, SerialInv, NEW s \in Slots, Step(s) \/ Die(s)
    PROVE  Fresh(s)'
  <1> DEFINE r == req[s]
  <1>0. /\ TypeOK /\ Fresh(s)
        /\ r \in ReqTypes
        /\ clock \in 1 .. clock
    BY DEF SerialInv, TypeOK
  <1>1. ASSUME Done(s)
        PROVE  Fresh(s)'
    <2>1. req'[s] = idle
      BY <1>0, <1>1, SlotValue DEF Done
    <2>2. req'[s].pc = "idle"
      BY <2>1 DEF idle
    <2> QED BY <2>2 DEF Fresh
  <1>2. CASE CheckTransition(s)
    <2>1. req'[s] = [r EXCEPT !.pc = "checked", !.now = clock]
      BY <1>0, <1>2, SlotValue DEF CheckTransition
    <2>2. /\ req'[s].pc = "checked" /\ req'[s].now = clock /\ req'[s].doc = r.doc
          /\ req'[s].action = r.action /\ req'[s].user = r.user
      BY <1>0, <1>2, <2>1 DEF CheckTransition, ReqTypes, TransitionCalls, OtherCalls, JobRuns, idle
    <2>3. doc' = doc /\ clock' = clock
      BY <1>2 DEF CheckTransition
    <2>4. FreshTransition(r) /\ doc[r.doc].status = TRANSITION_MAP[r.action].from
      BY <1>0, <1>2 DEF Fresh, CheckTransition
    <2> QED
      BY <1>0, <2>2, <2>3, <2>4 DEF Fresh, FreshTransition, Bound, MyTurn, FinalStep, MayRequest,
                                    CanManage
  <1>3. CASE ReadStep(s)
    <2>1. req'[s] = [r EXCEPT !.pc = "stepping", !.step = doc[r.doc].step + 1]
      BY <1>0, <1>3, SlotValue DEF ReadStep
    <2>2. /\ req'[s].pc = "stepping" /\ req'[s].step = doc[r.doc].step + 1
          /\ req'[s].doc = r.doc /\ req'[s].user = r.user
      BY <1>0, <1>3, <2>1 DEF ReadStep, ReqTypes, TransitionCalls, OtherCalls, JobRuns, idle
    <2>3. doc' = doc /\ clock' = clock
      BY <1>3 DEF ReadStep
    <2>4. FreshStep(r)
      BY <1>0, <1>3 DEF Fresh, ReadStep
    <2> QED BY <1>0, <2>2, <2>3, <2>4 DEF Fresh, FreshStep, MyTurn, FinalStep
  <1>4. ASSUME NEW d \in Docs, r.pc \in Jobs, Looped(s, d), clock' = clock,
               \A e \in Docs \ {d} : doc'[e] = doc[e]
        PROVE  Fresh(s)'
    <2>1. CASE r.todo = {d}
      BY <1>1, <1>4, <2>1 DEF Looped
    <2>2. CASE r.todo # {d}
      <3>1. req'[s] = [r EXCEPT !.todo = @ \ {d}]
        BY <1>0, <1>4, <2>2, SlotValue DEF Looped
      <3>2. /\ req'[s].pc = r.pc /\ req'[s].now = r.now /\ req'[s].todo = r.todo \ {d}
            /\ r.todo \subseteq Docs
        BY <1>0, <1>4, <3>1 DEF Jobs, ReqTypes, TransitionCalls, OtherCalls, JobRuns, idle
      <3>3. \A e \in req'[s].todo : e \in r.todo /\ doc'[e] = doc[e]
        BY <1>4, <3>2
      <3> QED BY <1>0, <1>4, <3>2, <3>3 DEF Fresh, Jobs
    <2> QED BY <2>1, <2>2
  <1>5. ASSUME NEW d \in Docs, ArchiveDocument(s, d) \/ PurgeDocument(s, d) \/ SkipDocument(s, d)
        PROVE  Fresh(s)'
    <2>1. /\ r.pc \in Jobs /\ Looped(s, d) /\ clock' = clock
          /\ \A e \in Docs \ {d} : doc'[e] = doc[e]
      BY <1>0, <1>5 DEF ArchiveDocument, PurgeDocument, SkipDocument, Jobs, Write, TypeOK
    <2> QED BY <1>4, <2>1
  <1>6. CASE WriteStatus(s) \/ WriteStep(s) \/ WriteChain(s) \/ WriteRestore(s) \/ Refused(s) \/ Die(s)
    BY <1>1, <1>6 DEF WriteStatus, WriteStep, WriteChain, WriteRestore, Refused, Die
  <1> QED BY <1>2, <1>3, <1>5, <1>6 DEF Step

LEMMA SerialStep ==
    ASSUME LifecycleAssumption, Serial, SerialInv, [Next]_vars
    PROVE  SerialInv'
  <1>1. TypeOK'
    BY TypeStep DEF SerialInv
  <1>2. clock \in Nat
    BY DEF SerialInv, TypeOK
  <1>3. ASSUME NEW s \in Slots
        PROVE  Fresh(s)'
    <2>1. CASE UNCHANGED vars
      BY <1>1, <1>2, <1>3, <2>1, FreshStays DEF vars
    <2>2. CASE Tick
      BY <1>1, <1>2, <1>3, <2>2, FreshStays DEF Tick
    <2>3. ASSUME NEW d \in Docs, Create(d)
          PROVE  Fresh(s)'
      <3>1. /\ req' = req /\ clock' = clock /\ doc[d].status = "NONE"
            /\ \A e \in Docs \ {d} : doc'[e] = doc[e]
        BY <2>3 DEF Create, Write, SerialInv, TypeOK
      <3> QED BY <1>1, <1>2, <3>1, FreshStays
    <2>4. ASSUME NEW t \in Slots,
                 Request(t) \/ StartRetention(t) \/ StartPurge(t) \/ Step(t) \/ Die(t)
          PROVE  Fresh(s)'
      <3>1. t = s
        BY DEF Serial
      <3> QED BY <2>4, <3>1, FreshRequest, FreshStart, FreshProgress
    <2> QED BY <2>1, <2>2, <2>3, <2>4 DEF Next
  <1> QED BY <1>1, <1>3 DEF SerialInv

LEMMA TransitionImplements ==
    ASSUME LifecycleAssumption, SerialInv, NEW s \in Slots, WriteStatus(s)
    PROVE  Workflow!Next
  <1> DEFINE r == req[s]
  <1> DEFINE row == doc[r.doc]
  <1>1. /\ r \in ReqTypes
        /\ r.pc = "checked"
        /\ Write(r.doc, Moved(row, r.action, r.now)) /\ clock' = clock
        /\ signed' = Signed(r.doc, r.action, r.user)
    BY DEF WriteStatus, SerialInv, TypeOK
  <1>2. /\ r.user \in Users /\ r.doc \in Docs /\ r.action \in Actions /\ r.now \in Nat
    BY <1>1, CallFields DEF Calls
  <1>3. row \in DocType
    BY <1>2 DEF SerialInv, TypeOK
  <1>4. /\ FreshTransition(r)
        /\ row.status = TRANSITION_MAP[r.action].from
        /\ r.now \in Workflow!Times
    BY <1>1 DEF SerialInv, Fresh, Workflow!Times
  <1>5. CASE r.action = "SUBMIT"
    <2>1. Moved(row, r.action, r.now) = [row EXCEPT !.status = "PENDING"]
      <3>1. Moved(row, r.action, r.now) = Moved(row, "SUBMIT", r.now)
        BY <1>5
      <3>2. @ = [row EXCEPT !.status = "PENDING"]
        BY <1>2, <1>3 DEF Moved, TRANSITION_MAP, Edge, DocType
      <3> QED BY <3>1, <3>2
    <2>2. row.status = TRANSITION_MAP["SUBMIT"].from
      BY <1>4, <1>5
    <2>3. Workflow!Submit(r.doc)
      BY <1>1, <1>5, <2>1, <2>2 DEF TRANSITION_MAP, Edge, Write, Signed, Workflow!Submit, Workflow!Signs
    <2> QED BY <1>2, <2>3 DEF Workflow!Next
  <1>6. CASE r.action = "APPROVE"
    <2>0. Moved(row, r.action, r.now) = [row EXCEPT !.status = "PUBLISHED", !.publishedAt = r.now]
      <3>1. Moved(row, r.action, r.now) = Moved(row, "APPROVE", r.now)
        BY <1>6
      <3>2. @ = [row EXCEPT !.status = "PUBLISHED", !.publishedAt = r.now]
        BY <1>2, <1>3 DEF Moved, TRANSITION_MAP, Edge, DocType
      <3> QED BY <3>1, <3>2
    <2>1. doc' = [doc EXCEPT ![r.doc] = [row EXCEPT !.status = "PUBLISHED", !.publishedAt = r.now]]
      BY <1>1, <2>0 DEF Write
    <2>5. signed' = [signed EXCEPT ![r.doc] = Append(signed[r.doc], r.user)]
      BY <1>1, <1>6 DEF Signed
    <2>2. row.status = "PENDING"
      <3>1. row.status = TRANSITION_MAP["APPROVE"].from
        BY <1>4, <1>6
      <3> QED BY <3>1 DEF TRANSITION_MAP, Edge
    <2>3. r.user \notin Direct => r.user \in Approvers \cup Admins
      BY <1>4, <1>6 DEF FreshTransition, MayRequest
    <2>4. Workflow!Publish(r.doc, r.user, r.now)
      <3>1. CASE r.user \in Admins \cup Direct
        BY <1>1, <1>2, <2>1, <2>2, <2>5, <3>1 DEF Workflow!Publish, Workflow!Signs
      <3>2. CASE r.user \notin Admins \cup Direct /\ row.chain = <<>>
        BY <1>1, <1>2, <2>1, <2>2, <2>3, <2>5, <3>2 DEF Workflow!Publish, Workflow!Signs
      <3>3. CASE r.user \notin Admins \cup Direct /\ row.chain # <<>>
        <4>1. MyTurn(r.user, r.doc) /\ FinalStep(r.doc)
          BY <1>4, <1>6, <3>3 DEF FreshTransition, Bound
        <4>2. row.step \in Nat /\ Len(row.chain) \in Nat
          BY <1>3 DEF DocType
        <4>3. Workflow!Turn(r.doc, r.user) /\ Workflow!LastTurn(r.doc)
          BY <4>1, <4>2 DEF MyTurn, FinalStep, Workflow!Turn, Workflow!LastTurn
        <4> QED
          BY <1>1, <1>2, <2>1, <2>2, <2>3, <2>5, <3>3, <4>3 DEF Workflow!Publish, Workflow!Signs
      <3> QED BY <3>1, <3>2, <3>3
    <2> QED BY <1>2, <1>4, <2>4 DEF Workflow!Next
  <1>7. CASE r.action = "REJECT"
    <2>1. Moved(row, r.action, r.now) = [row EXCEPT !.status = "DRAFT"]
      <3>1. Moved(row, r.action, r.now) = Moved(row, "REJECT", r.now)
        BY <1>7
      <3>2. @ = [row EXCEPT !.status = "DRAFT"]
        BY <1>2, <1>3 DEF Moved, TRANSITION_MAP, Edge, DocType
      <3> QED BY <3>1, <3>2
    <2>2. row.status = TRANSITION_MAP["REJECT"].from
      BY <1>4, <1>7
    <2>3. Workflow!Reject(r.doc)
      BY <1>1, <1>7, <2>1, <2>2 DEF TRANSITION_MAP, Edge, Write, Signed, Workflow!Reject, Workflow!Becomes
    <2> QED BY <1>2, <2>3 DEF Workflow!Next
  <1>8. CASE r.action = "ARCHIVE"
    <2>1. Moved(row, r.action, r.now) = [row EXCEPT !.status = "ARCHIVED", !.archivedAt = r.now]
      <3>1. Moved(row, r.action, r.now) = Moved(row, "ARCHIVE", r.now)
        BY <1>8
      <3>2. @ = [row EXCEPT !.status = "ARCHIVED", !.archivedAt = r.now]
        BY <1>2, <1>3 DEF Moved, TRANSITION_MAP, Edge, DocType
      <3> QED BY <3>1, <3>2
    <2>2. row.status = TRANSITION_MAP["ARCHIVE"].from
      BY <1>4, <1>8
    <2>3. Workflow!Archive(r.doc, r.now)
      BY <1>1, <1>8, <2>1, <2>2 DEF TRANSITION_MAP, Edge, Write, Signed, Workflow!Archive, Workflow!Becomes
    <2> QED BY <1>2, <1>4, <2>3 DEF Workflow!Next
  <1>9. CASE r.action = "DELETE"
    <2>1. Moved(row, r.action, r.now) = [row EXCEPT !.status = "DELETED", !.deletedAt = r.now]
      <3>1. Moved(row, r.action, r.now) = Moved(row, "DELETE", r.now)
        BY <1>9
      <3>2. @ = [row EXCEPT !.status = "DELETED", !.deletedAt = r.now]
        BY <1>2, <1>3 DEF Moved, TRANSITION_MAP, Edge, DocType
      <3> QED BY <3>1, <3>2
    <2>2. row.status = TRANSITION_MAP["DELETE"].from
      BY <1>4, <1>9
    <2>3. Workflow!Delete(r.doc, r.now)
      BY <1>1, <1>9, <2>1, <2>2 DEF TRANSITION_MAP, Edge, Write, Signed, Workflow!Delete, Workflow!Becomes
    <2> QED BY <1>2, <1>4, <2>3 DEF Workflow!Next
  <1> QED BY <1>2, <1>5, <1>6, <1>7, <1>8, <1>9 DEF Actions, TRANSITION_MAP

(* The other writes of a call. *)
LEMMA CallImplements ==
    ASSUME LifecycleAssumption, SerialInv, NEW s \in Slots,
           WriteStep(s) \/ WriteChain(s) \/ WriteRestore(s)
    PROVE  Workflow!Next
  <1> DEFINE r == req[s]
  <1> DEFINE row == doc[r.doc]
  <1>1. /\ r \in ReqTypes /\ r.pc \in Calls /\ clock' = clock
    BY DEF WriteStep, WriteChain, WriteRestore, SerialInv, TypeOK, Calls
  <1>2. r.user \in Users /\ r.doc \in Docs
    BY <1>1, CallFields
  <1>3. row \in DocType /\ Fresh(s)
    BY <1>2 DEF SerialInv, TypeOK
  <1>4. CASE WriteStep(s)
    <2>1. FreshStep(r) /\ r.step = row.step + 1
      BY <1>3, <1>4 DEF WriteStep, Fresh
    <2>2. doc' = [doc EXCEPT ![r.doc] = [row EXCEPT !.step = row.step + 1]]
      BY <1>4, <2>1 DEF WriteStep, Write
    <2>3. row.step \in Nat /\ Len(row.chain) \in Nat
      BY <1>3 DEF DocType
    <2>4. Workflow!Turn(r.doc, r.user) /\ ~Workflow!LastTurn(r.doc)
      BY <2>1, <2>3 DEF FreshStep, MyTurn, FinalStep, Workflow!Turn, Workflow!LastTurn
    <2>5. signed' = [signed EXCEPT ![r.doc] = Append(signed[r.doc], r.user)]
      BY <1>4 DEF WriteStep
    <2>6. Workflow!SignOff(r.doc, r.user)
      BY <1>1, <1>2, <1>3, <2>1, <2>2, <2>4, <2>5 DEF FreshStep, Workflow!SignOff, Workflow!Signs, DocType
    <2> QED BY <1>2, <2>6 DEF Workflow!Next
  <1>5. CASE WriteChain(s)
    <2>1. FreshChain(r)
      BY <1>3, <1>5 DEF WriteChain, Fresh
    <2>2. [row EXCEPT !.chain = r.chain, !.step = 0] = [row EXCEPT !.chain = r.chain]
      BY <1>3, <2>1 DEF FreshChain, DocType
    <2>3. doc' = [doc EXCEPT ![r.doc] = [row EXCEPT !.chain = r.chain]]
      BY <1>5, <2>2 DEF WriteChain, Write
    <2>4. Workflow!SetChain(r.doc, r.chain) /\ r.chain \in Chains
      BY <1>1, <1>5, <2>1, <2>3 DEF WriteChain, FreshChain, Workflow!SetChain, Workflow!Becomes
    <2> QED BY <1>2, <2>4 DEF Workflow!Next
  <1>6. CASE WriteRestore(s)
    <2>1. Workflow!Restore(r.doc)
      BY <1>1, <1>3, <1>6 DEF WriteRestore, Write, Fresh, Workflow!Restore, Workflow!Becomes
    <2> QED BY <1>2, <2>1 DEF Workflow!Next
  <1> QED BY <1>4, <1>5, <1>6

(* The writes of the jobs. *)
LEMMA JobImplements ==
    ASSUME LifecycleAssumption, SerialInv, NEW s \in Slots, NEW d \in Docs,
           ArchiveDocument(s, d) \/ PurgeDocument(s, d)
    PROVE  Workflow!Next
  <1>1. Fresh(s) /\ doc[d] \in DocType /\ clock \in Nat /\ clock' = clock
    BY DEF SerialInv, TypeOK, ArchiveDocument, PurgeDocument
  <1>2. CASE ArchiveDocument(s, d)
    <2>1. req[s].now \in Workflow!Times \cup AsOf
      BY <1>1, <1>2 DEF ArchiveDocument, Fresh, Workflow!Times
    <2>2. Workflow!Retain(d, req[s].now)
      BY <1>1, <1>2 DEF ArchiveDocument, Fresh, Write, Workflow!Retain, Workflow!Becomes
    <2> QED BY <2>1, <2>2 DEF Workflow!Next
  <1>3. CASE PurgeDocument(s, d)
    <2>1. /\ doc[d].status = "DELETED"
          /\ doc[d].deletedAt + TrashDays < clock
      BY <1>1, <1>3 DEF PurgeDocument, Fresh, DocType, LifecycleAssumption
    <2>2. Workflow!Purge(d)
      BY <1>1, <1>3, <2>1
      DEF PurgeDocument, Write, NewDoc, Workflow!New, Workflow!Purge, Workflow!Signs
    <2> QED BY <2>2 DEF Workflow!Next
  <1> QED BY <1>2, <1>3

LEMMA SerialRefines ==
    ASSUME LifecycleAssumption, SerialInv, [Next]_vars
    PROVE  [Workflow!Next]_(Workflow!vars)
  <1>1. CASE UNCHANGED vars
    BY <1>1 DEF vars, Workflow!vars
  <1>2. CASE Tick
    BY <1>2 DEF Tick, Workflow!Next, Workflow!Tick
  <1>3. ASSUME NEW d \in Docs, Create(d)
        PROVE  Workflow!Next
    <2>1. Workflow!Create(d)
      BY <1>3 DEF Create, Write, NewDoc, Workflow!New, Workflow!Create, Workflow!Becomes
    <2> QED BY <2>1 DEF Workflow!Next
  <1>4. ASSUME NEW s \in Slots, NEW u \in Users, NEW d \in Docs, NEW h \in BOOLEAN,
               SetLegalHold(s, u, d, h)
        PROVE  Workflow!Next
    <2>1. Workflow!SetHold(d, h)
      BY <1>4 DEF SetLegalHold, Exists, Write, Workflow!SetHold, Workflow!Becomes
    <2> QED BY <2>1 DEF Workflow!Next
  <1>5. ASSUME NEW s \in Slots, Request(s) \/ StartRetention(s) \/ StartPurge(s)
        PROVE  Workflow!Next \/ UNCHANGED Workflow!vars
    <2>1. CASE \E u \in Users, d \in Docs, h \in BOOLEAN : SetLegalHold(s, u, d, h)
      BY <1>4, <2>1
    <2>2. CASE ~\E u \in Users, d \in Docs, h \in BOOLEAN : SetLegalHold(s, u, d, h)
      <3>1. UNCHANGED <<doc, signed, clock>>
        BY <1>5, <2>2, RequestsRead
      <3> QED BY <3>1 DEF Workflow!vars
    <2> QED BY <2>1, <2>2
  <1>6. ASSUME NEW s \in Slots, Step(s) \/ Die(s)
        PROVE  Workflow!Next \/ UNCHANGED Workflow!vars
    <2>1. CASE WriteStatus(s)
      BY <2>1, TransitionImplements
    <2>2. CASE WriteStep(s) \/ WriteChain(s) \/ WriteRestore(s)
      BY <2>2, CallImplements
    <2>3. CASE \E d \in Docs : ArchiveDocument(s, d) \/ PurgeDocument(s, d)
      BY <2>3, JobImplements
    <2>4. CASE CheckTransition(s) \/ ReadStep(s) \/ Refused(s) \/ Die(s)
      BY <2>4 DEF CheckTransition, ReadStep, Refused, Die, Workflow!vars
    <2>5. CASE \E d \in Docs : SkipDocument(s, d)
      BY <2>5 DEF SkipDocument, Workflow!vars
    <2> QED BY <1>6, <2>1, <2>2, <2>3, <2>4, <2>5 DEF Step
  <1> QED BY <1>1, <1>2, <1>3, <1>5, <1>6 DEF Next

(* Calls that do not overlap, from workflow-service or to the status        *)
(* endpoint, and runs of the jobs as of any day are the documented workflow *)
(* with its two doors: ImplementsWorkflow, for every number of documents,   *)
(* users, chains and days.                                                  *)
THEOREM SerialImplements ==
    ASSUME Serial
    PROVE  Spec => ImplementsWorkflow
  <1>1. Init => SerialInv /\ Workflow!Init
    <2> SUFFICES ASSUME Init PROVE SerialInv /\ Workflow!Init
      OBVIOUS
    <2>1. TypeOK
      BY InitType
    <2>2. \A s \in Slots : Fresh(s)
      BY FreshIdle DEF Init, idle
    <2>3. Workflow!Init
      BY DEF Init, NewDoc, Workflow!Init, Workflow!New
    <2> QED BY <2>1, <2>2, <2>3 DEF SerialInv
  <1>2. SerialInv /\ [Next]_vars => SerialInv'
    BY SerialStep, LifecycleAssumption, Serial
  <1>3. SerialInv /\ [Next]_vars => [Workflow!Next]_(Workflow!vars)
    BY SerialRefines, LifecycleAssumption
  <1> QED BY <1>1, <1>2, <1>3, PTL DEF Spec, ImplementsWorkflow, Workflow!Spec

-----------------------------------------------------------------------------
(***************************************************************************)
(* The history of a document.  HistoryExplains is not inductive: a         *)
(* document has no history before it is created, and a write appends a row *)
(* whose `from` is what the call read; Fresh says that this is still so.   *)
(***************************************************************************)
After(h, k) == IF k = 0 THEN "DRAFT" ELSE h[k].to

Path(h, status) ==
    /\ \A k \in DOMAIN h : Continues(After(h, k - 1), h[k].from)
    /\ Continues(After(h, Len(h)), status)

Explained(d) ==
    /\ Exists(d) => Path(history[d], doc[d].status)
    /\ doc[d].status = "NONE" => history[d] = <<>>

ExplainedInv == SerialInv /\ \A d \in Docs : Explained(d)

LEMMA PathGrows ==
    ASSUME NEW h \in Seq(RowType), NEW e \in RowType, Path(h, e.from)
    PROVE  Path(Append(h, e), e.to)
  <1> DEFINE g == Append(h, e)
  <1>1. /\ Len(h) \in Nat /\ Len(g) = Len(h) + 1 /\ DOMAIN h = 1 .. Len(h) /\ DOMAIN g = 1 .. Len(h) + 1
        /\ \A k \in 1 .. Len(h) : g[k] = h[k]
        /\ g[Len(h) + 1] = e
    BY AppendProperties, LenProperties
  <1> HIDE DEF g
  <1>2. \A k \in 0 .. Len(h) : After(g, k) = After(h, k)
    BY <1>1 DEF After
  <1>3. ASSUME NEW k \in DOMAIN g PROVE Continues(After(g, k - 1), g[k].from)
    <2>1. k - 1 \in 0 .. Len(h) /\ k \in 1 .. Len(h) + 1
      BY <1>1
    <2>2. CASE k \in 1 .. Len(h)
      BY <1>1, <1>2, <2>1, <2>2 DEF Path
    <2>3. CASE k = Len(h) + 1
      <3>1. k - 1 = Len(h) /\ Len(h) \in 0 .. Len(h)
        BY <1>1, <2>3
      <3>2. After(g, k - 1) = After(h, Len(h))
        BY <1>2, <3>1
      <3> QED BY <1>1, <2>3, <3>2 DEF Path
    <2> QED BY <2>1, <2>2, <2>3, <1>1
  <1>4. After(g, Len(g)) = e.to
    BY <1>1 DEF After
  <1>5. Path(g, e.to)
    BY <1>3, <1>4 DEF Path, Continues
  <1> QED BY <1>5 DEF g

(* What a step does to a document and its history. *)
Recorded(d) ==
    \/ history'[d] = history[d] /\ doc'[d].status = doc[d].status
    \/ history'[d] = history[d] /\ doc'[d].status = "DRAFT" /\ doc[d].status \in {"NONE", "DELETED"}
    \/ history'[d] = <<>> /\ doc'[d].status = "PURGED"
    \/ /\ Exists(d) /\ doc'[d].status # "NONE"
       /\ \E e \in RowType : /\ history'[d] = Append(history[d], e)
                             /\ e.from = doc[d].status /\ e.to = doc'[d].status

LEMMA RecordedExplains ==
    ASSUME TypeOK, TypeOK', NEW d \in Docs, Explained(d), Recorded(d)
    PROVE  Explained(d)'
  <1>0. history[d] \in Seq(RowType)
    BY DEF TypeOK
  <1>1. CASE history'[d] = history[d] /\ doc'[d].status = doc[d].status
    BY <1>1 DEF Explained, Exists
  <1>2. CASE /\ history'[d] = history[d] /\ doc'[d].status = "DRAFT"
             /\ doc[d].status \in {"NONE", "DELETED"}
    <2>1. CASE doc[d].status = "DELETED"
      BY <1>2, <2>1 DEF Explained, Exists, Path, Continues
    <2>2. CASE doc[d].status = "NONE"
      <3>1. history'[d] = <<>>
        BY <1>2, <2>2 DEF Explained
      <3>2. Path(<<>>, "DRAFT")
        BY DEF Path, After, Continues
      <3> QED BY <1>2, <3>1, <3>2 DEF Explained
    <2> QED BY <1>2, <2>1, <2>2
  <1>3. CASE history'[d] = <<>> /\ doc'[d].status = "PURGED"
    BY <1>3 DEF Explained, Exists
  <1>4. CASE /\ Exists(d) /\ doc'[d].status # "NONE"
             /\ \E e \in RowType : /\ history'[d] = Append(history[d], e)
                                   /\ e.from = doc[d].status /\ e.to = doc'[d].status
    <2>1. PICK e \in RowType : /\ history'[d] = Append(history[d], e)
                               /\ e.from = doc[d].status /\ e.to = doc'[d].status
      BY <1>4
    <2>2. Path(history[d], e.from)
      BY <1>4, <2>1 DEF Explained
    <2>3. Path(history'[d], doc'[d].status)
      BY <1>0, <2>1, <2>2, PathGrows
    <2> QED BY <1>4, <2>3 DEF Explained
  <1> QED BY <1>1, <1>2, <1>3, <1>4 DEF Recorded

LEMMA StepRecords ==
    ASSUME LifecycleAssumption, Serial, SerialInv, NEW s \in Slots, Step(s), NEW d \in Docs
    PROVE  Recorded(d)
  <1> DEFINE r == req[s]
  <1>0. /\ r \in ReqTypes /\ Fresh(s) /\ doc \in [Docs -> DocType]
        /\ history \in [Docs -> Seq(RowType)]
    BY DEF SerialInv, TypeOK
  <1>1. CASE history'[d] = history[d] /\ doc'[d].status = doc[d].status
    BY <1>1 DEF Recorded
  <1>2. CASE CheckTransition(s) \/ ReadStep(s) \/ Refused(s) \/ \E e \in Docs : SkipDocument(s, e)
    BY <1>1, <1>2 DEF CheckTransition, ReadStep, Refused, SkipDocument
  <1>3. CASE WriteStep(s)
    BY <1>0, <1>1, <1>3 DEF WriteStep, Write, DocType
  <1>4. CASE WriteChain(s)
    BY <1>0, <1>1, <1>4 DEF WriteChain, Write, DocType
  <1>5. CASE WriteRestore(s)
    <2>1. r.pc = "restoring" /\ r.doc \in Docs /\ history' = history
      BY <1>0, <1>5, CallFields DEF WriteRestore, Calls
    <2>2. doc[r.doc].status = "DELETED"
      BY <1>0, <2>1 DEF Fresh
    <2>3. doc'[d].status = (IF d = r.doc THEN "DRAFT" ELSE doc[d].status)
      BY <1>0, <1>5, <2>1 DEF WriteRestore, Write, DocType
    <2> QED BY <1>1, <2>1, <2>2, <2>3 DEF Recorded
  <1>6. CASE WriteStatus(s)
    <2>1. /\ r.pc = "checked" /\ r.user \in Users /\ r.doc \in Docs /\ r.action \in Actions
      BY <1>0, <1>6, CallFields DEF WriteStatus, Calls
    <2>2. doc[r.doc].status = TRANSITION_MAP[r.action].from
      BY <1>0, <2>1 DEF Fresh, FreshTransition
    <2>3. CASE d # r.doc
      BY <1>0, <1>1, <1>6, <2>1, <2>3 DEF WriteStatus, Write, Record
    <2>4. CASE d = r.doc
      <3>1. PICK from, to : from = TRANSITION_MAP[r.action].from /\ to = TRANSITION_MAP[r.action].to
        OBVIOUS
      <3>2. from \in Statuses \ {"NONE", "PURGED"} /\ to \in Statuses \ {"NONE", "PURGED"}
        BY <2>1, <3>1, TransitionTypes DEF Statuses
      <3>3. PICK e : e = [from |-> from, to |-> to, action |-> r.action, by |-> r.user]
        OBVIOUS
      <3>4. e \in RowType /\ e.from = from /\ e.to = to
        BY <2>1, <3>2, <3>3 DEF RowType
      <3>5. history'[d] = Append(history[d], e)
        BY <1>0, <1>6, <2>1, <2>4, <3>1, <3>3 DEF WriteStatus, Record
      <3>6. doc'[d].status = to
        BY <1>0, <1>6, <2>1, <2>4, <3>1 DEF WriteStatus, Write, Moved, DocType
      <3> QED BY <2>2, <2>4, <3>1, <3>2, <3>4, <3>5, <3>6 DEF Recorded, Exists
    <2> QED BY <2>3, <2>4
  <1>7. ASSUME NEW e \in Docs, ArchiveDocument(s, e) PROVE Recorded(d)
    <2>1. r.pc = "archiving" /\ e \in r.todo
      BY <1>7 DEF ArchiveDocument
    <2>2. doc[e].status = "PUBLISHED"
      BY <1>0, <2>1 DEF Fresh
    <2>3. CASE d # e
      BY <1>0, <1>1, <1>7, <2>3 DEF ArchiveDocument, Write, Record
    <2>4. CASE d = e
      <3>1. PICK row : row = [from |-> "PUBLISHED", to |-> "ARCHIVED", action |-> "RETENTION", by |-> None]
        OBVIOUS
      <3>2. row \in RowType /\ row.from = "PUBLISHED" /\ row.to = "ARCHIVED"
        BY <3>1 DEF RowType, Statuses
      <3>3. history'[d] = Append(history[d], row)
        BY <1>0, <1>7, <2>4, <3>1 DEF ArchiveDocument, Record
      <3>4. doc'[d].status = "ARCHIVED"
        BY <1>0, <1>7, <2>4 DEF ArchiveDocument, Write, DocType
      <3> QED BY <2>2, <2>4, <3>2, <3>3, <3>4 DEF Recorded, Exists
    <2> QED BY <2>3, <2>4
  <1>8. ASSUME NEW e \in Docs, PurgeDocument(s, e) PROVE Recorded(d)
    <2>1. CASE d # e
      BY <1>0, <1>1, <1>8, <2>1 DEF PurgeDocument, Write
    <2>2. CASE d = e
      <3>1. history'[d] = <<>> /\ doc'[d].status = "PURGED"
        BY <1>0, <1>8, <2>2 DEF PurgeDocument, Write, NewDoc
      <3> QED BY <3>1 DEF Recorded
    <2> QED BY <2>1, <2>2
  <1> QED BY <1>2, <1>3, <1>4, <1>5, <1>6, <1>7, <1>8 DEF Step

LEMMA ExplainedStep ==
    ASSUME LifecycleAssumption, Serial, ExplainedInv, [Next]_vars
    PROVE  ExplainedInv'
  <1>0. SerialInv /\ TypeOK /\ SerialInv' /\ TypeOK'
    BY SerialStep DEF ExplainedInv, SerialInv
  <1>1. ASSUME NEW d \in Docs PROVE Recorded(d)
    <2>0. doc \in [Docs -> DocType]
      BY <1>0 DEF TypeOK
    <2>1. CASE UNCHANGED <<doc, history>>
      BY <2>1 DEF Recorded
    <2>2. ASSUME NEW e \in Docs, Create(e) PROVE Recorded(d)
      <3>1. /\ history' = history /\ doc[e].status = "NONE"
            /\ doc'[d].status = (IF d = e THEN "DRAFT" ELSE doc[d].status)
        BY <2>0, <2>2 DEF Create, Write, NewDoc
      <3> QED BY <3>1 DEF Recorded
    <2>3. ASSUME NEW s \in Slots, Request(s) PROVE Recorded(d)
      <3>1. ASSUME NEW u \in Users, NEW e \in Docs, NEW h \in BOOLEAN, SetLegalHold(s, u, e, h)
            PROVE  Recorded(d)
        <4>1. history' = history /\ doc'[d].status = doc[d].status
          BY <2>0, <3>1 DEF SetLegalHold, Write, DocType
        <4> QED BY <4>1 DEF Recorded
      <3>2. ASSUME ~\E u \in Users, e \in Docs, h \in BOOLEAN : SetLegalHold(s, u, e, h)
            PROVE  UNCHANGED <<doc, history>>
        BY <2>3, <3>2 DEF Request, RequestTransition, RequestStatus, RequestStep, RequestChain,
                          RequestRestore, RunRetention, StartJob
      <3> QED BY <2>1, <3>1, <3>2
    <2>4. ASSUME NEW s \in Slots, StartRetention(s) \/ StartPurge(s) \/ Die(s) PROVE Recorded(d)
      BY <2>1, <2>4 DEF StartRetention, StartPurge, StartJob, Die
    <2>5. ASSUME NEW s \in Slots, Step(s) PROVE Recorded(d)
      BY <1>0, <2>5, StepRecords
    <2>6. CASE Tick \/ UNCHANGED vars
      BY <2>1, <2>6 DEF Tick, vars
    <2> QED BY <2>2, <2>3, <2>4, <2>5, <2>6 DEF Next
  <1>2. \A d \in Docs : Explained(d)'
    BY <1>0, <1>1, RecordedExplains DEF ExplainedInv
  <1> QED BY <1>0, <1>2 DEF ExplainedInv

(* When calls do not overlap, the workflow history of a document is a path  *)
(* through the transition map from DRAFT to its status: HistoryExplains, of *)
(* every number of documents, although runs of the jobs die half-way.       *)
THEOREM SerialHistory ==
    ASSUME Serial
    PROVE  Spec => []HistoryExplains
  <1>1. Init => ExplainedInv
    <2> SUFFICES ASSUME Init PROVE ExplainedInv
      OBVIOUS
    <2>1. TypeOK
      BY InitType
    <2>2. \A s \in Slots : Fresh(s)
      BY FreshIdle DEF Init, idle
    <2>3. \A d \in Docs : Explained(d)
      BY DEF Init, NewDoc, Explained, Exists
    <2> QED BY <2>1, <2>2, <2>3 DEF ExplainedInv, SerialInv
  <1>2. ExplainedInv /\ [Next]_vars => ExplainedInv'
    BY ExplainedStep, LifecycleAssumption, Serial
  <1>3. ExplainedInv => HistoryExplains
    BY DEF ExplainedInv, Explained, Path, After, HistoryExplains
  <1> QED BY <1>1, <1>2, <1>3, PTL DEF Spec
=============================================================================
