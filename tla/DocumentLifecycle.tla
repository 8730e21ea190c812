-------------------------- MODULE DocumentLifecycle --------------------------
(***************************************************************************)
(* The life of a document across workflow-service and metadata-service.    *)
(*                                                                         *)
(* workflow-service keeps no state: it reads the document over HTTP,       *)
(* checks roles, status and turn, and calls metadata-service, which reads  *)
(* the document again, checks the transition, and writes by id without     *)
(* looking at what it read.  Two scheduled jobs, retention and trash       *)
(* purge, scan the documents and then write them one after the other; an   *)
(* admin may run the first as of a day of their choice.                    *)
(*                                                                         *)
(* A slot is one call being served; every await on the database or on the  *)
(* other service ends a step.  Classification, organizations and ACL       *)
(* rules only ever refuse a call and are left out; the audit events and    *)
(* notifications that follow a write never change a document.              *)
(***************************************************************************)
EXTENDS Naturals, Sequences, FiniteSets

CONSTANTS
    Docs,
    Users, Editors, Approvers, Admins,
    Owner,          \* ownerId of each document
    Direct,         \* users who call metadata-service's status endpoint themselves
    Chains,         \* approval chains that are ever configured
    Slots,          \* calls that can be served at the same time
    None,
    RetentionDays,  \* retentionUntil - publishedAt, in days
    TrashDays,      \* trashRecoveryDays
    AsOf,           \* days as of which an admin runs the retention job
    MaxTime,        \* bound: days
    MaxHistory,     \* bound: a document with so many transitions is left alone
    MaxFaults       \* bound: calls and jobs that die half-way

ASSUME LifecycleAssumption ==
    /\ Editors \subseteq Users /\ Approvers \subseteq Users /\ Admins \subseteq Users
    /\ Owner \in [Docs -> Users]
    /\ Direct \subseteq Editors \cup Approvers \cup Admins
    /\ Chains \subseteq Seq(Users)
    /\ None \notin Docs \cup Users
    /\ RetentionDays \in Nat /\ TrashDays \in Nat /\ AsOf \subseteq Nat \ {0}
    /\ MaxTime \in Nat \ {0} /\ MaxHistory \in Nat /\ MaxFaults \in Nat

VARIABLES
    doc,      \* the documents table; NONE: not created yet, PURGED: row deleted
    history,  \* document_workflow_history
    signed,   \* who approved since the last submission (observation only)
    req,      \* the call each slot is serving
    clock,    \* days
    faults

vars == <<doc, history, signed, req, clock, faults>>

idle == [pc |-> "idle", user |-> None, doc |-> None, action |-> "NONE", step |-> 0,
         chain |-> <<>>, now |-> 0, todo |-> {}]

NewDoc == [status |-> "NONE", chain |-> <<>>, step |-> 0, hold |-> FALSE,
           publishedAt |-> 0, archivedAt |-> 0, deletedAt |-> 0]

Init ==
    /\ doc = [d \in Docs |-> NewDoc]
    /\ history = [d \in Docs |-> <<>>]
    /\ signed = [d \in Docs |-> <<>>]
    /\ req = [s \in Slots |-> idle]
    /\ clock = 1
    /\ faults = 0

-----------------------------------------------------------------------------

Exists(d) == doc[d].status \notin {"NONE", "PURGED"}

Edge(from, to) == [from |-> from, to |-> to]

TRANSITION_MAP ==
    [SUBMIT  |-> Edge("DRAFT", "PENDING"),
     APPROVE |-> Edge("PENDING", "PUBLISHED"),
     REJECT  |-> Edge("PENDING", "DRAFT"),
     ARCHIVE |-> Edge("PUBLISHED", "ARCHIVED"),
     DELETE  |-> Edge("DRAFT", "DELETED")]

Actions == DOMAIN TRANSITION_MAP

(* The owner, being an editor, or an admin. *)
CanManage(u, d) == u \in Admins \/ (u \in Editors /\ u = Owner[d])

(* The role guard of each workflow operation. *)
MayRequest(u, d, a) ==
    IF a \in {"APPROVE", "REJECT"} THEN u \in Approvers \cup Admins ELSE CanManage(u, d)

(* The sequential approval chain binds whoever is not an admin. *)
Bound(u, d) == doc[d].chain # <<>> /\ u \notin Admins

(* Mutant: the expected approver is not compared with the caller. *)
AnyTurn(u, d) == doc[d].step < Len(doc[d].chain)

MyTurn(u, d) ==
    /\ doc[d].step < Len(doc[d].chain)
    /\ doc[d].chain[doc[d].step + 1] = u

FinalStep(d) == doc[d].step + 1 >= Len(doc[d].chain)

Busy(s, r) == req' = [req EXCEPT ![s] = r]
Done(s) == Busy(s, idle)
IsIdle(s) == req[s].pc = "idle"

Write(d, row) == doc' = [doc EXCEPT ![d] = row]
Record(d, from, to, a, u) ==
    history' = [history EXCEPT ![d] =
                    Append(@, [from |-> from, to |-> to, action |-> a, by |-> u])]

(* POST /documents *)
Create(d) ==
    /\ doc[d].status = "NONE"
    /\ Owner[d] \in Editors \cup Admins
    /\ Write(d, [NewDoc EXCEPT !.status = "DRAFT"])
    /\ UNCHANGED <<history, signed, req, clock, faults>>

-----------------------------------------------------------------------------
(* workflow-service: submit, approve, reject, archive, delete *)

(* The snapshot passes every guard; updateStatus is called. *)
RequestTransition(s, u, d, a) ==
    /\ IsIdle(s)
    /\ Len(history[d]) < MaxHistory
    /\ MayRequest(u, d, a)
    /\ doc[d].status = TRANSITION_MAP[a].from
    /\ a = "APPROVE" /\ Bound(u, d) => MyTurn(u, d) /\ FinalStep(d)
    /\ Busy(s, [idle EXCEPT !.pc = "status", !.user = u, !.doc = d, !.action = a])
    /\ UNCHANGED <<doc, history, signed, clock, faults>>

(* An approval that is not the last one: advanceApprovalStep is called. *)
RequestStep(s, u, d) ==
    /\ IsIdle(s)
    /\ Len(history[d]) < MaxHistory
    /\ MayRequest(u, d, "APPROVE")
    /\ doc[d].status = "PENDING"
    /\ Bound(u, d) /\ MyTurn(u, d) /\ ~FinalStep(d)
    /\ Busy(s, [idle EXCEPT !.pc = "advance", !.user = u, !.doc = d])
    /\ UNCHANGED <<doc, history, signed, clock, faults>>

(* The gateway also exposes POST /documents/:docId/status. *)
RequestStatus(s, u, d, a) ==
    /\ IsIdle(s)
    /\ Len(history[d]) < MaxHistory
    /\ u \in Direct
    /\ Busy(s, [idle EXCEPT !.pc = "status", !.user = u, !.doc = d, !.action = a])
    /\ UNCHANGED <<doc, history, signed, clock, faults>>

-----------------------------------------------------------------------------
(* metadata-service: StatusService.update and advanceApprovalStep *)

CheckTransition(s) ==
    /\ req[s].pc = "status"
    /\ doc[req[s].doc].status = TRANSITION_MAP[req[s].action].from
    /\ Busy(s, [req[s] EXCEPT !.pc = "checked", !.now = clock])
    /\ UNCHANGED <<doc, history, signed, clock, faults>>

(* Mutant: deletedAt is not set. *)
Undated(row, a, now) ==
    [row EXCEPT !.status = TRANSITION_MAP[a].to,
                !.publishedAt = IF a = "APPROVE" THEN now ELSE @,
                !.archivedAt = IF a = "ARCHIVE" THEN now ELSE @]

(* What one transition writes to the row. *)
Moved(row, a, now) ==
    [row EXCEPT !.status = TRANSITION_MAP[a].to,
                !.publishedAt = IF a = "APPROVE" THEN now ELSE @,
                !.archivedAt = IF a = "ARCHIVE" THEN now ELSE @,
                !.deletedAt = IF a = "DELETE" THEN now ELSE @]

Signed(d, a, u) ==
    CASE a = "SUBMIT" -> [signed EXCEPT ![d] = <<>>]
      [] a = "APPROVE" -> [signed EXCEPT ![d] = Append(@, u)]
      [] OTHER -> signed

(* Mutant: the row is written outside the transaction of its history. *)
WriteUnrecorded(s) ==
    LET r == req[s] IN
    /\ r.pc = "checked"
    /\ Exists(r.doc)
    /\ Write(r.doc, Moved(doc[r.doc], r.action, r.now))
    /\ signed' = Signed(r.doc, r.action, r.user)
    /\ Done(s)
    /\ UNCHANGED <<history, clock, faults>>

WriteStatus(s) ==
    LET r == req[s] IN
    /\ r.pc = "checked"
    /\ Exists(r.doc)
    /\ Write(r.doc, Moved(doc[r.doc], r.action, r.now))
    /\ Record(r.doc, TRANSITION_MAP[r.action].from, TRANSITION_MAP[r.action].to, r.action, r.user)
    /\ signed' = Signed(r.doc, r.action, r.user)
    /\ Done(s)
    /\ UNCHANGED <<clock, faults>>

ReadStep(s) ==
    /\ req[s].pc = "advance"
    /\ Exists(req[s].doc)
    /\ Busy(s, [req[s] EXCEPT !.pc = "stepping", !.step = doc[req[s].doc].step + 1])
    /\ UNCHANGED <<doc, history, signed, clock, faults>>

WriteStep(s) ==
    LET r == req[s] IN
    /\ r.pc = "stepping"
    /\ Exists(r.doc)
    /\ Write(r.doc, [doc[r.doc] EXCEPT !.step = r.step])
    /\ signed' = [signed EXCEPT ![r.doc] = Append(@, r.user)]
    /\ Done(s)
    /\ UNCHANGED <<history, clock, faults>>

-----------------------------------------------------------------------------
(* metadata-service: approval chain, legal hold, trash *)

RequestChain(s, u, d, c) ==
    /\ IsIdle(s)
    /\ Exists(d)
    /\ CanManage(u, d)
    /\ doc[d].status = "PENDING" /\ doc[d].step = 0
    /\ c # <<>> /\ \A i, j \in DOMAIN c : c[i] = c[j] => i = j
    /\ Busy(s, [idle EXCEPT !.pc = "chaining", !.user = u, !.doc = d, !.chain = c])
    /\ UNCHANGED <<doc, history, signed, clock, faults>>

WriteChain(s) ==
    LET r == req[s] IN
    /\ r.pc = "chaining"
    /\ Exists(r.doc)
    /\ Write(r.doc, [doc[r.doc] EXCEPT !.chain = r.chain, !.step = 0])
    /\ Done(s)
    /\ UNCHANGED <<history, signed, clock, faults>>

(* Nothing that is read first matters to the write: one step. *)
SetLegalHold(s, u, d, h) ==
    /\ IsIdle(s)
    /\ u \in Admins
    /\ Exists(d)
    /\ Write(d, [doc[d] EXCEPT !.hold = h])
    /\ UNCHANGED <<history, signed, req, clock, faults>>

InWindow(d) == doc[d].deletedAt # 0 => clock <= doc[d].deletedAt + TrashDays

RequestRestore(s, u, d) ==
    /\ IsIdle(s)
    /\ doc[d].status = "DELETED"
    /\ u \in Admins \/ u = Owner[d]
    /\ InWindow(d)
    /\ Busy(s, [idle EXCEPT !.pc = "restoring", !.user = u, !.doc = d])
    /\ UNCHANGED <<doc, history, signed, clock, faults>>

WriteRestore(s) ==
    LET r == req[s] IN
    /\ r.pc = "restoring"
    /\ Exists(r.doc)
    /\ Write(r.doc, [doc[r.doc] EXCEPT !.status = "DRAFT", !.deletedAt = 0])
    /\ Done(s)
    /\ UNCHANGED <<history, signed, clock, faults>>

(* The row is gone, or the transition is refused: the caller gets an error. *)
Refused(s) ==
    /\ \/ req[s].pc = "status"
          /\ doc[req[s].doc].status # TRANSITION_MAP[req[s].action].from
       \/ req[s].pc \in {"checked", "advance", "stepping", "chaining", "restoring"}
          /\ ~Exists(req[s].doc)
    /\ Done(s)
    /\ UNCHANGED <<doc, history, signed, clock, faults>>

-----------------------------------------------------------------------------
(* The scheduled jobs *)

(* Mutant: only documents that became overdue on that day. *)
OverdueSince(day) ==
    {d \in Docs : /\ doc[d].status = "PUBLISHED"
                  /\ doc[d].publishedAt # 0 /\ doc[d].archivedAt = 0
                  /\ ~doc[d].hold
                  /\ doc[d].publishedAt + RetentionDays + 1 = day}

(* Published, not archived, not on hold, and a full day past retentionUntil. *)
Overdue(day) ==
    {d \in Docs : /\ doc[d].status = "PUBLISHED"
                  /\ doc[d].publishedAt # 0 /\ doc[d].archivedAt = 0
                  /\ ~doc[d].hold
                  /\ doc[d].publishedAt + RetentionDays < day}

Expired ==
    {d \in Docs : /\ doc[d].status = "DELETED"
                  /\ doc[d].deletedAt # 0 /\ doc[d].deletedAt + TrashDays < clock}

(* A run that finds nothing does nothing. *)
StartJob(s, pc, now, todo) ==
    /\ IsIdle(s)
    /\ todo # {}
    /\ Busy(s, [idle EXCEPT !.pc = pc, !.now = now, !.todo = todo])
    /\ UNCHANGED <<doc, history, signed, clock, faults>>

StartRetention(s) == StartJob(s, "archiving", clock, Overdue(clock))
StartPurge(s) == StartJob(s, "purging", clock, Expired)

(* POST /retention/run: the day an admin names takes the place of the present. *)
RunRetention(s, u, day) ==
    /\ u \in Admins
    /\ StartJob(s, "archiving", day, Overdue(day))

(* The loop goes on with the next document, whether or not this one failed. *)
Looped(s, d) ==
    IF req[s].todo = {d} THEN Done(s) ELSE Busy(s, [req[s] EXCEPT !.todo = @ \ {d}])

ArchiveDocument(s, d) ==
    /\ req[s].pc = "archiving"
    /\ d \in req[s].todo
    /\ Exists(d)
    /\ Write(d, [doc[d] EXCEPT !.status = "ARCHIVED", !.archivedAt = req[s].now])
    /\ Record(d, "PUBLISHED", "ARCHIVED", "RETENTION", None)
    /\ Looped(s, d)
    /\ UNCHANGED <<signed, clock, faults>>

(* Deleting the row deletes its history with it. *)
PurgeDocument(s, d) ==
    /\ req[s].pc = "purging"
    /\ d \in req[s].todo
    /\ Exists(d)
    /\ Write(d, [NewDoc EXCEPT !.status = "PURGED"])
    /\ history' = [history EXCEPT ![d] = <<>>]
    /\ signed' = [signed EXCEPT ![d] = <<>>]
    /\ Looped(s, d)
    /\ UNCHANGED <<clock, faults>>

(* The row is already gone. *)
SkipDocument(s, d) ==
    /\ req[s].pc \in {"archiving", "purging"}
    /\ d \in req[s].todo
    /\ ~Exists(d)
    /\ Looped(s, d)
    /\ UNCHANGED <<doc, history, signed, clock, faults>>

-----------------------------------------------------------------------------
(* The environment *)

Tick ==
    /\ clock < MaxTime
    /\ clock' = clock + 1
    /\ UNCHANGED <<doc, history, signed, req, faults>>

(* A call or a job dies between two of its steps. *)
Die(s) ==
    /\ ~IsIdle(s)
    /\ faults < MaxFaults
    /\ faults' = faults + 1
    /\ Done(s)
    /\ UNCHANGED <<doc, history, signed, clock>>

Request(s) ==
    \E u \in Users, d \in Docs :
        \/ \E a \in Actions : RequestTransition(s, u, d, a) \/ RequestStatus(s, u, d, a)
        \/ RequestStep(s, u, d)
        \/ \E c \in Chains : RequestChain(s, u, d, c)
        \/ \E h \in BOOLEAN : SetLegalHold(s, u, d, h)
        \/ RequestRestore(s, u, d)
        \/ \E day \in AsOf : RunRetention(s, u, day)

Step(s) ==
    \/ CheckTransition(s)
    \/ WriteStatus(s)
    \/ ReadStep(s)
    \/ WriteStep(s)
    \/ WriteChain(s)
    \/ WriteRestore(s)
    \/ Refused(s)
    \/ \E d \in Docs : ArchiveDocument(s, d) \/ PurgeDocument(s, d) \/ SkipDocument(s, d)

Next ==
    \/ Tick
    \/ \E d \in Docs : Create(d)
    \/ \E s \in Slots : Request(s) \/ StartRetention(s) \/ StartPurge(s) \/ Step(s) \/ Die(s)

Spec == Init /\ [][Next]_vars

(* Calls end, days pass, and the jobs run every day whatever else happens. *)
FairSpec ==
    /\ Spec
    /\ WF_vars(Tick)
    /\ \A s \in Slots : WF_vars(Step(s))
    /\ SF_vars(\E s \in Slots : StartRetention(s))
    /\ SF_vars(\E s \in Slots : StartPurge(s))
-----------------------------------------------------------------------------
(* Properties *)

Statuses == {"NONE", "DRAFT", "PENDING", "PUBLISHED", "ARCHIVED", "DELETED", "PURGED"}

DocType == [status : Statuses, chain : Seq(Users), step : Nat, hold : BOOLEAN,
            publishedAt : Nat, archivedAt : Nat, deletedAt : Nat]

RowType == [from : Statuses, to : Statuses, action : Actions \cup {"RETENTION"},
            by : Users \cup {None}]

(* What a slot holds: a transition on its way, another call, a run of a job. *)
TransitionCalls == [pc : {"status", "checked"}, user : Users, doc : Docs, action : Actions,
                    step : {0}, chain : {<<>>}, now : Nat, todo : {{}}]

OtherCalls == [pc : {"advance", "stepping", "chaining", "restoring"}, user : Users,
               doc : Docs, action : {"NONE"}, step : Nat, chain : Seq(Users), now : {0},
               todo : {{}}]

JobRuns == [pc : {"archiving", "purging"}, user : {None}, doc : {None}, action : {"NONE"},
            step : {0}, chain : {<<>>}, now : Nat, todo : (SUBSET Docs) \ {{}}]

ReqTypes == TransitionCalls \cup OtherCalls \cup JobRuns \cup {idle}

(* Every variable has the shape the code gives it. *)
TypeOK ==
    /\ doc \in [Docs -> DocType]
    /\ history \in [Docs -> Seq(RowType)]
    /\ signed \in [Docs -> Seq(Users)]
    /\ req \in [Slots -> ReqTypes]
    /\ clock \in Nat \ {0}
    /\ faults \in Nat

(***************************************************************************)
(* However calls and jobs overlap, a status comes with the dates the jobs  *)
(* and the evidence pages rely on: what is published or archived has been  *)
(* published at some time, what is in the trash can expire.                *)
(***************************************************************************)
StatusEvidence ==
    \A d \in Docs :
        /\ doc[d].status \in {"PUBLISHED", "ARCHIVED"} => doc[d].publishedAt # 0
        /\ doc[d].status = "ARCHIVED" => doc[d].archivedAt # 0
        /\ doc[d].status = "DELETED" => doc[d].deletedAt # 0

(* No late write of a call or a job brings a purged document back. *)
PurgedForever ==
    [][\A d \in Docs : doc[d].status = "PURGED" =>
            doc'[d] = doc[d] /\ history'[d] = <<>>]_vars

(***************************************************************************)
(* Restoring from the trash leaves no row in the workflow history; every   *)
(* other change of status does.                                            *)
(***************************************************************************)
Continues(from, to) == from = to \/ (from = "DELETED" /\ to = "DRAFT")

(* The workflow history of a document is a path through the transition map *)
(* that leads from DRAFT to its present status.                            *)
HistoryExplains ==
    \A d \in Docs : Exists(d) =>
        LET h == history[d]
            after(k) == IF k = 0 THEN "DRAFT" ELSE h[k].to
        IN  /\ \A k \in DOMAIN h : Continues(after(k - 1), h[k].from)
            /\ Continues(after(Len(h)), doc[d].status)

(* What the documentation promises, every operation being one step. *)
Workflow == INSTANCE DocumentWorkflow

(* Calls that do not overlap implement the documented workflow, whether they   *)
(* come from workflow-service, from callers of the status endpoint, or from an *)
(* admin who runs the retention job as of another day.                         *)
ImplementsWorkflow == Workflow!Spec

(* A published document whose retention has run out is archived, unless a  *)
(* hold is placed, although calls and runs of the job may die.             *)
RetentionHappens ==
    \A d \in Docs :
        doc[d].status = "PUBLISHED" /\ doc[d].publishedAt + RetentionDays < MaxTime
            ~> doc[d].status # "PUBLISHED" \/ doc[d].hold

(* A document left in the trash is purged. *)
TrashEmptied ==
    \A d \in Docs :
        doc[d].status = "DELETED" /\ doc[d].deletedAt + TrashDays < MaxTime
            ~> doc[d].status # "DELETED"

(***************************************************************************)
(* What comments and documents say of single operations, and, first, what  *)
(* the scan of the retention job relies on (retention.service.ts, 83).     *)
(***************************************************************************)

(* What is published has no archiving date, so that the job finds it. *)
PublishedIsScanned ==
    \A d \in Docs : doc[d].status = "PUBLISHED" => doc[d].archivedAt = 0

(* "Only the approver at the current step may act; the document is         *)
(* published only after the final step." (workflow.service.ts, 78-79)      *)
ApprovalInTurn ==
    [][\A d \in Docs : Len(signed'[d]) > Len(signed[d]) =>
            LET u == signed'[d][Len(signed'[d])] IN Bound(u, d) => MyTurn(u, d)]_vars

(* The same, of the approvals that only advance the chain. *)
StepInTurn ==
    [][\A d \in Docs : doc'[d].step > doc[d].step =>
            MyTurn(signed'[d][Len(signed'[d])], d)]_vars

(* "Each listed approver must approve in order before the document is      *)
(* published." (metadata.proxy.controller.ts, 634)                         *)
ChainComplete ==
    \A d \in Docs :
        /\ doc[d].status = "PUBLISHED"
        /\ doc[d].chain # <<>>
        /\ \A k \in DOMAIN signed[d] : signed[d][k] \notin Admins
        => signed[d] = doc[d].chain

(* "while active, the retention job will never auto-archive the document"  *)
(* (documents.service.ts, 578-579)                                         *)
HoldRespected ==
    [][\A d \in Docs : doc[d].hold /\ Len(history'[d]) > Len(history[d]) =>
            history'[d][Len(history'[d])].action # "RETENTION"]_vars

(* "Permanently delete documents whose trash recovery window has elapsed." *)
(* (documents.service.ts, 821)                                             *)
PurgeOnlyExpired ==
    [][\A d \in Docs : doc'[d].status = "PURGED" /\ doc[d].status # "PURGED" =>
            doc[d].status = "DELETED" /\ doc[d].deletedAt + TrashDays < clock]_vars

(* "Each status transition creates a record in document_workflow_history"  *)
(* (docs/ERD.md, 327)                                                      *)
EveryTransitionRecorded ==
    [][\A d \in Docs :
            /\ doc'[d].status # doc[d].status
            /\ doc[d].status # "NONE" /\ doc'[d].status # "PURGED"
            => Len(history'[d]) > Len(history[d])]_vars

(* The transition table of docs/ERD.md, with restore, retention and purge. *)
TransitionsLegal ==
    [][\A d \in Docs : doc'[d].status # doc[d].status =>
            Edge(doc[d].status, doc'[d].status) \in
                {TRANSITION_MAP[a] : a \in Actions} \cup
                {Edge("NONE", "DRAFT"), Edge("DELETED", "DRAFT"), Edge("DELETED", "PURGED")}]_vars
=============================================================================
