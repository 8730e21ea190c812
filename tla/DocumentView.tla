---------------------------- MODULE DocumentView ----------------------------
(***************************************************************************)
(* What the page of one document shows and offers, card by card, computed  *)
(* from the document as the detail API answers it, from its history, and   *)
(* from who looks at it: permissions, metadata, readiness for approval,    *)
(* DLP, lifecycle timeline, approval chain, versions and their previews,   *)
(* legal hold, evidence links and the activity feed.                       *)
(*                                                                         *)
(* A detail record x is a row of the list with these fields added:         *)
(* described, shared (an entry lets everybody read), chain, step,          *)
(* published, archived and versions, of which the last is the current one. *)
(* A change of status is [doc, from, to, action, stamp].                   *)
(***************************************************************************)
EXTENDS DocumentOverview, Integers

CONSTANTS Users, Editors, Approvers, Officers, Admins

Extensions == {"docx", "doc", "md", "other"}
MimeTypes == {"", "octet-stream", "pdf", "image", "text", "word", "markdown", "zip"}

FileType == [ext : Extensions, mime : MimeTypes, large : BOOLEAN, sum : Nat, scan : DlpStates, by : Names]

-----------------------------------------------------------------------------
(* permissions.ts *)
Sees(u) ==
    {a \in {"approval"} : u \in Approvers \cup Admins}
      \cup {a \in {"retention", "security", "sensitive"} : u \in Officers \cup Admins}

(* canViewAudit, canViewComplianceEvidencePacket, canReadAcl *)
Audits(u) == u \in Officers \cup Admins

Manages(u, row) == u \in Admins \/ (u \in Editors /\ row.owner = u)

(* Mutant: whoever may approve is offered what was rejected, too. *)
OfferedEarly(u, row, a) ==
    CASE a \in {"APPROVE", "REJECT"} -> row.status \in {"DRAFT", "PENDING"} /\ u \in Approvers \cup Admins
      [] a = "ARCHIVE" -> row.status = "PUBLISHED" /\ Manages(u, row)
      [] OTHER -> row.status = "DRAFT" /\ Manages(u, row)

(* canSubmitDocument, canApproveDocument, canRejectDocument, canArchiveDocument *)
(* and canDeleteDocument                                                        *)
Offered(u, row, a) ==
    CASE a \in {"APPROVE", "REJECT"} -> row.status = "PENDING" /\ u \in Approvers \cup Admins
      [] a = "ARCHIVE" -> row.status = "PUBLISHED" /\ Manages(u, row)
      [] OTHER -> row.status = "DRAFT" /\ Manages(u, row)

WorkflowActions == {"SUBMIT", "APPROVE", "REJECT", "ARCHIVE", "DELETE"}

(* getClassificationContentDecision; whom `lets` names is let past the levels. *)
ContentGranted(u, x, allowed, lets) ==
    \/ u \in Admins \cup lets \/ x.level = "PUBLIC"
    \/ x.level = "INTERNAL" /\ u \in Editors \cup Approvers
    \/ x.level = "CONFIDENTIAL" /\ (x.owner = u \/ allowed)
    \/ x.level = "SECRET" /\ u \in Approvers /\ (x.owner = u \/ allowed)

MayPreview(u, x) ==
    /\ u \notin Officers /\ x.status # "DELETED" /\ x.versions # <<>>
    /\ ContentGranted(u, x, x.shared, Approvers \cup {x.owner})

MayDownload(u, x) ==
    /\ u \notin Officers /\ x.status = "PUBLISHED" /\ x.versions # <<>>
    /\ ContentGranted(u, x, FALSE, {})

(* The panel beside the list, and the panel of the page: what can be done. *)
PanelActions(u, row) ==
    {a \in WorkflowActions : Offered(u, row, a)} \cup {a \in {"EDIT"} : Manages(u, row)}

PageActions(u, x) ==
    PanelActions(u, x)
      \cup {a \in {"UPLOAD"} : Manages(u, x)}
      \cup {a \in {"DOWNLOAD"} : MayDownload(u, x)}
      \cup {a \in {"EVIDENCE_PACKET"} : Audits(u)}

PostureRows(row) ==
    {p \in {"dlp"} : row.dlp = "DETECTED"} \cup {p \in {"hold"} : row.hold}
      \cup {p \in {"retention"} : row.retention # "unset"}

(* The cards that not everybody gets. *)
Cards(u, x) ==
    {c \in {"chain", "share-links"} : Manages(u, x)}
      \cup {c \in {"legal-hold"} : u \in Admins \/ x.hold}
      \cup {c \in {"evidence-links"} : Audits(u)}
      \cup {c \in {"acl"} : Audits(u) \/ Manages(u, x)}

-----------------------------------------------------------------------------
(* buildDocumentApprovalReadiness *)
State(complete, otherwise) == IF complete THEN "complete" ELSE otherwise

Readiness(x) ==
    [file |-> State(x.versions # <<>> \/ HasFile(x), "blocked"),
     metadata |-> State(x.described, "warning"),
     classification |-> "complete",
     tags |-> State(x.tags # {}, "warning"),
     dlp |-> State(x.dlp = "CLEAR", "warning"),
     retention |-> State(x.retention # "unset", "warning"),
     submission |-> State(x.status # "DRAFT", "warning")]

ReadinessStatus(x) ==
    LET states == {Readiness(x)[item] : item \in DOMAIN Readiness(x)}
    IN IF "blocked" \in states THEN "blocked" ELSE IF "warning" \in states THEN "needs-attention" ELSE "ready"

(* The findings card, which suggests a level for what was detected. *)
FindingsCard(x) == [status |-> x.dlp, suggested |-> IF x.dlp = "DETECTED" THEN "CONFIDENTIAL" ELSE "none"]

EvidenceLinks(x) ==
    {"audit", "evidence"} \cup {l \in {"retention"} : x.retention # "unset"}
      \cup {l \in {"security"} : x.dlp = "DETECTED"}

MetadataSummary(x) ==
    [owner |-> x.owner, status |-> x.status, level |-> x.level, retention |-> x.retention,
     version |-> Len(x.versions),
     checksum |-> IF x.versions = <<>> THEN 0 ELSE Seqs!Last(x.versions).sum,
     date |-> IF x.published THEN "Published" ELSE "Updated"]

-----------------------------------------------------------------------------
(* buildDocumentLifecycleTimeline *)
Stages == <<"DRAFT", "PENDING", "PUBLISHED", "ARCHIVED">>

StageOf(status) == IF status = "DELETED" THEN "ARCHIVED" ELSE status

StageState(x, i) ==
    LET current == CHOOSE k \in 1..Len(Stages) : Stages[k] = StageOf(x.status)
    IN IF i < current THEN "complete" ELSE IF i = current THEN "current" ELSE "upcoming"

(* The latest change into the stage; without one, what the document itself     *)
(* remembers: its creation, its publication, its archiving.                    *)
StageEvidence(x, history, stage) ==
    LET into == {e \in history : StageOf(e.to) = stage}
    IN IF into # {} THEN {e \in into : \A other \in into : other.stamp <= e.stamp}
       ELSE {[doc |-> x.id, from |-> "NONE", to |-> stage, action |-> "NONE", stamp |-> 0] :
                s \in {s \in {stage} : \/ s = "DRAFT" \/ (s = "PUBLISHED" /\ x.published)
                                       \/ (s = "ARCHIVED" /\ x.archived)}}

Timeline(x, history) ==
    [i \in 1..Len(Stages) |-> [state |-> StageState(x, i), evidence |-> StageEvidence(x, history, Stages[i])]]

(* buildLifecycleNextAction: the page it leads to. *)
NextAction(x) ==
    CASE x.status = "DRAFT" -> "edit"
      [] x.status = "PENDING" -> "approvals"
      [] x.status \notin {"DRAFT", "PENDING"} /\ x.dlp = "DETECTED" -> "security"
      [] x.status = "PUBLISHED" /\ x.dlp # "DETECTED" -> "retention"
      [] x.status = "ARCHIVED" /\ x.dlp # "DETECTED" -> "evidence"
      [] OTHER -> "none"

(* canOpenLifecycleAction *)
OpensNext(u, x) ==
    CASE NextAction(x) = "edit" -> Offered(u, x, "SUBMIT")
      [] NextAction(x) = "approvals" -> Offered(u, x, "APPROVE") \/ Offered(u, x, "REJECT")
      [] NextAction(x) = "none" -> FALSE
      [] OTHER -> Audits(u)

(* What metadata-service logs of a change of status.                           *)
AuditAction ==
    [SUBMIT |-> "DOCUMENT_SUBMIT", APPROVE |-> "DOCUMENT_APPROVE", REJECT |-> "DOCUMENT_REJECT",
     ARCHIVE |-> "DOCUMENT_ARCHIVE", DELETE |-> "DOCUMENT_DELETE"]

AuditEvent(e) == [doc |-> e.doc, action |-> AuditAction[e.action], stamp |-> e.stamp]

(* buildActivityFeed.  Whoever may read the audit log is also told what it     *)
(* says of the document, but for the actions that are named here.              *)
REDUNDANT_AUDIT_ACTIONS ==
    {"DOCUMENT_SUBMITTED", "DOCUMENT_APPROVED", "DOCUMENT_REJECTED", "DOCUMENT_ARCHIVED", "DOCUMENT_COMMENT_ADDED"}

Feed(u, history, events) ==
    {[kind |-> "workflow", of |-> e] : e \in history}
      \cup {[kind |-> "audit", of |-> e] : e \in {e \in events : Audits(u) /\ e.action \notin REDUNDANT_AUDIT_ACTIONS}}

-----------------------------------------------------------------------------
(* approval-chain.ts *)
ChainSteps(x) ==
    [i \in DOMAIN x.chain |->
        IF x.status = "PUBLISHED" \/ i <= x.step THEN "approved"
        ELSE IF i = x.step + 1 THEN "current" ELSE "pending"]

CurrentApprovers(x) == {x.chain[i] : i \in {i \in DOMAIN x.chain : ChainSteps(x)[i] = "current"}}

CanEditChain(u, x) == Manages(u, x) /\ x.status = "PENDING"

Blank == ""

(* What is left of a draft without its blanks, in the order of the draft. *)
Normalized(draft) ==
    LET named == {i \in DOMAIN draft : draft[i] # Blank}
        NamedUpTo(i) == Cardinality({k \in named : k <= i})
    IN [n \in 1..Cardinality(named) |-> draft[CHOOSE i \in named : NamedUpTo(i) = n]]

ChainDraft(chain) == IF Normalized(chain) = <<>> THEN <<Blank>> ELSE Normalized(chain)

HasDuplicates(draft) == ~Seqs!IsInjective(Normalized(draft))

CanSave(draft) == Normalized(draft) # <<>> /\ ~HasDuplicates(draft)

(* moveApprovalChainApprover *)
MovedBy(draft, i, by) ==
    IF i \in DOMAIN draft /\ i + by \in DOMAIN draft
      THEN [draft EXCEPT ![i] = draft[i + by], ![i + by] = draft[i]]
      ELSE draft

(* What the editor's buttons do to the draft. *)
Redrafts(draft, approvers) ==
    {Append(draft, Blank)}
      \cup {[draft EXCEPT ![i] = v] : i \in DOMAIN draft, v \in approvers \cup {Blank}}
      \cup {Seqs!RemoveAt(draft, i) : i \in DOMAIN draft}
      \cup {MovedBy(draft, i, by) : i \in DOMAIN draft, by \in {-1, 1}}

-----------------------------------------------------------------------------
(* Versions *)
CurrentVersion(x) == Len(x.versions)

(* The versions that can be made current again. *)
Restorable(u, x) == {v \in DOMAIN x.versions : Manages(u, x) /\ v # CurrentVersion(x)}

(* At most the last two that were ticked, each of them once. *)
ToggleCompare(selected, v) ==
    IF Seqs!Contains(selected, v) THEN Seqs!RemoveAt(selected, CHOOSE i \in DOMAIN selected : selected[i] = v)
    ELSE IF Len(selected) = 2 THEN <<selected[2], v>> ELSE Append(selected, v)

(* buildVersionDiff: the fields that differ; the file name is its extension. *)
VersionDiff(a, b) == {f \in DOMAIN a : a[f] # b[f]}

(* resolveContentType *)
ContentType(file) ==
    CASE file.ext \in {"docx", "doc"} -> "word"
      [] file.ext = "md" -> "markdown"
      [] file.ext = "other" /\ file.mime = "octet-stream" -> ""
      [] OTHER -> file.mime

(* isPreviewSupported *)
PreviewSupported(file) ==
    \/ ContentType(file) \in {"pdf", "image", "text", "word", "markdown"}
    \/ file.ext \in {"docx", "doc", "md"}

(* getVersionPreviewPosture *)
Posture(allowed, file) ==
    IF ~allowed THEN "policy-denied"
    ELSE IF PreviewSupported(file) THEN "supported" ELSE "unsupported-format"

(* The viewer that loadPreview chooses, in its order of choice; what is too    *)
(* large to be converted is not shown.                                         *)
Viewer(file) ==
    LET type == ContentType(file)
    IN CASE type = "text" -> "text"
         [] type = "pdf" -> "pdf"
         [] type = "image" -> "image"
         [] type = "word" -> IF file.large THEN "unsupported" ELSE "docx"
         [] type = "markdown" -> IF file.large THEN "unsupported" ELSE "markdown"
         [] OTHER -> "unsupported"

-----------------------------------------------------------------------------
(* The legal hold card *)
HoldOffers(u, x) == IF u \notin Admins THEN {} ELSE IF x.hold THEN {"RELEASE"} ELSE {"HOLD"}
=============================================================================
