---------------------------- MODULE AccessPolicy ----------------------------
(***************************************************************************)
(* Who may do what with a document: the decisions of metadata-service's    *)
(* PolicyService as operators on a document, a user and the permission a   *)
(* share link gives ("NONE" without one), and the filter of the document   *)
(* list, which answers the question "who may read" a second time, as a     *)
(* database query.                                                         *)
(*                                                                         *)
(* A document is a record [status, level, version, acl]; acl maps the rows *)
(* of document_acl to entries.  Group names are taken as normalised.  The  *)
(* state machine is what owners and the workflow do to these four fields.  *)
(***************************************************************************)
EXTENDS Naturals, FiniteSets

CONSTANTS
    Users, Groups,
    RolesOf, GroupsOf,     \* what a user's access token carries
    Owner,                 \* the user who created the document
    AclIds,                \* rows of document_acl
    NoEntry,
    AclChoices,            \* the entries that owners make
    LevelChoices,          \* the classifications that owners give
    MaxVersion             \* bound on the versions uploaded

VARIABLE doc               \* the document with its entries

Roles == {"viewer", "editor", "approver", "compliance_officer", "admin"}

ASSUME UsersAssumption ==
    /\ RolesOf \in [Users -> SUBSET Roles]
    /\ GroupsOf \in [Users -> SUBSET Groups]
    /\ Owner \in Users

Levels == {"PUBLIC", "INTERNAL", "CONFIDENTIAL", "SECRET"}
Statuses == {"DRAFT", "PENDING", "PUBLISHED", "ARCHIVED", "DELETED"}
Permissions == {"READ", "DOWNLOAD"}
Shares == {"NONE", "VIEW", "DOWNLOAD"}

Entry(type, Subjects) ==
    [type: {type}, subject: Subjects, permission: Permissions, effect: {"ALLOW", "DENY"}]

Entries ==
    UNION {Entry("ALL", {"-"}), Entry("USER", Users), Entry("ROLE", Roles),
           Entry("GROUP", Groups)}

ASSUME PolicyAssumption ==
    /\ NoEntry \notin Entries
    /\ AclChoices \subseteq Entries
    /\ LevelChoices \subseteq Levels
    /\ MaxVersion \in Nat

Documents ==
    [status: Statuses, level: Levels, version: Nat, acl: [AclIds -> Entries \cup {NoEntry}]]

HasRole(u, R) == RolesOf[u] \cap R # {}
IsOfficer(u) == "compliance_officer" \in RolesOf[u]

(* CLASSIFICATION_WATERMARK_LEVELS *)
Sensitive == {"CONFIDENTIAL", "SECRET"}
-----------------------------------------------------------------------------
(* Access control lists *)

Applies(e, u) ==
    \/ e.type = "ALL"
    \/ e.type = "USER" /\ e.subject = u
    \/ e.type = "ROLE" /\ e.subject \in RolesOf[u]
    \/ e.type = "GROUP" /\ e.subject \in GroupsOf[u]

Ruled(d, u, permission, effect) ==
    \E i \in AclIds :
        /\ d.acl[i] # NoEntry
        /\ d.acl[i].permission = permission /\ d.acl[i].effect = effect
        /\ Applies(d.acl[i], u)

Allowed(d, u, permission) == Ruled(d, u, permission, "ALLOW")
Denied(d, u, permission) == Ruled(d, u, permission, "DENY")
-----------------------------------------------------------------------------
(* Content *)

(* personal: the user owns the document or has an explicit allow. *)
ClassificationAllows(level, roles, personal) ==
    \/ "admin" \in roles
    \/ level = "PUBLIC"
    \/ level = "INTERNAL" /\ roles \cap {"editor", "approver"} # {}
    \/ level = "CONFIDENTIAL" /\ personal
    \/ level = "SECRET" /\ "approver" \in roles /\ personal

Downloadable(status, roles) ==
    "compliance_officer" \notin roles /\ status = "PUBLISHED"

MayDownload(d, u, share) ==
    /\ Downloadable(d.status, RolesOf[u])
    /\ d.version > 0
    /\ \/ share = "DOWNLOAD"
       \/ /\ ~Denied(d, u, "DOWNLOAD")
          /\ ClassificationAllows(d.level, RolesOf[u],
                                  u = Owner \/ Allowed(d, u, "DOWNLOAD"))

PreviewAllows(d, u) ==
    \/ HasRole(u, {"admin", "approver"})
    \/ u = Owner
    \/ ClassificationAllows(d.level, RolesOf[u], Allowed(d, u, "READ"))

(* In every status: getPreviewDeniedReason never refuses. *)
MayPreview(d, u, share) ==
    /\ ~IsOfficer(u)
    /\ d.version > 0
    /\ \/ share # "NONE"
       \/ ~Denied(d, u, "READ") /\ PreviewAllows(d, u)
-----------------------------------------------------------------------------
(* Metadata *)

InRecords(status) == status \in {"PUBLISHED", "ARCHIVED"}

(* Mutant: viewers read internal documents, which the list does not show. *)
AnyoneReadsInternal(status, level, roles) ==
    IF "compliance_officer" \in roles THEN InRecords(status)
    ELSE IF "approver" \in roles THEN InRecords(status) \/ status = "PENDING"
    ELSE InRecords(status) /\ level \in {"PUBLIC", "INTERNAL"}

(* What the roles alone give; the first role that is found decides. *)
RoleMayRead(status, level, roles) ==
    IF "compliance_officer" \in roles THEN InRecords(status)
    ELSE IF "approver" \in roles THEN InRecords(status) \/ status = "PENDING"
    ELSE /\ InRecords(status)
         /\ level = "PUBLIC" \/ (level = "INTERNAL" /\ "editor" \in roles)

MayRead(d, u, share) ==
    /\ d.status # "DELETED"
    /\ \/ share # "NONE" /\ HasRole(u, Roles \ {"compliance_officer"})
       \/ /\ ~Denied(d, u, "READ")
          /\ \/ "admin" \in RolesOf[u]
             \/ u = Owner
             \/ Allowed(d, u, "READ")
             \/ Allowed(d, u, "DOWNLOAD")
             \/ RoleMayRead(d.status, d.level, RolesOf[u])

(* findAllForOrg: the where-clause of the list, its branches OR-ed. *)
Listed(d, u) ==
    /\ d.status # "DELETED"
    /\ ~Denied(d, u, "READ")
    /\ \/ "admin" \in RolesOf[u]
       \/ u = Owner
       \/ Allowed(d, u, "READ")
       \/ IsOfficer(u) /\ InRecords(d.status)
       \/ "approver" \in RolesOf[u] /\ (InRecords(d.status) \/ d.status = "PENDING")
       \/ /\ InRecords(d.status)
          /\ \/ d.level = "PUBLIC" /\ RolesOf[u] # {}
             \/ d.level = "INTERNAL" /\ HasRole(u, {"editor", "approver"})
             \/ d.level \in Sensitive /\ "approver" \in RolesOf[u]

(* getAiGuardrails: content is only considered once metadata may be read. *)
MayUseContent(d, u) ==
    /\ MayRead(d, u, "NONE")
    /\ ~IsOfficer(u)
    /\ d.version > 0
    /\ ~Denied(d, u, "READ") /\ PreviewAllows(d, u)
-----------------------------------------------------------------------------
(* The web application's copy of the rules *)

(* Mutant: Option A for SECRET, too. *)
WebOptionA(d, u, permission, bypass) ==
    \/ HasRole(u, {"admin"} \cup bypass)
    \/ d.level = "PUBLIC"
    \/ d.level = "INTERNAL" /\ HasRole(u, {"editor", "approver", "admin"})
    \/ d.level \in Sensitive /\ (u = Owner \/ Allowed(d, u, permission))

WebClassification(d, u, permission, bypass) ==
    \/ HasRole(u, {"admin"} \cup bypass)
    \/ d.level = "PUBLIC"
    \/ d.level = "INTERNAL" /\ HasRole(u, {"editor", "approver", "admin"})
    \/ d.level = "CONFIDENTIAL" /\ (u = Owner \/ Allowed(d, u, permission))
    \/ /\ d.level = "SECRET" /\ HasRole(u, {"approver", "admin"})
       /\ u = Owner \/ Allowed(d, u, permission)

WebMayRead(d, u) ==
    /\ d.status # "DELETED"
    /\ ~Denied(d, u, "READ")
    /\ \/ "admin" \in RolesOf[u] \/ u = Owner
       \/ \E permission \in Permissions : Allowed(d, u, permission)
       \/ IsOfficer(u) /\ InRecords(d.status)
       \/ /\ ~IsOfficer(u) /\ "approver" \in RolesOf[u]
          /\ InRecords(d.status) \/ d.status = "PENDING"
       \/ /\ ~HasRole(u, {"compliance_officer", "approver"}) /\ InRecords(d.status)
          /\ d.level = "PUBLIC" \/ (d.level = "INTERNAL" /\ "editor" \in RolesOf[u])

WebMayDownload(d, u) ==
    /\ ~IsOfficer(u)
    /\ d.status = "PUBLISHED" /\ d.version > 0
    /\ ~Denied(d, u, "DOWNLOAD")
    /\ WebClassification(d, u, "DOWNLOAD", {})

WebMayPreview(d, u) ==
    /\ ~IsOfficer(u)
    /\ d.status # "DELETED" /\ d.version > 0
    /\ ~Denied(d, u, "READ")
    /\ u = Owner \/ WebClassification(d, u, "READ", {"approver"})
-----------------------------------------------------------------------------
(* The simulation of a change of classification *)

BaselineRead(status, level, role) ==
    \/ role = "admin"
    \/ role = "compliance_officer" /\ InRecords(status)
    \/ role = "approver" /\ (InRecords(status) \/ status = "PENDING")
    \/ /\ InRecords(status)
       /\ level = "PUBLIC" \/ (level = "INTERNAL" /\ role = "editor")

BaselineDownload(status, level, role) ==
    Downloadable(status, {role}) /\ ClassificationAllows(level, {role}, FALSE)

(* How many of the simulated roles may read, plus how many may download. *)
AccessCount(status, level) ==
    Cardinality({r \in Roles : BaselineRead(status, level, r)})
        + Cardinality({r \in Roles : BaselineDownload(status, level, r)})

(* Mutant: a change that leaves the count alone is announced too. *)
AccessNotReduced(d, proposed) ==
    AccessCount(d.status, proposed) >= AccessCount(d.status, d.level)

AccessExpanded(d, proposed) == AccessCount(d.status, proposed) > AccessCount(d.status, d.level)
AccessReduced(d, proposed) == AccessCount(d.status, proposed) < AccessCount(d.status, d.level)
-----------------------------------------------------------------------------
(* The document *)

(* INTERNAL unless its creator says otherwise. *)
NewDocument(l) ==
    [status |-> "DRAFT", level |-> l, version |-> 0, acl |-> [i \in AclIds |-> NoEntry]]

Create == \E l \in LevelChoices \cup {"INTERNAL"} : doc = NewDocument(l)

Becomes(d) == doc' = d

(* TRANSITION_MAP, and restoring from the trash. *)
NextStatuses(status) ==
    CASE status = "DRAFT" -> {"PENDING", "DELETED"}
      [] status = "PENDING" -> {"PUBLISHED", "DRAFT"}
      [] status = "PUBLISHED" -> {"ARCHIVED"}
      [] status = "ARCHIVED" -> {}
      [] status = "DELETED" -> {"DRAFT"}

ChangeStatus == \E status \in NextStatuses(doc.status) : Becomes([doc EXCEPT !.status = status])

(* A new version; the level is raised if sensitive data was detected in it. *)
AddVersion(detected) ==
    /\ doc.version < MaxVersion
    /\ Becomes([doc EXCEPT !.version = @ + 1,
                           !.level = IF detected /\ @ \notin Sensitive THEN "CONFIDENTIAL" ELSE @])

SetLevel(l) == l # doc.level /\ Becomes([doc EXCEPT !.level = l])

(* "upsert" always creates a row, also when there is one like it. *)
UpsertAcl(i, e) == doc.acl[i] = NoEntry /\ Becomes([doc EXCEPT !.acl[i] = e])

DeleteAcl(i) == doc.acl[i] # NoEntry /\ Becomes([doc EXCEPT !.acl[i] = NoEntry])

Manage ==
    \/ ChangeStatus
    \/ \E detected \in BOOLEAN : AddVersion(detected)
    \/ \E l \in LevelChoices : SetLevel(l)
    \/ \E i \in AclIds : DeleteAcl(i) \/ \E e \in AclChoices : UpsertAcl(i, e)

PolicySpec == Create /\ [][Manage]_doc
-----------------------------------------------------------------------------
(* Properties *)

Type == doc \in Documents /\ doc.version <= MaxVersion

(* The list shows a document exactly to those who may open it, except that  *)
(* it overlooks entries that allow DOWNLOAD.  Users who are approver and    *)
(* compliance officer are excepted: the list joins the roles' rights, the   *)
(* other decision takes the officer's (findAllForOrg against                *)
(* assertCanReadMetadata).                                                  *)
OneReadingRole(u) ==
    RolesOf[u] # {} /\ ~({"approver", "compliance_officer"} \subseteq RolesOf[u])

ListMatchesRead ==
    \A u \in Users : OneReadingRole(u) =>
        /\ Listed(doc, u) => MayRead(doc, u, "NONE")
        /\ MayRead(doc, u, "NONE") => Listed(doc, u) \/ Allowed(doc, u, "DOWNLOAD")

(* The web application's own copy of the rules (permissions.ts) decides as   *)
(* metadata-service does; only that the service would also serve a preview  *)
(* of a document in the trash.                                              *)
WebAgrees ==
    \A u \in Users :
        /\ WebMayRead(doc, u) <=> MayRead(doc, u, "NONE")
        /\ WebMayDownload(doc, u) <=> MayDownload(doc, u, "NONE")
        /\ WebMayPreview(doc, u) <=> MayPreview(doc, u, "NONE") /\ doc.status # "DELETED"

(* Whoever may download a file may read its metadata, unless an entry denies *)
(* READ and none denies DOWNLOAD (the comment at policy.service.ts:428).     *)
DownloadableIsReadable ==
    \A u \in Users :
        MayDownload(doc, u, "NONE") /\ ~Denied(doc, u, "READ") => MayRead(doc, u, "NONE")

(* AI operations see the content of exactly the documents whose metadata the *)
(* user may read and whose content the user may preview (getAiGuardrails).   *)
AiReadsWhatUserReads ==
    \A u \in Users :
        MayUseContent(doc, u) <=> MayRead(doc, u, "NONE") /\ MayPreview(doc, u, "NONE")

(* The simulated rights of a role are those that a user with this role has   *)
(* who neither owns the document nor is named by an entry                    *)
(* (canBaselineReadMetadata, canBaselineDownload).                           *)
SimulationExact ==
    \A u \in Users \ {Owner}, r \in Roles :
        /\ RolesOf[u] = {r}
        /\ \A i \in AclIds : doc.acl[i] # NoEntry => ~Applies(doc.acl[i], u)
        /\ doc.status # "DELETED"
        => /\ MayRead(doc, u, "NONE") <=> BaselineRead(doc.status, doc.level, r)
           /\ doc.version > 0 =>
                 (MayDownload(doc, u, "NONE") <=> BaselineDownload(doc.status, doc.level, r))

(* The simulation announces a gain exactly if some role gains a right, and a *)
(* loss exactly if some role loses one, although it compares counts          *)
(* (getAccessImpactPreview).                                                 *)
Gains(level, other) ==
    \E r \in Roles :
        \/ BaselineRead(doc.status, other, r) /\ ~BaselineRead(doc.status, level, r)
        \/ BaselineDownload(doc.status, other, r) /\ ~BaselineDownload(doc.status, level, r)

ImpactExact ==
    \A proposed \in Levels :
        /\ AccessExpanded(doc, proposed) <=> Gains(doc.level, proposed)
        /\ AccessReduced(doc, proposed) <=> Gains(proposed, doc.level)

(* Does not hold: a READ denial without a DOWNLOAD denial.  policy.service   *)
(* .ts:428 says of a DOWNLOAD allow that it is strictly stronger than READ.  *)
DownloadImpliesRead ==
    \A u \in Users : MayDownload(doc, u, "NONE") => MayRead(doc, u, "NONE")
=============================================================================
