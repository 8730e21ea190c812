------------------------------- MODULE Routes -------------------------------
(***************************************************************************)
(* The four copies of the rules on who may call what: the roles on the     *)
(* routes of the gateway, the roles on the operations of the services that *)
(* a route leads to, and the roles the web application asks for before it  *)
(* offers a page or a button that calls the route.                         *)
(*                                                                         *)
(* A route and the operation it forwards to have one name.  AnyUser stands *)
(* for a route behind the token check alone, Public for none at all, and   *)
(* ServicesOnly for one that asks for the token of the services, too.      *)
(***************************************************************************)
EXTENDS Sequences, TLC

RoleNames == {"viewer", "editor", "approver", "compliance_officer", "admin"}

AnyUser == {"any"}
Public == {"public"}
ServicesOnly == {}

Everyone == RoleNames
Admins == {"admin"}
Authors == {"editor", "admin"}
Deciders == {"approver", "admin"}
Officers == {"compliance_officer", "admin"}
Readers == RoleNames \ {"compliance_officer"}
AclReaders == RoleNames \ {"viewer"}
Movers == {"editor", "approver", "admin"}

All(names, allowed) == [n \in names |-> allowed]

-----------------------------------------------------------------------------
(* The gateway. *)

ListRoutes ==
    All({"list"}, Everyone) @@ All({"trash", "untrash"}, Authors)
    @@ All({"retentionList", "accessReview"}, Officers) @@ All({"retentionRun"}, Admins)

ProofRoutes == All({"proof"}, Officers)

DetailRoutes ==
    All({"detail", "guardrails"}, Everyone) @@ All({"evidence"}, Officers)
    @@ All({"impact", "create"}, Authors)

ViewAndAclRoutes ==
    All({"views", "saveView", "dropView"}, Everyone)
    @@ All({"update", "upsertAcl"}, Authors) @@ All({"listAcl"}, AclReaders)

ShareRoutes ==
    All({"createLink", "listLinks", "revokeLink"}, Authors) @@ All({"redeem"}, Readers)

ChainRoutes == All({"approvalChain", "approvers"}, Authors) @@ All({"legalHold"}, Admins)

VersionRoutes == All({"createVersion", "restoreVersion"}, Authors) @@ All({"status"}, Movers)

PolicyRoutes ==
    All({"downloadAuthorize", "previewAuthorize"}, Readers)
    @@ All({"history", "comments", "addComment"}, Everyone)

ContentRoutes == All({"upload"}, Authors) @@ All({"presign", "stream", "preview"}, Readers)

WorkflowRoutes ==
    All({"submit", "archive", "delete"}, Authors) @@ All({"approve", "reject"}, Deciders)

AuditRoutes ==
    All({"auditQuery", "verifyChain", "seal", "summary", "recommend", "recommendations"}, Officers)
    @@ All({"auditEvent"}, ServicesOnly)

NotifyRoutes == All({"notify", "notifications", "unread", "readOne", "readAll"}, AnyUser)

OrgRoutes ==
    All({"myOrg"}, AnyUser) @@ All({"members", "groups"}, AclReaders)
    @@ All({"addMember", "changeMember", "dropMember"}, Admins)

UserRoutes == All({"profile", "names"}, AnyUser)

SessionRoutes == All({"me"}, AnyUser)

RouteRoles ==
    ListRoutes @@ ProofRoutes @@ DetailRoutes @@ ViewAndAclRoutes @@ ShareRoutes @@ ChainRoutes
    @@ VersionRoutes @@ PolicyRoutes @@ ContentRoutes @@ WorkflowRoutes @@ AuditRoutes
    @@ NotifyRoutes @@ OrgRoutes @@ UserRoutes @@ SessionRoutes

-----------------------------------------------------------------------------
(* The services. *)

DocumentOps ==
    All({"list", "detail", "guardrails"}, Everyone) @@ All({"trash", "untrash"}, Authors)
    @@ All({"impact", "create", "update"}, Authors)

ApprovalOps ==
    All({"approvalChain"}, Authors) @@ All({"advance"}, Deciders) @@ All({"legalHold"}, Admins)
    @@ All({"approvers"}, Public)

AclAndVersionOps ==
    All({"upsertAcl"}, Authors) @@ All({"listAcl"}, AclReaders)
    @@ All({"createVersion", "restoreVersion"}, Authors) @@ All({"status"}, Movers)

ReadingOps ==
    All({"downloadAuthorize", "previewAuthorize"}, Readers)
    @@ All({"history", "comments", "addComment"}, Everyone)

LinkOps == All({"createLink", "listLinks", "revokeLink"}, Authors) @@ All({"redeem"}, Readers)

SavedViewOps == All({"views", "saveView", "dropView"}, Everyone)

OrgOps ==
    All({"myOrg"}, AnyUser) @@ All({"members"}, AclReaders)
    @@ All({"addMember", "changeMember", "dropMember"}, Admins)

RetentionOps == All({"retentionList"}, Officers) @@ All({"retentionRun"}, Admins)

ContentOps == All({"upload"}, Authors) @@ All({"presign", "stream", "preview"}, Readers)

WorkflowOps ==
    All({"submit", "archive", "delete"}, Authors) @@ All({"approve", "reject"}, Deciders)

AuditOps ==
    All({"auditQuery", "verifyChain", "seal", "summary", "recommend", "recommendations"}, Officers)
    @@ All({"auditEvent"}, ServicesOnly)

NotifyOps ==
    All({"notify", "notifications", "readOne", "readAll"}, AnyUser) @@ All({"unread"}, Public)

OpRoles ==
    DocumentOps @@ ApprovalOps @@ AclAndVersionOps @@ ReadingOps @@ LinkOps @@ SavedViewOps
    @@ OrgOps @@ RetentionOps @@ ContentOps @@ WorkflowOps @@ AuditOps @@ NotifyOps

(* The operations that change what other users see. *)
WriteOps ==
    {"untrash", "create", "update", "approvalChain", "advance", "legalHold", "upsertAcl",
     "createVersion", "restoreVersion", "status", "addComment", "createLink", "revokeLink",
     "saveView", "dropView", "addMember", "changeMember", "dropMember", "retentionRun",
     "seal", "auditEvent", "recommend", "readOne", "readAll"}

-----------------------------------------------------------------------------
(* What a route makes the services do: alternatives, each of them steps, and  *)
(* the operations of a step in parallel.  The rest forwards to its namesake.  *)

SubmitPaths == {<< {"submit"}, {"detail"}, {"status"}, {"approvers"}, {"notify"} >>}

ApprovePaths == {<< {"approve"}, {"detail"}, {write}, {"notify"} >> : write \in {"status", "advance"}}

MovePaths == [w \in {"reject", "archive", "delete"} |->
                {<< {w}, {"detail"}, {"status"}, {"notify"} >>}]

UploadPaths == {<< {"upload"}, {"detail"}, {"createVersion"} >>}

(* With a grant, document-service does not ask again. *)
ContentPaths == [c \in {"presign", "stream"} |-> {<< {c} >>, << {c}, {"downloadAuthorize"} >>}]

PreviewPaths == {<< {"preview"}, {"previewAuthorize"} >>}

EvidencePaths == {<< {"detail"}, {"history", "retentionList", "verifyChain", "auditQuery"} >>}

ReviewPaths == {<< {"list"} >>, << {"list"}, {"detail"} >>}

Nested ==
    [submit |-> SubmitPaths, approve |-> ApprovePaths, upload |-> UploadPaths,
     preview |-> PreviewPaths, evidence |-> EvidencePaths, accessReview |-> ReviewPaths]
    @@ MovePaths @@ ContentPaths
    @@ All({"proof", "profile", "names", "me", "groups"}, {<< >>})

Paths == Nested @@ [r \in DOMAIN RouteRoles |-> {<< {r} >>}]

(* A notification that cannot be sent, or an approver list that cannot be     *)
(* read, does not fail the operation.                                         *)
SwallowedOps == {"notify", "approvers"}

ActionOf == [evidence |-> "export-evidence-packet", retentionRun |-> "run-retention"]

-----------------------------------------------------------------------------
(* The web application: what it offers, to whom, and the routes behind it. *)

Offer(allowed, routes) == [roles |-> allowed, routes |-> routes]

PageOffers ==
    {Offer(Everyone, {"list", "views", "saveView", "dropView", "unread", "names"}),
     Offer(Everyone, {"notifications", "readOne", "readAll", "profile", "me", "myOrg"}),
     Offer(Authors, {"create", "trash", "untrash"}),
     Offer(Deciders, {"list", "history"}),
     Offer(Officers, {"retentionList", "accessReview", "auditQuery", "verifyChain", "seal",
                      "summary", "recommend", "recommendations", "members"}),
     Offer(Admins, {"retentionRun", "members", "addMember", "changeMember", "dropMember"})}

DetailOffers ==
    {Offer(Everyone, {"detail", "history", "guardrails", "comments", "addComment"}),
     Offer(Authors, {"update", "impact", "upload", "restoreVersion", "createLink", "listLinks",
                     "revokeLink", "approvalChain", "approvers"}),
     Offer(Authors, {"submit", "archive", "delete"}),
     Offer(Deciders, {"approve", "reject"}),
     Offer(Authors, {"upsertAcl", "members", "groups"}),
     Offer(Officers, {"proof", "evidence", "auditQuery"}),
     Offer(Admins, {"legalHold"}),
     Offer(Readers, {"downloadAuthorize", "presign", "stream", "preview"})}

Offers == PageOffers \cup DetailOffers
=============================================================================
