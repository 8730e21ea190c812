---------------------------- MODULE AccessReview ----------------------------
(***************************************************************************)
(* The access review of compliance officers and admins.  The gateway asks  *)
(* metadata-service for the documents the reviewer is shown, and then for  *)
(* the detail of each sensitive one, while owners and the workflow go on;  *)
(* the page makes its reviews of the entries that came back.               *)
(***************************************************************************)
EXTENDS AccessPolicy

CONSTANT Reviewers

ASSUME ReviewersAssumption ==
    Reviewers \subseteq {u \in Users : HasRole(u, {"compliance_officer", "admin"})}

VARIABLE review

reviewVars == <<doc, review>>

-----------------------------------------------------------------------------
(* What is reviewed.  An item is [kind, grant, severity]; `stale` are the     *)
(* entries that are older than a year.                                        *)
BroadRoles == {"viewer", "editor", "approver"}

Grants(d) == {i \in AclIds : d.acl[i] # NoEntry /\ d.acl[i].effect = "ALLOW"}

BroadGrants(d) ==
    {i \in Grants(d) :
        d.acl[i].type = "ALL" \/ (d.acl[i].type = "ROLE" /\ d.acl[i].subject \in BroadRoles)}

DownloadGrants(d) == {i \in Grants(d) : d.acl[i].permission = "DOWNLOAD"}

BroadSeverity(d, i) ==
    IF d.level = "SECRET" \/ d.acl[i].permission = "DOWNLOAD" THEN "critical" ELSE "warning"

Item(kind, i, severity) == [kind |-> kind, grant |-> i, severity |-> severity]

(* Mutant: a download grant is looked at only when it is a broad one. *)
BroadReviews(d, stale) ==
    IF d.level \notin Sensitive THEN {}
    ELSE {Item("broad", i, BroadSeverity(d, i)) : i \in BroadGrants(d)}
           \cup {Item("download", i, "critical") : i \in DownloadGrants(d) \cap BroadGrants(d)}
           \cup {Item("stale", i, "warning") : i \in Grants(d) \cap stale}

Reviews(d, stale) ==
    IF d.level \notin Sensitive THEN {}
    ELSE {Item("broad", i, BroadSeverity(d, i)) : i \in BroadGrants(d)}
           \cup {Item("download", i, "critical") : i \in DownloadGrants(d)}
           \cup {Item("stale", i, "warning") : i \in Grants(d) \cap stale}

ReviewPosture(items) ==
    IF \E x \in items : x.severity = "critical" THEN "critical"
    ELSE IF items # {} THEN "warning" ELSE "healthy"

-----------------------------------------------------------------------------
(* Who can download a sensitive document beside its owner and the admins.     *)
Outsiders == {u \in Users \ {Owner} : "admin" \notin RolesOf[u]}

Exposed(d) == d.level \in Sensitive /\ \E u \in Outsiders : MayDownload(d, u, "NONE")

(* The page: `hidden` if an entry kept the document from the reviewer's list, *)
(* `spared` if at some moment of the request nobody else could download it.   *)
NoReview == [pc |-> "idle", user |-> Owner, posture |-> "healthy", hidden |-> FALSE, spared |-> FALSE]

Loading == {"asked", "listed"}

(* Mount and the refresh button, which waits for the answer. *)
Ask(u) ==
    /\ review.pc \notin Loading
    /\ review' = [NoReview EXCEPT !.pc = "asked", !.user = u, !.spared = ~Exposed(doc)]
    /\ UNCHANGED doc

Answered(items, hidden) ==
    review' = [review EXCEPT !.pc = "shown", !.posture = ReviewPosture(items), !.hidden = hidden]

(* The list has no entries: what is not sensitive in it comes without them.   *)
List ==
    /\ review.pc = "asked"
    /\ IF Listed(doc, review.user) /\ doc.level \in Sensitive
         THEN review' = [review EXCEPT !.pc = "listed"]
         ELSE Answered({}, Denied(doc, review.user, "READ"))
    /\ UNCHANGED doc

(* One detail that is refused, or not there any more, fails the whole review.  *)
Detail ==
    /\ review.pc = "listed"
    /\ IF MayRead(doc, review.user, "NONE")
         THEN \E stale \in SUBSET Grants(doc) : Answered(Reviews(doc, stale), FALSE)
         ELSE review' = [review EXCEPT !.pc = "failed"]
    /\ UNCHANGED doc

Fails ==
    /\ review.pc \in Loading
    /\ review' = [review EXCEPT !.pc = "failed"]
    /\ UNCHANGED doc

Changes ==
    /\ Manage
    /\ review' = IF review.pc \in Loading
                   THEN [review EXCEPT !.spared = review.spared \/ ~Exposed(doc')] ELSE review

ReviewInit == Create /\ review = NoReview

ReviewNext == Changes \/ List \/ Detail \/ Fails \/ \E u \in Reviewers : Ask(u)

ReviewSpec == ReviewInit /\ [][ReviewNext]_reviewVars

-----------------------------------------------------------------------------
(* Properties *)

(* A review that is not critical is true: unless an entry denies the document *)
(* to the reviewer, there was a moment between the question and the answer in *)
(* which nobody but the owner and the admins could download the sensitive     *)
(* document, although the list and the detail are read at two moments, and    *)
(* the page judges entries (access-review.ts:92) where the service judges     *)
(* roles, ownership and entries (policy.service.ts:975).                      *)
ReviewTells ==
    review.pc = "shown" /\ ~review.hidden /\ review.posture # "critical" => review.spared

(* "Sensitive documents do not currently have broad or stale ACL grants"      *)
(* (access-review/page.tsx:188) of every document.  Refuted: an entry that    *)
(* denies READ to the reviewer's role hides the document from the review.     *)
ReviewSeesAll == review.pc = "shown" /\ review.posture # "critical" => review.spared

(* A review fails only if a service does.  Refuted: a document that changes   *)
(* after it was listed, or that the list shows and the detail refuses to an   *)
(* approver who is also a compliance officer, fails the review of all.        *)
ReviewLoads == review.pc = "listed" => MayRead(doc, review.user, "NONE")
=============================================================================
