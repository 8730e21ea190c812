------------------------- MODULE DocumentAccessProofs -------------------------
(***************************************************************************)
(* For any users, entries, link and lifetimes: nothing is handed out on a  *)
(* decision that is older than a grant and a URL together live, and a link *)
(* is not opened more often than its cap and the slots allow.              *)
(*                                                                         *)
(* A call that has read the document is decided in the same unit of time;  *)
(* a grant carries the time of its decision in its expiry; a URL carries   *)
(* the time of the grant's.  The link is read after the document, but a    *)
(* link never becomes usable again, so what it gives at the decision it    *)
(* gave when the document was read.                                        *)
(*                                                                         *)
(* Before that, for any users, roles, groups and entries: the decisions of *)
(* AccessPolicy agree with each other (the type invariant is inductive,    *)
(* and each of the other properties follows from it in every single        *)
(* state), and for any reviewers, what the page of the access review tells *)
(* is true of a moment of its requests (ReviewInv).                        *)
(***************************************************************************)
EXTENDS DocumentAccess, AccessReview, FiniteSetTheorems, TLAPS

-----------------------------------------------------------------------------
(* The decisions, and the review of the entries.                             *)
LEMMA TypeInit == Create => Type
BY PolicyAssumption DEF Create, NewDocument, Type, Documents, Levels, Statuses

LEMMA TypeNext == Type /\ [Manage]_doc => Type'
<1> SUFFICES ASSUME Type, [Manage]_doc
             PROVE  Type'
  OBVIOUS
<1> USE PolicyAssumption DEF Type, Documents, Becomes
<1>1. CASE ChangeStatus
  BY <1>1 DEF ChangeStatus, NextStatuses, Statuses
<1>2. ASSUME NEW detected \in BOOLEAN, AddVersion(detected)
      PROVE  Type'
  <2> DEFINE l == IF detected /\ doc.level \notin Sensitive THEN "CONFIDENTIAL" ELSE doc.level
  <2>1. l \in Levels
    BY DEF Levels
  <2>2. doc' = [doc EXCEPT !.version = @ + 1, !.level = l] /\ doc.version < MaxVersion
    BY <1>2 DEF AddVersion
  <2> HIDE DEF l
  <2>3. doc.version \in Nat /\ doc.version + 1 \in Nat /\ doc.version + 1 <= MaxVersion
    BY <2>2
  <2>4. doc' = [status |-> doc.status, level |-> l, version |-> doc.version + 1, acl |-> doc.acl]
    BY <2>2
  <2> QED
    BY <2>1, <2>3, <2>4
<1>3. CASE \E l \in LevelChoices : SetLevel(l)
  BY <1>3 DEF SetLevel
<1>4. ASSUME NEW i \in AclIds, DeleteAcl(i)
      PROVE  Type'
  BY <1>4 DEF DeleteAcl
<1>5. ASSUME NEW i \in AclIds, NEW e \in AclChoices, UpsertAcl(i, e)
      PROVE  Type'
  BY <1>5 DEF UpsertAcl
<1>6. CASE UNCHANGED doc
  BY <1>6
<1> QED
  BY <1>1, <1>2, <1>3, <1>4, <1>5, <1>6 DEF Manage

(* Every value of the document is one the schema allows. *)
THEOREM TypeCorrect == PolicySpec => []Type
<1>1. Create => Type
  BY TypeInit
<1>2. Type /\ [Manage]_doc => Type'
  BY TypeNext
<1> QED
  BY <1>1, <1>2, PTL DEF PolicySpec

(* Each reading role sees in the list what it may open, but for entries that *)
(* allow DOWNLOAD.                                                           *)
THEOREM ListedAsRead == PolicySpec => []ListMatchesRead
<1>1. Type => ListMatchesRead
  BY UsersAssumption
     DEF ListMatchesRead, OneReadingRole, Listed, MayRead, RoleMayRead, InRecords,
         IsOfficer, HasRole, Sensitive, Type, Documents, Roles, Levels, Statuses
<1> QED
  BY <1>1, TypeCorrect, PTL

(* The web application shows what metadata-service would decide. *)
THEOREM WebDecidesAlike == PolicySpec => []WebAgrees
<1>1. Type => WebAgrees
  BY UsersAssumption
     DEF WebAgrees, WebMayRead, WebMayDownload, WebMayPreview, WebClassification,
         MayRead, MayDownload, MayPreview, PreviewAllows, Downloadable,
         ClassificationAllows, RoleMayRead, InRecords, IsOfficer, HasRole,
         Type, Documents, Roles, Levels, Statuses, Permissions
<1> QED
  BY <1>1, TypeCorrect, PTL

(* No denial of READ, no file without its metadata. *)
THEOREM DownloadersRead == PolicySpec => []DownloadableIsReadable
<1>1. Type => DownloadableIsReadable
  BY UsersAssumption
     DEF DownloadableIsReadable, MayDownload, MayRead, Downloadable,
         ClassificationAllows, RoleMayRead, InRecords, HasRole,
         Type, Documents, Roles, Levels, Statuses
<1> QED
  BY <1>1, TypeCorrect, PTL

(* What the simulation says of a role is so for its users. *)
THEOREM SimulatedAsReal == PolicySpec => []SimulationExact
<1>1. Type => SimulationExact
  <2> SUFFICES ASSUME Type, NEW u \in Users \ {Owner}, NEW r \in Roles,
                      RolesOf[u] = {r},
                      \A i \in AclIds : doc.acl[i] # NoEntry => ~Applies(doc.acl[i], u),
                      doc.status # "DELETED"
               PROVE  /\ MayRead(doc, u, "NONE") <=> BaselineRead(doc.status, doc.level, r)
                      /\ doc.version > 0 =>
                            (MayDownload(doc, u, "NONE")
                                <=> BaselineDownload(doc.status, doc.level, r))
    BY DEF SimulationExact
  <2>1. \A permission \in Permissions : ~Allowed(doc, u, permission) /\ ~Denied(doc, u, permission)
    BY DEF Allowed, Denied, Ruled
  <2>2. MayRead(doc, u, "NONE") <=> BaselineRead(doc.status, doc.level, r)
    BY <2>1 DEF MayRead, RoleMayRead, BaselineRead, InRecords, HasRole, Permissions,
                Roles, Type, Documents, Levels, Statuses
  <2>3. doc.version > 0 =>
            (MayDownload(doc, u, "NONE") <=> BaselineDownload(doc.status, doc.level, r))
    BY <2>1 DEF MayDownload, BaselineDownload, Downloadable, ClassificationAllows, Permissions,
                Roles, Type, Documents, Levels, Statuses
  <2> QED
    BY <2>2, <2>3
<1> QED
  BY <1>1, TypeCorrect, PTL

(* The AI operations are guarded by the rules of reading and of previews. *)
THEOREM AiReadsAlike == PolicySpec => []AiReadsWhatUserReads
<1>1. AiReadsWhatUserReads
  BY DEF AiReadsWhatUserReads, MayUseContent, MayPreview
<1> QED
  BY <1>1, PTL

-----------------------------------------------------------------------------
(***************************************************************************)
(* The simulation compares counts, which could cancel out: a role that     *)
(* gains against one that loses.  They cannot, because the levels form a   *)
(* chain: of two levels, one gives every role all that the other gives.    *)
(***************************************************************************)
Reads(status, level) == {r \in Roles : BaselineRead(status, level, r)}
Downloads(status, level) == {r \in Roles : BaselineDownload(status, level, r)}

Covers(status, higher, level) ==
    /\ Reads(status, level) \subseteq Reads(status, higher)
    /\ Downloads(status, level) \subseteq Downloads(status, higher)

LEMMA LevelsChained ==
    ASSUME NEW status \in Statuses, NEW l \in Levels, NEW m \in Levels
    PROVE  Covers(status, l, m) \/ Covers(status, m, l)
<1> DEFINE rank(x) == CASE x = "PUBLIC" -> 3 [] x = "INTERNAL" -> 2
                        [] x = "CONFIDENTIAL" -> 1 [] x = "SECRET" -> 0
<1>1. ASSUME NEW x \in Levels, NEW y \in Levels, rank(x) <= rank(y)
      PROVE  Covers(status, y, x)
  <2>1. ASSUME NEW r \in Roles, BaselineRead(status, x, r)
        PROVE  BaselineRead(status, y, r)
    BY <1>1, <2>1 DEF BaselineRead, Levels
  <2>2. ASSUME NEW r \in Roles, BaselineDownload(status, x, r)
        PROVE  BaselineDownload(status, y, r)
    BY <1>1, <2>2 DEF BaselineDownload, ClassificationAllows, Levels, Roles
  <2> QED BY <2>1, <2>2 DEF Covers, Reads, Downloads
<1>2. rank(l) <= rank(m) \/ rank(m) <= rank(l)
  BY DEF Levels
<1> QED BY <1>1, <1>2

LEMMA RolesFinite == IsFiniteSet(Roles)
<1>1. IsFiniteSet({"viewer"} \cup {"editor"} \cup {"approver"} \cup {"compliance_officer"} \cup {"admin"})
  BY FS_Singleton, FS_Union
<1>2. Roles = {"viewer"} \cup {"editor"} \cup {"approver"} \cup {"compliance_officer"} \cup {"admin"}
  BY DEF Roles
<1> QED BY <1>1, <1>2

LEMMA RightsCounted ==
    ASSUME NEW status, NEW l
    PROVE  /\ AccessCount(status, l) = Cardinality(Reads(status, l)) + Cardinality(Downloads(status, l))
           /\ IsFiniteSet(Reads(status, l)) /\ IsFiniteSet(Downloads(status, l))
           /\ Cardinality(Reads(status, l)) \in Nat /\ Cardinality(Downloads(status, l)) \in Nat
<1>1. Reads(status, l) \subseteq Roles /\ Downloads(status, l) \subseteq Roles
  BY DEF Reads, Downloads
<1>2. IsFiniteSet(Reads(status, l)) /\ IsFiniteSet(Downloads(status, l))
  BY <1>1, RolesFinite, FS_Subset
<1>3. Cardinality(Reads(status, l)) \in Nat /\ Cardinality(Downloads(status, l)) \in Nat
  BY <1>2, FS_CardinalityType
<1> QED BY <1>2, <1>3 DEF AccessCount, Reads, Downloads

(* Where one level gives all that another gives, the counts tell. *)
LEMMA CountsTell ==
    ASSUME NEW status, NEW l, NEW m, Covers(status, m, l)
    PROVE  /\ AccessCount(status, l) <= AccessCount(status, m)
           /\ AccessCount(status, l) = AccessCount(status, m) => Covers(status, l, m)
<1> DEFINE a == Cardinality(Reads(status, l))     b == Cardinality(Reads(status, m))
           c == Cardinality(Downloads(status, l)) d == Cardinality(Downloads(status, m))
<1>1. a \in Nat /\ b \in Nat /\ c \in Nat /\ d \in Nat
  BY RightsCounted
<1>2. a <= b /\ (a = b => Reads(status, l) = Reads(status, m))
  BY RightsCounted, FS_Subset DEF Covers
<1>3. c <= d /\ (c = d => Downloads(status, l) = Downloads(status, m))
  BY RightsCounted, FS_Subset DEF Covers
<1>4. AccessCount(status, l) = a + c /\ AccessCount(status, m) = b + d
  BY RightsCounted
<1> HIDE DEF a, b, c, d
<1>5. a + c <= b + d /\ (a + c = b + d => a = b /\ c = d)
  BY <1>1, <1>2, <1>3
<1> QED BY <1>2, <1>3, <1>4, <1>5 DEF Covers

(* A gain is announced exactly when some role gains a right, and a loss when *)
(* one loses a right (getAccessImpactPreview).                               *)
THEOREM ImpactTold == PolicySpec => []ImpactExact
<1>1. Type => ImpactExact
  <2> SUFFICES ASSUME Type, NEW proposed \in Levels
               PROVE  /\ AccessExpanded(doc, proposed) <=> Gains(doc.level, proposed)
                      /\ AccessReduced(doc, proposed) <=> Gains(proposed, doc.level)
    BY DEF ImpactExact
  <2>1. doc.status \in Statuses /\ doc.level \in Levels
    BY DEF Type, Documents
  <2>2. PICK status, level : status = doc.status /\ level = doc.level
    OBVIOUS
  <2>3. \A l, m : Gains(l, m) <=> ~Covers(status, l, m)
    BY <2>2 DEF Gains, Covers, Reads, Downloads
  <2>4. /\ AccessExpanded(doc, proposed) <=> AccessCount(status, proposed) > AccessCount(status, level)
        /\ AccessReduced(doc, proposed) <=> AccessCount(status, proposed) < AccessCount(status, level)
    BY <2>2 DEF AccessExpanded, AccessReduced
  <2>5. AccessCount(status, proposed) \in Nat /\ AccessCount(status, level) \in Nat
    BY RightsCounted
  <2>6. Covers(status, proposed, level) \/ Covers(status, level, proposed)
    BY <2>1, <2>2, LevelsChained
  <2>7. CASE Covers(status, proposed, level)
    <3>1. /\ AccessCount(status, level) <= AccessCount(status, proposed)
          /\ AccessCount(status, level) = AccessCount(status, proposed) => Covers(status, level, proposed)
      BY <2>7, CountsTell
    <3>2. Covers(status, level, proposed) => AccessCount(status, proposed) <= AccessCount(status, level)
      BY CountsTell
    <3> QED BY <2>2, <2>3, <2>4, <2>5, <2>7, <3>1, <3>2
  <2>8. CASE Covers(status, level, proposed)
    <3>1. /\ AccessCount(status, proposed) <= AccessCount(status, level)
          /\ AccessCount(status, proposed) = AccessCount(status, level) => Covers(status, proposed, level)
      BY <2>8, CountsTell
    <3>2. Covers(status, proposed, level) => AccessCount(status, level) <= AccessCount(status, proposed)
      BY CountsTell
    <3> QED BY <2>2, <2>3, <2>4, <2>5, <2>8, <3>1, <3>2
  <2> QED BY <2>6, <2>7, <2>8
<1> QED
  BY <1>1, TypeCorrect, PTL

-----------------------------------------------------------------------------
(* The access review leaves the document alone, so what is proved above of the *)
(* document holds beside it.                                                    *)
THEOREM ReviewRefines == ReviewSpec => PolicySpec
<1>1. ReviewInit => Create
  BY DEF ReviewInit
<1>2. [ReviewNext]_reviewVars => [Manage]_doc
  BY DEF ReviewNext, reviewVars, Changes, List, Detail, Fails, Ask
<1> QED
  BY <1>1, <1>2, PTL DEF ReviewSpec, PolicySpec

(* The access review.  A document that somebody else can download stays on     *)
(* the reviewer's list, and has the entry that allows it.                      *)
LEMMA ExposedListed ==
    ASSUME NEW u \in Reviewers, Exposed(doc), ~Denied(doc, u, "READ")
    PROVE  Listed(doc, u) /\ doc.level \in Sensitive
<1>1. doc.status = "PUBLISHED" /\ doc.level \in Sensitive
  BY DEF Exposed, MayDownload, Downloadable
<1>2. HasRole(u, {"compliance_officer", "admin"})
  BY ReviewersAssumption
<1>3. "admin" \in RolesOf[u] \/ IsOfficer(u)
  BY <1>2 DEF HasRole, IsOfficer
<1> QED
  BY <1>1, <1>3 DEF Listed, InRecords

LEMMA ExposedCritical ==
    ASSUME Exposed(doc), NEW stale
    PROVE  ReviewPosture(Reviews(doc, stale)) = "critical"
<1>1. PICK u \in Outsiders : MayDownload(doc, u, "NONE")
  BY DEF Exposed
<1>2. doc.level \in Sensitive
  BY DEF Exposed
<1>3. Allowed(doc, u, "DOWNLOAD")
  BY <1>1, <1>2 DEF MayDownload, ClassificationAllows, Sensitive, Outsiders
<1>4. PICK i \in AclIds : i \in DownloadGrants(doc)
  BY <1>3 DEF Allowed, Ruled, DownloadGrants, Grants
<1>5. Item("download", i, "critical") \in Reviews(doc, stale)
  BY <1>2, <1>4 DEF Reviews
<1>6. Item("download", i, "critical").severity = "critical"
  BY DEF Item
<1> QED
  BY <1>5, <1>6 DEF ReviewPosture

(* While a review is under way it is spared, or the document is exposed now;   *)
(* an officer or an admin has asked for it.                                    *)
ReviewInv ==
    /\ review \in [pc : {"idle", "asked", "listed", "shown", "failed"}, user : Users,
                   posture : {"healthy", "warning", "critical"}, hidden : BOOLEAN, spared : BOOLEAN]
    /\ review.pc \in Loading => review.user \in Reviewers /\ (review.spared \/ Exposed(doc))
    /\ ReviewTells

LEMMA PostureType ==
    ASSUME NEW items PROVE ReviewPosture(items) \in {"healthy", "warning", "critical"}
BY DEF ReviewPosture

LEMMA ReviewStep == ReviewInv /\ [ReviewNext]_reviewVars => ReviewInv'
<1> SUFFICES ASSUME ReviewInv, [ReviewNext]_reviewVars
             PROVE  ReviewInv'
  OBVIOUS
<1> USE DEF ReviewInv, Loading
<1>1. CASE Changes
  <2>1. CASE review.pc \in Loading
    <3>1. review' = [review EXCEPT !.spared = review.spared \/ ~Exposed(doc')]
      BY <1>1, <2>1 DEF Changes
    <3>2. Exposed(doc)' <=> Exposed(doc')
      BY DEF Exposed, MayDownload, Denied, Allowed, Ruled, Applies
    <3> QED
      BY <2>1, <3>1, <3>2 DEF ReviewTells
  <2>2. CASE review.pc \notin Loading
    BY <1>1, <2>2 DEF Changes, ReviewTells
  <2> QED
    BY <2>1, <2>2
<1>2. CASE List
  <2>1. CASE Listed(doc, review.user) /\ doc.level \in Sensitive
    BY <1>2, <2>1 DEF List, ReviewTells
  <2>2. CASE ~(Listed(doc, review.user) /\ doc.level \in Sensitive)
    <3> DEFINE h == Denied(doc, review.user, "READ")
    <3>1. review.pc = "asked" /\ review' = [review EXCEPT !.pc = "shown",
             !.posture = ReviewPosture({}), !.hidden = h]
      BY <1>2, <2>2 DEF List, Answered
    <3>2. h \in BOOLEAN
      BY DEF Denied, Ruled
    <3>3. ReviewPosture({}) \in {"healthy", "warning", "critical"}
      BY PostureType
    <3>4. h \/ review.spared
      BY <2>2, <3>1, ExposedListed
    <3> HIDE DEF h
    <3> QED
      BY <3>1, <3>2, <3>3, <3>4 DEF ReviewTells
  <2> QED
    BY <2>1, <2>2
<1>3. CASE Detail
  <2>1. CASE MayRead(doc, review.user, "NONE")
    <3>1. PICK stale : review' = [review EXCEPT !.pc = "shown",
             !.posture = ReviewPosture(Reviews(doc, stale)), !.hidden = FALSE]
      BY <1>3, <2>1 DEF Detail, Answered
    <3>2. ReviewPosture(Reviews(doc, stale)) \in {"healthy", "warning", "critical"}
      BY PostureType
    <3>3. review.spared \/ ReviewPosture(Reviews(doc, stale)) = "critical"
      BY <1>3, ExposedCritical DEF Detail
    <3> QED
      BY <3>1, <3>2, <3>3 DEF ReviewTells
  <2>2. CASE ~MayRead(doc, review.user, "NONE")
    BY <1>3, <2>2 DEF Detail, ReviewTells
  <2> QED
    BY <2>1, <2>2
<1>4. CASE Fails
  BY <1>4 DEF Fails, ReviewTells
<1>5. ASSUME NEW u \in Reviewers, Ask(u)
      PROVE  ReviewInv'
  <2>1. u \in Users
    BY ReviewersAssumption
  <2>2. Exposed(doc)' <=> Exposed(doc)
    BY <1>5 DEF Ask, Exposed, MayDownload, Denied, Allowed, Ruled, Applies
  <2> QED
    BY <1>5, <2>1, <2>2 DEF Ask, NoReview, ReviewTells
<1>6. CASE UNCHANGED reviewVars
  BY <1>6 DEF reviewVars, ReviewTells, Exposed, MayDownload, Denied, Allowed, Ruled, Applies
<1> QED
  BY <1>1, <1>2, <1>3, <1>4, <1>5, <1>6 DEF ReviewNext

(* A review that is not critical tells of a moment in which only the owner and *)
(* the admins could download the document, for any users, entries and          *)
(* interleaving of the two reads with changes of the document.                 *)
THEOREM ReviewsTell == ReviewSpec => []ReviewTells
<1>1. ReviewInit => ReviewInv
  BY UsersAssumption DEF ReviewInit, NoReview, ReviewInv, Loading, ReviewTells
<1>2. ReviewInv => ReviewTells
  BY DEF ReviewInv
<1> QED
  BY <1>1, <1>2, ReviewStep, PTL DEF ReviewSpec

-----------------------------------------------------------------------------
(* What is handed out.                                                       *)
CallTypes ==
    {idle}
    \cup [pc: {"redeeming"}, user: Readers]
    \cup [pc: {"reading"}, user: Readers, kind: Kinds, level: Levels,
          withLink: BOOLEAN, passing: SUBSET Shares]
    \cup [pc: {"previewing"}, user: Readers, level: Levels]

AccessType ==
    /\ Type
    /\ link \in Links \cup {NoLink}
    /\ call \in [Slots -> CallTypes]
    /\ grants \subseteq [user: Readers, level: Levels, expires: Nat]
    /\ urls \subseteq [user: Readers, expires: Nat]
    /\ clock \in Nat
    /\ seen \in [permitted: [Readers -> [Kinds -> Int]], plain: Int]
-----------------------------------------------------------------------------
(* What the types of calls mean, and how a call becomes another.           *)
LEMMA CallFields ==
    ASSUME NEW c \in CallTypes
    PROVE  /\ c.pc = "redeeming" => c.user \in Readers
           /\ c.pc = "reading" => /\ c.user \in Readers /\ c.kind \in Kinds /\ c.level \in Levels
                                  /\ c.withLink \in BOOLEAN /\ c.passing \in SUBSET Shares
           /\ c.pc = "previewing" => c.user \in Readers /\ c.level \in Levels
           /\ c.pc = "idle" => c = idle
BY DEF CallTypes, idle

LEMMA TypeStart ==
    ASSUME DocumentAccessAssumption, Init
    PROVE  AccessType
<1>1. Type
  BY TypeInit DEF Init
<1>2. link \in Links \cup {NoLink} /\ call \in [Slots -> CallTypes]
  BY DEF Init, CallTypes
<1>3. grants \subseteq [user: Readers, level: Levels, expires: Nat]
      /\ urls \subseteq [user: Readers, expires: Nat] /\ clock \in Nat
  BY DEF Init
<1>4. seen \in [permitted: [Readers -> [Kinds -> Int]], plain: Int]
  BY DEF Init
<1> QED
  BY <1>1, <1>2, <1>3, <1>4 DEF AccessType

LEMMA ObserveType ==
    ASSUME Observe, clock' \in Nat, AccessType
    PROVE  seen' \in [permitted: [Readers -> [Kinds -> Int]], plain: Int]
<1> DEFINE p == [u \in Readers |-> [k \in Kinds |->
                    IF Permitted(u, k)' THEN clock' ELSE seen.permitted[u][k]]]
           l == IF doc'.level \in Sensitive THEN seen.plain ELSE clock'
<1>1. seen' = [permitted |-> p, plain |-> l]
  BY DEF Observe
<1>2. seen.permitted \in [Readers -> [Kinds -> Int]] /\ seen.plain \in Int
  BY DEF AccessType
<1>3. p \in [Readers -> [Kinds -> Int]]
  BY <1>2
<1>4. l \in Int
  BY <1>2
<1> QED
  BY <1>1, <1>3, <1>4

LEMMA HandOutType ==
    ASSUME AccessType, HandOut
    PROVE  /\ doc' = doc /\ link' = link /\ grants' = grants /\ urls' = urls /\ clock' = clock
           /\ call' \in [Slots -> CallTypes]
<1>1. CASE \E g \in grants : Stream(g)
  BY <1>1 DEF Stream, AccessType
<1>2. CASE \E x \in urls : FetchUrl(x)
  BY <1>2 DEF FetchUrl, AccessType
<1>3. CASE \E s \in Slots : ServePreview(s)
  BY <1>3 DEF ServePreview, Calls, AccessType, CallTypes
<1> QED
  BY <1>1, <1>2, <1>3 DEF HandOut

LEMMA ShareType ==
    ASSUME DocumentAccessAssumption, AccessType, Share
    PROVE  /\ link' \in Links
           /\ UNCHANGED <<doc, call, grants, urls, clock>>
<1>1. ASSUME NEW permission \in Shares \ {"NONE"}, NEW cap \in Caps, CreateLink(permission, cap)
      PROVE  /\ link' \in Links
             /\ UNCHANGED <<doc, call, grants, urls, clock>>
  <2>1. clock + LinkTime \in Nat
    BY DEF DocumentAccessAssumption, AccessType
  <2> QED
    BY <1>1, <2>1 DEF CreateLink, Relinks, Links
<1>2. CASE RevokeLink
  BY <1>2 DEF RevokeLink, Relinks, AccessType, Links
<1> QED
  BY <1>1, <1>2 DEF Share

LEMMA CallType ==
    ASSUME DocumentAccessAssumption, AccessType, NEW s \in Slots, Request(s) \/ Serve(s),
           \A t \in Slots : call[t].pc = "redeeming" => link # NoLink
    PROVE  /\ UNCHANGED <<doc, urls, clock>>
           /\ call' \in [Slots -> CallTypes]
           /\ link' \in Links \cup {NoLink}
           /\ grants' \subseteq [user: Readers, level: Levels, expires: Nat]
<1> USE DEF Calls
<1>0. call \in [Slots -> CallTypes] /\ link \in Links \cup {NoLink} /\ call[s] \in CallTypes
      /\ grants \subseteq [user: Readers, level: Levels, expires: Nat] /\ doc.level \in Levels
  BY DEF AccessType, Type, Documents
<1>1. ASSUME NEW u \in Readers, RequestRedeem(s, u)
      PROVE  call' \in [Slots -> CallTypes] /\ UNCHANGED <<doc, link, grants, urls, clock>>
  BY <1>0, <1>1 DEF RequestRedeem, CallTypes
<1>2. ASSUME NEW u \in Readers, NEW kind \in Kinds, NEW withLink \in BOOLEAN,
             ReadDocument(s, u, kind, withLink)
      PROVE  call' \in [Slots -> CallTypes] /\ UNCHANGED <<doc, link, grants, urls, clock>>
  <2> DEFINE shares == IF withLink THEN Shares ELSE {"NONE"}
             passing == {share \in shares : MayHave(doc, u, kind, share)}
             c == [pc |-> "reading", user |-> u, kind |-> kind, level |-> doc.level,
                   withLink |-> withLink, passing |-> passing]
  <2>1. passing \in SUBSET Shares
    BY DEF Shares
  <2>2. call' = [call EXCEPT ![s] = c] /\ UNCHANGED <<doc, link, grants, urls, clock>>
    BY <1>2 DEF ReadDocument
  <2> HIDE DEF passing
  <2>3. c \in CallTypes
    BY <1>0, <2>1 DEF CallTypes
  <2> HIDE DEF c
  <2> QED
    BY <1>0, <2>2, <2>3
<1>3. CASE CountRedeem(s)
  <2>1. link \in Links /\ UNCHANGED <<doc, grants, urls, clock>>
    BY <1>0, <1>3 DEF CountRedeem
  <2>2. link' = [link EXCEPT !.count = @ + 1] /\ call' = [call EXCEPT ![s] = idle]
    BY <1>3 DEF CountRedeem
  <2>3. link' \in Links
    BY <2>1, <2>2 DEF Links
  <2>4. call' \in [Slots -> CallTypes]
    BY <1>0, <2>2 DEF CallTypes
  <2> QED
    BY <1>0, <2>1, <2>3, <2>4
<1>4. CASE Refuse(s)
  BY <1>0, <1>4 DEF Refuse, CallTypes
<1>5. CASE GrantDownload(s)
  <2>1. call[s].user \in Readers /\ call[s].level \in Levels
    BY <1>0, <1>5, CallFields DEF GrantDownload
  <2>2. clock + GrantTime \in Nat
    BY DEF DocumentAccessAssumption, AccessType
  <2>3. call' \in [Slots -> CallTypes]
    BY <1>0, <1>5 DEF GrantDownload, CallTypes
  <2> QED
    BY <1>0, <1>5, <2>1, <2>2, <2>3 DEF GrantDownload
<1>6. CASE GrantPreview(s)
  <2>1. call[s].user \in Readers /\ call[s].level \in Levels
    BY <1>0, <1>6, CallFields DEF GrantPreview
  <2> QED
    BY <1>0, <1>6, <2>1 DEF GrantPreview, CallTypes
<1>7. CASE Request(s)
  BY <1>0, <1>1, <1>2, <1>7 DEF Request
<1>8. CASE Serve(s)
  BY <1>0, <1>3, <1>4, <1>5, <1>6, <1>8 DEF Serve
<1> QED
  BY <1>7, <1>8

LEMMA OtherType ==
    ASSUME DocumentAccessAssumption, AccessType, Other,
           \A t \in Slots : call[t].pc = "redeeming" => link # NoLink
    PROVE  /\ Type'
           /\ link' \in Links \cup {NoLink}
           /\ call' \in [Slots -> CallTypes]
           /\ grants' \subseteq [user: Readers, level: Levels, expires: Nat]
           /\ urls' \subseteq [user: Readers, expires: Nat]
           /\ clock' \in Nat /\ clock <= clock'
<1> DEFINE Goal == /\ Type'
                   /\ link' \in Links \cup {NoLink}
                   /\ call' \in [Slots -> CallTypes]
                   /\ grants' \subseteq [user: Readers, level: Levels, expires: Nat]
                   /\ urls' \subseteq [user: Readers, expires: Nat]
                   /\ clock' \in Nat /\ clock <= clock'
<1>0. /\ Type /\ link \in Links \cup {NoLink} /\ call \in [Slots -> CallTypes]
      /\ grants \subseteq [user: Readers, level: Levels, expires: Nat]
      /\ urls \subseteq [user: Readers, expires: Nat] /\ clock \in Nat
  BY DEF AccessType
<1>1. doc' = doc => Type'
  BY <1>0 DEF Type
<1>2. CASE ChangeDocument
  <2>1. Type'
    BY <1>0, <1>2, TypeNext DEF ChangeDocument
  <2> QED
    BY <1>0, <1>2, <2>1 DEF ChangeDocument
<1>3. CASE Share
  BY <1>0, <1>1, <1>3, ShareType
<1>4. ASSUME NEW s \in Slots, Request(s) \/ Serve(s)
      PROVE  Goal
  BY <1>0, <1>1, <1>4, CallType
<1>5. ASSUME NEW g \in grants, Presign(g)
      PROVE  Goal
  <2>1. g.user \in Readers /\ clock + UrlTime \in Nat
    BY <1>0 DEF DocumentAccessAssumption
  <2> QED
    BY <1>0, <1>1, <1>5, <2>1 DEF Presign
<1>6. CASE Tick
  BY <1>0, <1>1, <1>6 DEF Tick
<1> QED
  BY <1>2, <1>3, <1>4, <1>5, <1>6 DEF Other
-----------------------------------------------------------------------------
(* The history never forgets. *)

Remembers ==
    /\ \A u \in Readers, k \in Kinds : seen.permitted[u][k] <= clock
    /\ seen.plain <= clock

LEMMA SeenGrows ==
    ASSUME AccessType, Remembers, Observe, clock' \in Nat, clock <= clock',
           NEW u \in Readers, NEW k \in Kinds
    PROVE  /\ seen'.permitted[u][k] >= seen.permitted[u][k]
           /\ seen'.permitted[u][k] <= clock'
           /\ clock' = clock /\ seen.permitted[u][k] = clock => seen'.permitted[u][k] = clock'
           /\ Permitted(u, k)' => seen'.permitted[u][k] = clock'
<1>1. seen'.permitted[u][k] = IF Permitted(u, k)' THEN clock' ELSE seen.permitted[u][k]
  BY DEF Observe
<1>2. seen.permitted[u][k] \in Int /\ seen.permitted[u][k] <= clock /\ clock \in Nat
  BY DEF AccessType, Remembers
<1>3. CASE Permitted(u, k)'
  <2>1. seen'.permitted[u][k] = clock'
    BY <1>1, <1>3
  <2> QED
    BY <1>2, <2>1
<1>4. CASE ~Permitted(u, k)'
  <2>1. seen'.permitted[u][k] = seen.permitted[u][k]
    BY <1>1, <1>4
  <2> QED
    BY <1>2, <1>4, <2>1
<1> QED
  BY <1>3, <1>4

LEMMA PlainGrows ==
    ASSUME AccessType, Remembers, Observe, clock' \in Nat, clock <= clock'
    PROVE  /\ seen'.plain >= seen.plain
           /\ seen'.plain <= clock'
           /\ clock' = clock /\ seen.plain = clock => seen'.plain = clock'
           /\ doc'.level \notin Sensitive => seen'.plain = clock'
<1>1. seen'.plain = IF doc'.level \in Sensitive THEN seen.plain ELSE clock'
  BY DEF Observe
<1>2. seen.plain \in Int /\ seen.plain <= clock /\ clock \in Nat
  BY DEF AccessType, Remembers
<1> QED
  BY <1>1, <1>2
-----------------------------------------------------------------------------
(* What a call in progress, a grant and a URL know. *)

Decides(s) ==
    /\ call[s].pc = "redeeming" => link # NoLink
    /\ call[s].pc = "reading" =>
        /\ call[s].withLink => link # NoLink
        /\ ~call[s].withLink => call[s].passing \subseteq {"NONE"}
        /\ "NONE" \in call[s].passing \/ ShareGrant(link) \in call[s].passing
            => seen.permitted[call[s].user][call[s].kind] = clock
        /\ call[s].level \notin Sensitive => seen.plain = clock
    /\ call[s].pc = "previewing" =>
        /\ seen.permitted[call[s].user]["PREVIEW"] = clock
        /\ call[s].level \notin Sensitive => seen.plain = clock

GrantKnows(g) ==
    /\ g.expires >= GrantTime
    /\ seen.permitted[g.user]["DOWNLOAD"] >= g.expires - GrantTime
    /\ g.level \notin Sensitive => seen.plain >= g.expires - GrantTime

UrlKnows(x) ==
    /\ seen.permitted[x.user]["DOWNLOAD"] >= 0 /\ seen.plain >= 0
    /\ seen.permitted[x.user]["DOWNLOAD"] > x.expires - UrlTime - GrantTime
    /\ seen.plain > x.expires - UrlTime - GrantTime

AccessInv ==
    /\ AccessType
    /\ Remembers
    /\ \A s \in Slots : Decides(s)
    /\ \A g \in grants : GrantKnows(g)
    /\ \A x \in urls : UrlKnows(x)

LEMMA InvStart ==
    ASSUME DocumentAccessAssumption, Init
    PROVE  AccessInv
<1>1. AccessType
  BY TypeStart
<1>2. Remembers
  BY DEF Init, Remembers
<1>3. \A s \in Slots : Decides(s)
  BY DEF Init, Decides, idle
<1> QED
  BY <1>1, <1>2, <1>3 DEF AccessInv, Init

(* A grant or a URL that is kept is still good for what it was issued for. *)
LEMMA GrantKept ==
    ASSUME DocumentAccessAssumption, AccessType, Remembers, Observe, clock' \in Nat, clock <= clock',
           NEW g \in grants, GrantKnows(g)
    PROVE  GrantKnows(g)'
<1>1. g.user \in Readers /\ g.expires \in Nat /\ "DOWNLOAD" \in Kinds
  BY DEF AccessType, Kinds
<1>2. seen'.permitted[g.user]["DOWNLOAD"] >= seen.permitted[g.user]["DOWNLOAD"]
  BY <1>1, SeenGrows
<1>3. seen'.plain >= seen.plain
  BY PlainGrows
<1>4. /\ seen.permitted[g.user]["DOWNLOAD"] \in Int /\ seen'.permitted[g.user]["DOWNLOAD"] \in Int
      /\ seen.plain \in Int /\ seen'.plain \in Int /\ GrantTime \in Nat
  BY <1>1, ObserveType DEF AccessType, DocumentAccessAssumption
<1> QED
  BY <1>1, <1>2, <1>3, <1>4 DEF GrantKnows

LEMMA UrlKept ==
    ASSUME DocumentAccessAssumption, AccessType, Remembers, Observe, clock' \in Nat, clock <= clock',
           NEW x \in urls, UrlKnows(x)
    PROVE  UrlKnows(x)'
<1>1. x.user \in Readers /\ x.expires \in Nat /\ "DOWNLOAD" \in Kinds
  BY DEF AccessType, Kinds
<1>2. seen'.permitted[x.user]["DOWNLOAD"] >= seen.permitted[x.user]["DOWNLOAD"]
  BY <1>1, SeenGrows
<1>3. seen'.plain >= seen.plain
  BY PlainGrows
<1>4. /\ seen.permitted[x.user]["DOWNLOAD"] \in Int /\ seen'.permitted[x.user]["DOWNLOAD"] \in Int
      /\ seen.plain \in Int /\ seen'.plain \in Int /\ GrantTime \in Nat /\ UrlTime \in Nat
  BY <1>1, ObserveType DEF AccessType, DocumentAccessAssumption
<1> QED
  BY <1>1, <1>2, <1>3, <1>4 DEF UrlKnows

(* A call that waits keeps what it has read: a link does not become usable  *)
(* again.                                                                   *)
LEMMA CallKept ==
    ASSUME AccessType, Remembers, Observe, clock' = clock,
           NEW s \in Slots, Decides(s), call'[s] = call[s],
           link # NoLink => link' # NoLink /\ ShareGrant(link)' \in {"NONE", ShareGrant(link)}
    PROVE  Decides(s)'
<1>0. clock' \in Nat /\ clock <= clock' /\ call[s] \in CallTypes
  BY DEF AccessType
<1>1. CASE call[s].pc = "reading"
  <2>1. call[s].user \in Readers /\ call[s].kind \in Kinds /\ call[s].withLink \in BOOLEAN
    BY <1>0, <1>1, CallFields
  <2>2. seen.permitted[call[s].user][call[s].kind] = clock
          => seen'.permitted[call[s].user][call[s].kind] = clock'
    BY <1>0, <2>1, SeenGrows
  <2>3. seen.plain = clock => seen'.plain = clock'
    BY <1>0, PlainGrows
  <2>4. "NONE" \in call[s].passing \/ ShareGrant(link)' \in call[s].passing
          => "NONE" \in call[s].passing \/ ShareGrant(link) \in call[s].passing
    BY <1>1, <2>1 DEF Decides
  <2> QED
    BY <1>1, <2>1, <2>2, <2>3, <2>4 DEF Decides
<1>2. CASE call[s].pc = "previewing"
  <2>1. call[s].user \in Readers /\ "PREVIEW" \in Kinds
    BY <1>0, <1>2, CallFields DEF Kinds
  <2>2. seen.permitted[call[s].user]["PREVIEW"] = clock
          => seen'.permitted[call[s].user]["PREVIEW"] = clock'
    BY <1>0, <2>1, SeenGrows
  <2>3. seen.plain = clock => seen'.plain = clock'
    BY <1>0, PlainGrows
  <2> QED
    BY <1>2, <2>2, <2>3 DEF Decides
<1>3. CASE call[s].pc = "redeeming"
  BY <1>3 DEF Decides
<1> QED
  BY <1>1, <1>2, <1>3 DEF Decides
-----------------------------------------------------------------------------
(* What the steps of a call do to the slots and to the grants.             *)

LEMMA LinkStays ==
    ASSUME UNCHANGED <<link, clock>>
    PROVE  ShareGrant(link)' = ShareGrant(link)
BY DEF ShareGrant, Active

LEMMA LinkChanges ==
    ASSUME DocumentAccessAssumption, AccessType, Share, link # NoLink
    PROVE  link' # NoLink /\ ShareGrant(link)' \in {"NONE", ShareGrant(link)}
<1>1. RevokeLink
  BY DEF Share, CreateLink
<1>2. link \in Links /\ link' \in Links /\ link' = [link EXCEPT !.revoked = TRUE]
  BY <1>1, ShareType DEF AccessType, RevokeLink, Relinks
<1>3. link'.revoked
  BY <1>2 DEF Links
<1> QED
  BY <1>2, <1>3 DEF DocumentAccessAssumption, ShareGrant, Active

LEMMA LinkCounts ==
    ASSUME DocumentAccessAssumption, AccessType, NEW s \in Slots, CountRedeem(s), link # NoLink
    PROVE  link' # NoLink /\ ShareGrant(link)' \in {"NONE", ShareGrant(link)}
<1>1. link \in Links /\ link' = [link EXCEPT !.count = @ + 1] /\ clock' = clock
  BY DEF AccessType, CountRedeem
<1>2. link' \in Links
  BY <1>1 DEF Links
<1>3. /\ link'.revoked = link.revoked /\ link'.expires = link.expires /\ link'.cap = link.cap
      /\ link'.permission = link.permission /\ link'.count = link.count + 1
  BY <1>1 DEF Links
<1>4. link.cap = NoCap \/ link.cap \in Nat
  BY <1>1 DEF Links, DocumentAccessAssumption
<1>5. link.count \in Nat
  BY <1>1 DEF Links
<1>6. link.cap # NoCap /\ link.count + 1 < link.cap => link.count < link.cap
  BY <1>4, <1>5
<1>7. link' # NoLink
  BY <1>2 DEF DocumentAccessAssumption
<1>8. Active(link)' => Active(link)
  BY <1>1, <1>3, <1>6, <1>7 DEF Active
<1> QED
  BY <1>3, <1>7, <1>8 DEF ShareGrant

(* What was read may be had now, or could be when it was read. *)
LEMMA ReadKnows ==
    ASSUME DocumentAccessAssumption, AccessType, Remembers, Observe,
           NEW s \in Slots, NEW u \in Readers, NEW kind \in Kinds, NEW withLink \in BOOLEAN,
           ReadDocument(s, u, kind, withLink)
    PROVE  Decides(s)'
<1> DEFINE shares == IF withLink THEN Shares ELSE {"NONE"}
           passing == {share \in shares : MayHave(doc, u, kind, share)}
           c == [pc |-> "reading", user |-> u, kind |-> kind, level |-> doc.level,
                 withLink |-> withLink, passing |-> passing]
<1>1. call' = [call EXCEPT ![s] = c] /\ UNCHANGED <<doc, link, clock>>
      /\ (withLink => link # NoLink)
  BY DEF ReadDocument, Calls
<1>2. call'[s] = c
  BY <1>1 DEF AccessType
<1>3. clock' \in Nat /\ clock <= clock'
  BY <1>1 DEF AccessType
<1>4. ShareGrant(link)' = ShareGrant(link)
  BY <1>1, LinkStays
<1>5. "NONE" \in passing \/ ShareGrant(link)' \in passing => Permitted(u, kind)'
  BY <1>1, <1>4 DEF Permitted
<1>6. "NONE" \in passing \/ ShareGrant(link)' \in passing => seen'.permitted[u][kind] = clock'
  BY <1>3, <1>5, SeenGrows
<1>7. doc.level \notin Sensitive => seen'.plain = clock'
  BY <1>1, <1>3, PlainGrows
<1>8. ~withLink => passing \subseteq {"NONE"}
  OBVIOUS
<1> HIDE DEF passing
<1>9. /\ c.pc = "reading" /\ c.user = u /\ c.kind = kind /\ c.level = doc.level
      /\ c.withLink = withLink /\ c.passing = passing
  OBVIOUS
<1> HIDE DEF c
<1> QED
  BY <1>1, <1>2, <1>6, <1>7, <1>8, <1>9 DEF Decides

(* A decision is made on what was permitted in this very unit of time. *)
LEMMA PassesNow ==
    ASSUME AccessType, NEW s \in Slots, call[s].pc = "reading", Decides(s), Passes(call[s])
    PROVE  seen.permitted[call[s].user][call[s].kind] = clock
BY DEF Passes, Decides

LEMMA IdleDecides ==
    ASSUME NEW s \in Slots, call'[s] = idle
    PROVE  Decides(s)'
BY DEF Decides, idle

LEMMA RequestInv ==
    ASSUME DocumentAccessAssumption, AccessInv, Observe, NEW s \in Slots, Request(s)
    PROVE  Decides(s)' /\ \A t \in Slots \ {s} : call'[t] = call[t]
<1>0. AccessType /\ Remembers
  BY DEF AccessInv
<1>1. ASSUME NEW u \in Readers, RequestRedeem(s, u)
      PROVE  Decides(s)' /\ \A t \in Slots \ {s} : call'[t] = call[t]
  <2>1. call'[s].pc = "redeeming" /\ link' = link /\ link # NoLink
    BY <1>0, <1>1 DEF RequestRedeem, Calls, Active, AccessType
  <2> QED
    BY <1>0, <1>1, <2>1 DEF RequestRedeem, Calls, Decides, AccessType
<1>2. ASSUME NEW u \in Readers, NEW kind \in Kinds, NEW withLink \in BOOLEAN,
             ReadDocument(s, u, kind, withLink)
      PROVE  Decides(s)' /\ \A t \in Slots \ {s} : call'[t] = call[t]
  <2>1. Decides(s)'
    BY <1>0, <1>2, ReadKnows
  <2> QED
    BY <1>0, <1>2, <2>1 DEF ReadDocument, Calls, AccessType
<1> QED
  BY <1>1, <1>2 DEF Request

LEMMA ServeInv ==
    ASSUME DocumentAccessAssumption, AccessInv, Observe, NEW s \in Slots, Serve(s)
    PROVE  /\ Decides(s)'
           /\ \A t \in Slots \ {s} : call'[t] = call[t]
           /\ \A g \in grants' \ grants : GrantKnows(g)'
<1> DEFINE Others == \A t \in Slots \ {s} : call'[t] = call[t]
<1>0. AccessType /\ Remembers /\ Decides(s) /\ call \in [Slots -> CallTypes]
      /\ call[s] \in CallTypes /\ clock \in Nat
  BY DEF AccessInv, AccessType
<1>1. CASE CountRedeem(s) \/ Refuse(s)
  <2>1. call'[s] = idle /\ Others /\ grants' = grants
    BY <1>0, <1>1 DEF CountRedeem, Refuse, Calls
  <2> QED
    BY <2>1, IdleDecides
<1>2. CASE GrantDownload(s)
  <2>1. call'[s] = idle /\ Others /\ UNCHANGED <<doc, link, urls, clock>>
    BY <1>0, <1>2 DEF GrantDownload, Calls
  <2>2. /\ call[s].pc = "reading" /\ call[s].kind = "DOWNLOAD" /\ call[s].user \in Readers
        /\ seen.permitted[call[s].user]["DOWNLOAD"] = clock
        /\ call[s].level \notin Sensitive => seen.plain = clock
    BY <1>0, <1>2, CallFields, PassesNow DEF GrantDownload, Decides
  <2>3. /\ seen'.permitted[call[s].user]["DOWNLOAD"] = clock
        /\ call[s].level \notin Sensitive => seen'.plain = clock
    <3>1. "DOWNLOAD" \in Kinds /\ clock' = clock /\ clock' \in Nat /\ clock <= clock'
      BY <1>0, <2>1 DEF Kinds
    <3> QED
      BY <1>0, <2>2, <3>1, SeenGrows, PlainGrows
  <2> DEFINE new == [user |-> call[s].user, level |-> call[s].level, expires |-> clock + GrantTime]
  <2>4. grants' = grants \cup {new}
    BY <1>2 DEF GrantDownload
  <2>5. ASSUME NEW g \in grants' \ grants
        PROVE  GrantKnows(g)'
    <3>1. g = new
      BY <2>4
    <3>2. g.user = call[s].user /\ g.level = call[s].level /\ g.expires = clock + GrantTime
      BY <3>1
    <3>3. GrantTime \in Nat
      BY DEF DocumentAccessAssumption
    <3> QED
      BY <1>0, <2>3, <3>2, <3>3 DEF GrantKnows
  <2> QED
    BY <2>1, <2>5, IdleDecides
<1>3. CASE GrantPreview(s)
  <2> DEFINE c == [pc |-> "previewing", user |-> call[s].user, level |-> call[s].level]
  <2>1. call'[s] = c /\ Others /\ UNCHANGED <<doc, link, urls, grants, clock>>
    BY <1>0, <1>3 DEF GrantPreview, Calls
  <2>2. /\ call[s].pc = "reading" /\ call[s].kind = "PREVIEW" /\ call[s].user \in Readers
        /\ seen.permitted[call[s].user]["PREVIEW"] = clock
        /\ call[s].level \notin Sensitive => seen.plain = clock
    BY <1>0, <1>3, CallFields, PassesNow DEF GrantPreview, Decides
  <2>3. /\ seen'.permitted[call[s].user]["PREVIEW"] = clock'
        /\ call[s].level \notin Sensitive => seen'.plain = clock'
    <3>1. "PREVIEW" \in Kinds /\ clock' = clock /\ clock' \in Nat /\ clock <= clock'
      BY <1>0, <2>1 DEF Kinds
    <3> QED
      BY <1>0, <2>2, <3>1, SeenGrows, PlainGrows
  <2>4. Decides(s)'
    BY <2>1, <2>3 DEF Decides
  <2> QED
    BY <2>1, <2>4
<1> QED
  BY <1>1, <1>2, <1>3 DEF Serve

LEMMA HandOutInv ==
    ASSUME DocumentAccessAssumption, AccessInv, Observe, HandOut
    PROVE  \A s \in Slots : Decides(s)'
<1>0. AccessType /\ Remembers /\ clock' = clock /\ link' = link
  BY HandOutType DEF AccessInv
<1>1. ShareGrant(link)' = ShareGrant(link)
  BY <1>0, LinkStays
<1> SUFFICES ASSUME NEW s \in Slots
             PROVE  Decides(s)'
  OBVIOUS
<1>2. call'[s] = call[s] \/ call'[s] = idle
  BY <1>0 DEF HandOut, Stream, FetchUrl, ServePreview, Calls, AccessType
<1>3. CASE call'[s] = call[s]
  BY <1>0, <1>1, <1>3, CallKept DEF AccessInv
<1> QED
  BY <1>2, <1>3, IdleDecides

LEMMA OtherInv ==
    ASSUME DocumentAccessAssumption, AccessInv, Observe, Other
    PROVE  /\ \A s \in Slots : Decides(s)'
           /\ \A g \in grants' \ grants : GrantKnows(g)'
           /\ \A x \in urls' \ urls : UrlKnows(x)'
<1> DEFINE Goal == /\ \A s \in Slots : Decides(s)'
                   /\ \A g \in grants' \ grants : GrantKnows(g)'
                   /\ \A x \in urls' \ urls : UrlKnows(x)'
<1>0. AccessType /\ Remembers /\ clock \in Nat /\ \A s \in Slots : Decides(s)
  BY DEF AccessInv, AccessType
<1>1. ASSUME UNCHANGED <<link, clock>>, NEW s \in Slots, call'[s] = call[s]
      PROVE  Decides(s)'
  BY <1>0, <1>1, LinkStays, CallKept
<1>2. CASE ChangeDocument
  BY <1>1, <1>2 DEF ChangeDocument
<1>3. CASE Share
  <2>1. UNCHANGED <<doc, call, grants, urls, clock>>
    BY <1>0, <1>3, ShareType
  <2>2. link # NoLink => link' # NoLink /\ ShareGrant(link)' \in {"NONE", ShareGrant(link)}
    BY <1>0, <1>3, LinkChanges
  <2>3. ASSUME NEW s \in Slots
        PROVE  Decides(s)'
    BY <1>0, <2>1, <2>2, CallKept
  <2> QED
    BY <2>1, <2>3
<1>4. ASSUME NEW s \in Slots, Request(s)
      PROVE  Goal
  <2>1. UNCHANGED <<doc, link, grants, urls, clock>>
    BY <1>4 DEF Request, RequestRedeem, ReadDocument
  <2>2. Decides(s)' /\ \A t \in Slots \ {s} : call'[t] = call[t]
    BY <1>4, RequestInv
  <2>3. ASSUME NEW t \in Slots
        PROVE  Decides(t)'
    BY <1>1, <2>1, <2>2
  <2> QED
    BY <2>1, <2>3
<1>5. ASSUME NEW s \in Slots, Serve(s)
      PROVE  Goal
  <2>1. UNCHANGED <<doc, urls, clock>>
    BY <1>5 DEF Serve, CountRedeem, Refuse, GrantDownload, GrantPreview
  <2>2. link # NoLink => link' # NoLink /\ ShareGrant(link)' \in {"NONE", ShareGrant(link)}
    <3>1. CASE CountRedeem(s)
      BY <1>0, <3>1, LinkCounts
    <3>2. CASE ~CountRedeem(s)
      <4>1. link' = link
        BY <1>5, <3>2 DEF Serve, Refuse, GrantDownload, GrantPreview
      <4> QED
        BY <2>1, <4>1, LinkStays
    <3> QED
      BY <3>1, <3>2
  <2>3. /\ Decides(s)' /\ \A t \in Slots \ {s} : call'[t] = call[t]
        /\ \A g \in grants' \ grants : GrantKnows(g)'
    BY <1>5, ServeInv
  <2>4. ASSUME NEW t \in Slots, t # s
        PROVE  Decides(t)'
    BY <1>0, <2>1, <2>2, <2>3, <2>4, CallKept
  <2> QED
    BY <2>1, <2>3, <2>4
<1>6. ASSUME NEW g \in grants, Presign(g)
      PROVE  Goal
  <2>1. UNCHANGED <<doc, link, call, grants, clock>>
    BY <1>6 DEF Presign
  <2>2. ASSUME NEW x \in urls' \ urls
        PROVE  UrlKnows(x)'
    <3>1. x.user = g.user /\ x.expires = clock + UrlTime
      BY <1>6 DEF Presign
    <3>2. g.user \in Readers /\ g.expires \in Nat /\ "DOWNLOAD" \in Kinds
          /\ GrantTime \in Nat /\ UrlTime \in Nat
      BY <1>0 DEF AccessType, DocumentAccessAssumption, Kinds
    <3>3. /\ g.expires > clock /\ g.expires >= GrantTime
          /\ seen.permitted[g.user]["DOWNLOAD"] >= g.expires - GrantTime
          /\ seen.plain >= g.expires - GrantTime
      BY <1>6 DEF Presign, Valid, AccessInv, GrantKnows
    <3>4. /\ seen'.permitted[g.user]["DOWNLOAD"] >= seen.permitted[g.user]["DOWNLOAD"]
          /\ seen'.plain >= seen.plain
      BY <1>0, <2>1, <3>2, SeenGrows, PlainGrows
    <3>5. /\ seen.permitted[g.user]["DOWNLOAD"] \in Int /\ seen'.permitted[g.user]["DOWNLOAD"] \in Int
          /\ seen.plain \in Int /\ seen'.plain \in Int
      BY <1>0, <2>1, <3>2, ObserveType DEF AccessType
    <3> QED
      BY <1>0, <3>1, <3>2, <3>3, <3>4, <3>5 DEF UrlKnows
  <2>3. ASSUME NEW s \in Slots
        PROVE  Decides(s)'
    BY <1>1, <2>1
  <2> QED
    BY <2>1, <2>2, <2>3
<1>7. CASE Tick
  <2>1. \A s \in Slots : call'[s] = idle
    BY <1>7 DEF Tick
  <2>2. \A s \in Slots : Decides(s)'
    BY <2>1, IdleDecides
  <2>3. grants' \subseteq grants /\ urls' \subseteq urls
    BY <1>7 DEF Tick
  <2> QED
    BY <2>2, <2>3
<1> QED
  BY <1>2, <1>3, <1>4, <1>5, <1>6, <1>7 DEF Other

LEMMA InvStep ==
    ASSUME DocumentAccessAssumption, AccessInv, [Next]_vars
    PROVE  AccessInv'
<1>0. /\ AccessType /\ Remembers /\ clock \in Nat
      /\ \A t \in Slots : call[t].pc = "redeeming" => link # NoLink
  BY DEF AccessInv, AccessType, Decides
<1>1. CASE UNCHANGED vars
  <2>1. ShareGrant(link)' = ShareGrant(link)
    BY <1>1, LinkStays DEF vars
  <2>2. ASSUME NEW s \in Slots
        PROVE  Decides(s)'
    BY <1>1, <2>1 DEF AccessInv, vars, Decides
  <2>3. AccessType' /\ Remembers'
    BY <1>0, <1>1 DEF AccessType, Remembers, Type, vars
  <2>4. \A g \in grants' : GrantKnows(g)'
    BY <1>1 DEF AccessInv, vars, GrantKnows
  <2>5. \A x \in urls' : UrlKnows(x)'
    BY <1>1 DEF AccessInv, vars, UrlKnows
  <2> QED
    BY <2>2, <2>3, <2>4, <2>5 DEF AccessInv
<1>2. CASE Next
  <2>0. Observe
    BY <1>2 DEF Next
  <2>1. AccessType' /\ clock' \in Nat /\ clock <= clock'
    <3>1. CASE HandOut
      <4>1. Type'
        BY <1>0, <3>1, HandOutType DEF AccessType, Type
      <4> QED
        BY <1>0, <2>0, <3>1, <4>1, HandOutType, ObserveType DEF AccessType
    <3>2. CASE Other
      BY <1>0, <2>0, <3>2, OtherType, ObserveType DEF AccessType
    <3> QED
      BY <1>2, <3>1, <3>2 DEF Next
  <2>2. Remembers'
    <3>1. ASSUME NEW u \in Readers, NEW k \in Kinds
          PROVE  seen'.permitted[u][k] <= clock'
      BY <1>0, <2>0, <2>1, SeenGrows
    <3>2. seen'.plain <= clock'
      BY <1>0, <2>0, <2>1, PlainGrows
    <3> QED
      BY <3>1, <3>2 DEF Remembers
  <2>3. /\ \A s \in Slots : Decides(s)'
        /\ \A g \in grants' \ grants : GrantKnows(g)'
        /\ \A x \in urls' \ urls : UrlKnows(x)'
    <3>1. CASE HandOut
      BY <1>0, <2>0, <3>1, HandOutInv, HandOutType
    <3>2. CASE Other
      BY <2>0, <3>2, OtherInv
    <3> QED
      BY <1>2, <3>1, <3>2 DEF Next
  <2>4. ASSUME NEW g \in grants
        PROVE  GrantKnows(g)'
    BY <1>0, <2>0, <2>1, GrantKept DEF AccessInv
  <2>5. ASSUME NEW x \in urls
        PROVE  UrlKnows(x)'
    BY <1>0, <2>0, <2>1, UrlKept DEF AccessInv
  <2> QED
    BY <2>1, <2>2, <2>3, <2>4, <2>5 DEF AccessInv
<1> QED
  BY <1>1, <1>2

(* What a grant, a URL and a preview deliver is as recent as it must be.   *)
LEMMA DeliveryStep ==
    ASSUME DocumentAccessAssumption, AccessInv, Next
    PROVE  FreshDelivery' /\ WatermarkAsked'
<1>0. /\ clock \in Nat /\ GrantTime \in Nat \ {0} /\ UrlTime \in Nat \ {0} /\ "DOWNLOAD" \in Kinds
      /\ "PREVIEW" \in Kinds /\ seen \in [permitted: [Readers -> [Kinds -> Int]], plain: Int]
  BY DEF AccessInv, AccessType, DocumentAccessAssumption, Kinds
<1>1. CASE delivery' = Nothing
  BY <1>1 DEF FreshDelivery, WatermarkAsked
<1>2. ASSUME NEW g \in grants, Stream(g)
      PROVE  FreshDelivery' /\ WatermarkAsked'
  <2>1. g.user \in Readers /\ g.expires \in Nat /\ g.expires > clock /\ GrantKnows(g)
    BY <1>2 DEF AccessInv, AccessType, Stream, Valid
  <2>2. /\ delivery'.mark \in applyWatermark(g.level) /\ delivery'.at = clock
        /\ delivery'.permitted = seen.permitted[g.user]["DOWNLOAD"] /\ delivery'.plain = seen.plain
    BY <1>2 DEF Stream, Deliver
  <2>3. seen.permitted[g.user]["DOWNLOAD"] \in Int /\ seen.plain \in Int
    BY <1>0, <2>1
  <2>4. FreshDelivery'
    BY <1>0, <2>1, <2>2, <2>3 DEF FreshDelivery, Recent, GrantKnows
  <2>5. delivery'.mark = "none" => seen.plain >= g.expires - GrantTime
    BY <2>1, <2>2 DEF GrantKnows, applyWatermark
  <2>6. g.expires >= GrantTime
    BY <2>1 DEF GrantKnows
  <2>7. delivery'.mark = "none" =>
            delivery'.plain >= 0 /\ delivery'.at - delivery'.plain <= GrantTime + UrlTime - 2
    <3>1. seen.plain >= g.expires - GrantTime
            => seen.plain >= 0 /\ clock - seen.plain <= GrantTime + UrlTime - 2
      BY <1>0, <2>1, <2>3, <2>6 DEF Valid
    <3> QED
      BY <2>2, <2>5, <3>1
  <2>8. WatermarkAsked'
    BY <2>7 DEF WatermarkAsked, Recent
  <2> QED
    BY <2>4, <2>8
<1>3. ASSUME NEW x \in urls, FetchUrl(x)
      PROVE  FreshDelivery' /\ WatermarkAsked'
  <2>1. x.user \in Readers /\ x.expires \in Nat /\ x.expires > clock /\ UrlKnows(x)
    BY <1>3 DEF AccessInv, AccessType, FetchUrl, Valid
  <2>2. /\ delivery'.at = clock
        /\ delivery'.permitted = seen.permitted[x.user]["DOWNLOAD"] /\ delivery'.plain = seen.plain
    BY <1>3 DEF FetchUrl, Deliver
  <2>3. seen.permitted[x.user]["DOWNLOAD"] \in Int /\ seen.plain \in Int
    BY <1>0, <2>1
  <2> QED
    BY <1>0, <2>1, <2>2, <2>3 DEF FreshDelivery, WatermarkAsked, Recent, UrlKnows
<1>4. ASSUME NEW s \in Slots, ServePreview(s)
      PROVE  FreshDelivery' /\ WatermarkAsked'
  <2>1. call[s].pc = "previewing" /\ Decides(s)
    BY <1>4 DEF AccessInv, ServePreview
  <2>2. /\ delivery'.mark \in applyWatermark(call[s].level) /\ delivery'.at = clock
        /\ delivery'.permitted = seen.permitted[call[s].user]["PREVIEW"] /\ delivery'.plain = seen.plain
    BY <1>4 DEF ServePreview, Deliver
  <2>3. delivery'.permitted = clock /\ (call[s].level \notin Sensitive => delivery'.plain = clock)
    BY <2>1, <2>2 DEF Decides
  <2>4. FreshDelivery'
    BY <1>0, <2>2, <2>3 DEF FreshDelivery, Recent
  <2>5. delivery'.mark = "none" => delivery'.plain = clock
    BY <2>2, <2>3 DEF applyWatermark
  <2>6. clock >= 0 /\ clock - clock <= GrantTime + UrlTime - 2
    BY <1>0
  <2>7. WatermarkAsked'
    BY <2>2, <2>5, <2>6 DEF WatermarkAsked, Recent
  <2> QED
    BY <2>4, <2>7
<1> QED
  BY <1>1, <1>2, <1>3, <1>4 DEF Next, HandOut

LEMMA AccessSafe == Spec => [](AccessInv /\ FreshDelivery /\ WatermarkAsked)
<1> DEFINE Inv == AccessInv /\ FreshDelivery /\ WatermarkAsked
<1>1. Init => Inv
  BY DocumentAccessAssumption, InvStart DEF Init, FreshDelivery, WatermarkAsked
<1>2. Inv /\ [Next]_vars => Inv'
  <2>1. Inv /\ Next => Inv'
    BY DocumentAccessAssumption, InvStep, DeliveryStep
  <2>2. Inv /\ UNCHANGED vars => Inv'
    BY DocumentAccessAssumption, InvStep DEF vars, FreshDelivery, WatermarkAsked, Recent
  <2> QED
    BY <2>1, <2>2
<1> QED
  BY <1>1, <1>2, PTL DEF Spec

(* Content goes out only if its recipient could have it, in this way, within *)
(* the lifetimes of a grant and of a URL (download-grant.util.ts,            *)
(* authorizeDownload, presignDownload).                                      *)
THEOREM DeliveredFresh == Spec => []FreshDelivery
BY AccessSafe, PTL

(* Content goes out around the watermark service only if the document was   *)
(* not sensitive that recently (presignDownload, getStreamWithToken,        *)
(* preview): whatever outlives a reclassification, no URL and no stream     *)
(* keeps the service out for longer than a grant and a URL live.            *)
THEOREM DeliveredThroughWatermark == Spec => []WatermarkAsked
BY AccessSafe, PTL

-----------------------------------------------------------------------------
(***************************************************************************)
(* How often a link is opened.  A redemption that begins sees a count      *)
(* below the cap, while at most the other slots are redeeming; one that    *)
(* ends moves from the slots to the count.                                 *)
(***************************************************************************)
Redeeming == {s \in Slots : call[s].pc = "redeeming"}

LEMMA RedeemingCount ==
    ASSUME DocumentAccessAssumption
    PROVE  /\ IsFiniteSet(Redeeming) /\ Cardinality(Redeeming) \in Nat
           /\ Cardinality(Slots) \in Nat /\ Cardinality(Redeeming) <= Cardinality(Slots)
<1>1. IsFiniteSet(Slots) /\ Redeeming \subseteq Slots
  BY DEF DocumentAccessAssumption, Redeeming
<1> QED BY <1>1, FS_Subset, FS_CardinalityType

LEMMA CapType ==
    ASSUME DocumentAccessAssumption, AccessType, link # NoLink, link.cap # NoCap
    PROVE  link.cap \in Nat \ {0} /\ link.count \in Nat
<1>1. link \in Links
  BY DEF AccessType
<1> QED BY <1>1 DEF Links, DocumentAccessAssumption

(* Who is redeeming, and the link, after a step. *)
LEMMA RedeemSteps ==
    ASSUME DocumentAccessAssumption, AccessInv, [Next]_vars
    PROVE  \/ /\ Redeeming' = Redeeming
              /\ \/ link' = link
                 \/ RevokeLink
                 \/ link = NoLink /\ link'.count = 0
           \/ link' = link /\ Active(link)
           \/ \E s \in Redeeming : Redeeming' = Redeeming \ {s} /\ link' = [link EXCEPT !.count = @ + 1]
<1> DEFINE Goal == \/ /\ Redeeming' = Redeeming
                      /\ \/ link' = link
                         \/ RevokeLink
                         \/ link = NoLink /\ link'.count = 0
                   \/ link' = link /\ Active(link)
                   \/ \E s \in Redeeming : Redeeming' = Redeeming \ {s} /\ link' = [link EXCEPT !.count = @ + 1]
<1>0. call \in [Slots -> CallTypes]
  BY DEF AccessInv, AccessType
<1>1. ASSUME NEW s \in Slots, NEW c, Calls(s, c), c.pc # "redeeming", call[s].pc # "redeeming"
      PROVE  Redeeming' = Redeeming
  BY <1>0, <1>1 DEF Calls, Redeeming
<1>2. UNCHANGED <<link, call>> => Goal
  BY DEF Redeeming
<1>3. ASSUME HandOut PROVE Goal
  <2>1. ASSUME NEW s \in Slots, ServePreview(s) PROVE Goal
    <3>1. idle.pc # "redeeming"
      BY DEF idle
    <3> QED BY <1>1, <2>1, <3>1 DEF ServePreview
  <2> QED BY <1>2, <1>3, <2>1 DEF HandOut, Stream, FetchUrl
<1>4. ASSUME Share PROVE Goal
  <2>1. Redeeming' = Redeeming
    BY <1>4, ShareType DEF Redeeming, AccessInv
  <2> QED BY <1>4, <2>1 DEF Share, CreateLink, Relinks
<1>5. ASSUME NEW s \in Slots, Request(s) PROVE Goal
  <2>1. ASSUME NEW u \in Readers, RequestRedeem(s, u) PROVE Goal
    BY <2>1 DEF RequestRedeem
  <2>2. ASSUME NEW u \in Readers, NEW kind \in Kinds, NEW withLink \in BOOLEAN,
               ReadDocument(s, u, kind, withLink)
        PROVE  Goal
    <3>1. PICK c : Calls(s, c) /\ c.pc = "reading" /\ call[s] = idle /\ link' = link
      <4>1. PICK passing, c :
               /\ c = [pc |-> "reading", user |-> u, kind |-> kind, level |-> doc.level,
                       withLink |-> withLink, passing |-> passing]
               /\ Calls(s, c)
        BY <2>2 DEF ReadDocument
      <4>2. c.pc = "reading"
        BY <4>1
      <4> QED BY <2>2, <4>1, <4>2 DEF ReadDocument
    <3>2. c.pc # "redeeming" /\ call[s].pc # "redeeming"
      BY <3>1 DEF idle
    <3> QED BY <1>1, <3>1, <3>2
  <2> QED BY <1>5, <2>1, <2>2 DEF Request
<1>6. ASSUME NEW s \in Slots, Serve(s) PROVE Goal
  <2>1. idle.pc # "redeeming"
    BY DEF idle
  <2>2. CASE CountRedeem(s)
    <3>1. call' = [call EXCEPT ![s] = idle] /\ call[s].pc = "redeeming"
      BY <2>2 DEF CountRedeem, Calls
    <3>2. s \in Redeeming /\ Redeeming' = Redeeming \ {s}
      BY <1>0, <2>1, <3>1 DEF Redeeming
    <3> QED BY <2>2, <3>2 DEF CountRedeem
  <2>3. CASE Refuse(s) \/ GrantDownload(s)
    BY <1>1, <2>1, <2>3 DEF Refuse, GrantDownload
  <2>4. CASE GrantPreview(s)
    <3>1. PICK c : Calls(s, c) /\ c.pc = "previewing"
      BY <2>4 DEF GrantPreview
    <3> QED BY <1>1, <2>4, <3>1 DEF GrantPreview
  <2> QED BY <1>6, <2>2, <2>3, <2>4 DEF Serve
<1>7. ASSUME ChangeDocument \/ Tick \/ \E g \in grants : Presign(g) PROVE Goal
  BY <1>2, <1>7 DEF ChangeDocument, Tick, Presign
<1>8. ASSUME UNCHANGED vars PROVE Goal
  BY <1>2, <1>8 DEF vars
<1> QED BY <1>3, <1>4, <1>5, <1>6, <1>7, <1>8 DEF Next, Other

LEMMA OpensStep ==
    ASSUME DocumentAccessAssumption, AccessInv, AccessType', OpensBounded, [Next]_vars
    PROVE  OpensBounded'
<1> SUFFICES ASSUME link' # NoLink, link'.cap # NoCap
             PROVE  link'.count + Cardinality(Redeeming') <= link'.cap + Cardinality(Slots) - 1
  BY DEF OpensBounded, Redeeming
<1>0. AccessType
  BY DEF AccessInv
<1>1. link'.cap \in Nat \ {0} /\ link'.count \in Nat
  <2>1. link' \in Links
    BY DEF AccessType
  <2> QED BY <2>1 DEF Links, DocumentAccessAssumption
<1>2. /\ IsFiniteSet(Redeeming) /\ Cardinality(Redeeming) \in Nat
      /\ Cardinality(Slots) \in Nat /\ Cardinality(Redeeming) <= Cardinality(Slots)
  BY RedeemingCount
<1>3. Cardinality(Redeeming') \in Nat /\ Cardinality(Redeeming') <= Cardinality(Slots)
  <2>1. IsFiniteSet(Slots) /\ Redeeming' \subseteq Slots
    BY DEF DocumentAccessAssumption, Redeeming
  <2> QED BY <2>1, FS_Subset, FS_CardinalityType
<1>4. link # NoLink /\ link.cap # NoCap =>
        link.count + Cardinality(Redeeming) <= link.cap + Cardinality(Slots) - 1
  BY DEF OpensBounded, Redeeming
<1>5. CASE Redeeming' = Redeeming /\ link' = link
  BY <1>4, <1>5
<1>6. CASE Redeeming' = Redeeming /\ RevokeLink
  <2>1. link \in Links /\ link' = [link EXCEPT !.revoked = TRUE] /\ link # NoLink
    BY <1>0, <1>6 DEF AccessType, RevokeLink, Relinks
  <2>2. link'.cap = link.cap /\ link'.count = link.count
    BY <2>1 DEF Links
  <2> QED BY <1>4, <1>6, <2>1, <2>2
<1>7. CASE link'.count = 0
  BY <1>1, <1>2, <1>3, <1>7
<1>8. CASE link' = link /\ Active(link)
  BY <1>1, <1>2, <1>3, <1>8 DEF Active
<1>9. CASE \E s \in Redeeming : Redeeming' = Redeeming \ {s} /\ link' = [link EXCEPT !.count = @ + 1]
  <2>1. PICK s \in Redeeming : Redeeming' = Redeeming \ {s} /\ link' = [link EXCEPT !.count = @ + 1]
    BY <1>9
  <2>2. link # NoLink
    BY <2>1 DEF Redeeming, AccessInv, Decides
  <2>3. link \in Links
    BY <1>0, <2>2 DEF AccessType
  <2>4. link'.cap = link.cap /\ link'.count = link.count + 1 /\ link.count \in Nat
    BY <2>1, <2>3 DEF Links
  <2>5. Cardinality(Redeeming') = Cardinality(Redeeming) - 1
    <3>1. Cardinality(Redeeming \ {s}) = Cardinality(Redeeming) - 1
      BY <1>2, FS_RemoveElement
    <3> QED BY <2>1, <3>1
  <2> QED BY <1>1, <1>2, <1>3, <1>4, <2>2, <2>4, <2>5
<1> QED BY <1>5, <1>6, <1>7, <1>8, <1>9, RedeemSteps

(* A share link is opened no more often than its cap and once more for each *)
(* redemption that overlapped with the last one, for any number of slots    *)
(* (redeem).                                                                *)
THEOREM OpensCapped == Spec => []OpensBounded
<1> DEFINE Inv == AccessInv /\ OpensBounded
<1>1. Init => Inv
  BY DocumentAccessAssumption, InvStart DEF Init, OpensBounded
<1>2. Inv /\ [Next]_vars => Inv'
  <2> SUFFICES ASSUME Inv, [Next]_vars PROVE Inv'
    OBVIOUS
  <2>1. AccessInv'
    BY DocumentAccessAssumption, InvStep
  <2> QED BY <2>1, DocumentAccessAssumption, OpensStep DEF AccessInv
<1> QED BY <1>1, <1>2, PTL DEF Spec
=============================================================================
