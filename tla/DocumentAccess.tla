--------------------------- MODULE DocumentAccess ---------------------------
(***************************************************************************)
(* How the content of one document reaches its readers.  A request is      *)
(* decided by metadata-service (AccessPolicy) on a document and a share    *)
(* link that it reads one after the other; a download leaves the reader    *)
(* with a signed grant, the grant can be turned into a presigned URL, and  *)
(* both are honoured by document-service without asking again until they   *)
(* expire.  Meanwhile the document, its access control list and the link   *)
(* change.                                                                 *)
(*                                                                         *)
(* A unit of time is short against the validity of a grant; calls are      *)
(* assumed to be shorter than it.  seen is a history variable: when the    *)
(* content was last permitted, and last not sensitive.                     *)
(***************************************************************************)
EXTENDS AccessPolicy, Integers

CONSTANTS
    Readers,               \* the users whose requests are followed
    Slots,                 \* calls that may be in progress
    GrantTime, UrlTime,    \* validity of a grant and of a URL (300 s each)
    LinkTime, Caps,        \* validity and access caps of share links
    NoCap, NoLink, Nothing,
    MaxTime, MaxLinks, MaxGrants, MaxUrls    \* bounds

(* The rows of document_share_links. *)
Links ==
    [permission: Shares \ {"NONE"}, expires: Nat, cap: Caps, count: Nat, revoked: BOOLEAN]

ASSUME DocumentAccessAssumption ==
    /\ Readers \subseteq Users
    /\ IsFiniteSet(Slots)
    /\ {GrantTime, UrlTime, LinkTime} \subseteq Nat \ {0}
    /\ Caps \subseteq (Nat \ {0}) \cup {NoCap}
    /\ NoCap \notin Nat
    /\ NoLink \notin Links
    /\ {MaxTime, MaxLinks, MaxGrants, MaxUrls} \subseteq Nat

VARIABLES
    link,       \* its share link
    call,       \* the requests in progress
    grants,     \* download grants, kept by their holders
    urls,       \* presigned URLs
    clock,
    delivery,   \* the content that the last step handed out, if any
    seen        \* history: see the properties

vars == <<doc, link, call, grants, urls, clock, delivery, seen>>

Kinds == {"DOWNLOAD", "PREVIEW"}

idle == [pc |-> "idle"]

(* Mutant: the cap is not looked at. *)
ActiveUncapped(l) ==
    /\ l # NoLink
    /\ ~l.revoked
    /\ l.expires > clock

(* resolveShareGrant and computeStatus: a link that may be used. *)
Active(l) ==
    /\ l # NoLink
    /\ ~l.revoked
    /\ l.expires > clock
    /\ l.cap = NoCap \/ l.count < l.cap

ShareGrant(l) == IF Active(l) THEN l.permission ELSE "NONE"

(* May u have the content in this way, with the link in hand? *)
MayHave(d, u, kind, share) ==
    \/ kind = "DOWNLOAD" /\ MayDownload(d, u, share)
    \/ kind = "PREVIEW" /\ MayPreview(d, u, share)

Permitted(u, kind) ==
    MayHave(doc, u, kind, "NONE") \/ MayHave(doc, u, kind, ShareGrant(link))

Init ==
    /\ Create
    /\ link = NoLink
    /\ call = [s \in Slots |-> idle]
    /\ grants = {}
    /\ urls = {}
    /\ clock = 0
    /\ delivery = Nothing
    /\ seen = [permitted |-> [u \in Readers |-> [k \in Kinds |-> IF Permitted(u, k) THEN 0 ELSE -1]],
               plain |-> IF doc.level \in Sensitive THEN -1 ELSE 0]
-----------------------------------------------------------------------------
(* Share links *)

Relinks(l) == link' = l /\ UNCHANGED <<doc, call, grants, urls, clock>>

CreateLink(permission, cap) ==
    /\ link = NoLink /\ MaxLinks > 0
    /\ Relinks([permission |-> permission, expires |-> clock + LinkTime, cap |-> cap,
                count |-> 0, revoked |-> FALSE])

RevokeLink ==
    /\ link # NoLink
    /\ ~link.revoked
    /\ Relinks([link EXCEPT !.revoked = TRUE])

Calls(s, c) == call' = [call EXCEPT ![s] = c]

(* redeem: the link is looked at ... *)
RequestRedeem(s, u) ==
    /\ call[s] = idle
    /\ HasRole(u, Roles \ {"compliance_officer"})
    /\ Active(link)
    /\ Calls(s, [pc |-> "redeeming", user |-> u])
    /\ UNCHANGED <<doc, link, grants, urls, clock>>

(* ... and, later, counted. *)
CountRedeem(s) ==
    /\ call[s].pc = "redeeming"
    /\ link' = [link EXCEPT !.count = @ + 1]
    /\ Calls(s, idle)
    /\ UNCHANGED <<doc, grants, urls, clock>>
-----------------------------------------------------------------------------
(* Content *)

(* metadata-service reads the document with its entries: what they give     *)
(* with the share links there might be ...                                  *)
ReadDocument(s, u, kind, withLink) ==
    /\ call[s] = idle
    /\ RolesOf[u] # {}
    /\ withLink => link # NoLink
    /\ LET shares == IF withLink THEN Shares ELSE {"NONE"} IN
       Calls(s, [pc |-> "reading", user |-> u, kind |-> kind, level |-> doc.level,
                 withLink |-> withLink,
                 passing |-> {share \in shares : MayHave(doc, u, kind, share)}])
    /\ UNCHANGED <<doc, link, grants, urls, clock>>

(* ... then the link, and decides. *)
Passes(c) == (IF c.withLink THEN ShareGrant(link) ELSE "NONE") \in c.passing

Refuse(s) ==
    /\ call[s].pc = "reading"
    /\ ~Passes(call[s])
    /\ Calls(s, idle)
    /\ UNCHANGED <<doc, link, grants, urls, clock>>

GrantDownload(s) ==
    /\ call[s].pc = "reading" /\ call[s].kind = "DOWNLOAD"
    /\ Passes(call[s])
    /\ Cardinality(grants) < MaxGrants
    /\ grants' = grants \cup {[user |-> call[s].user, level |-> call[s].level,
                               expires |-> clock + GrantTime]}
    /\ Calls(s, idle)
    /\ UNCHANGED <<doc, link, urls, clock>>

GrantPreview(s) ==
    /\ call[s].pc = "reading" /\ call[s].kind = "PREVIEW"
    /\ Passes(call[s])
    /\ Calls(s, [pc |-> "previewing", user |-> call[s].user, level |-> call[s].level])
    /\ UNCHANGED <<doc, link, grants, urls, clock>>

(* mark is "none" for what has not been through the watermark service. *)
Deliver(u, kind, mark) ==
    delivery' = [mark |-> mark, at |-> clock,
                 permitted |-> seen.permitted[u][kind], plain |-> seen.plain]

(* applyWatermark is asked for sensitive content only.  It stamps a PDF; it *)
(* returns the file as it is when neither its type nor its header says PDF, *)
(* or when the PDF cannot be processed.                                     *)
applyWatermark(level) == IF level \in Sensitive THEN {"stamped", "returned"} ELSE {"none"}

ServePreview(s) ==
    /\ call[s].pc = "previewing"
    /\ \E mark \in applyWatermark(call[s].level) : Deliver(call[s].user, "PREVIEW", mark)
    /\ Calls(s, idle)
    /\ UNCHANGED <<doc, link, grants, urls, clock>>

(* Mutant: nothing expires. *)
AlwaysValid(x) == x.expires >= 0

(* verifyGrantToken; S3 does the same for a URL. *)
Valid(x) == x.expires > clock

(* Mutant: whatever the classification. *)
PresignAny(g) ==
    /\ Valid(g)
    /\ Cardinality(urls) < MaxUrls
    /\ urls' = urls \cup {[user |-> g.user, expires |-> clock + UrlTime]}
    /\ UNCHANGED <<doc, link, call, grants, clock>>

(* Documents that must be watermarked have no URL. *)
Presign(g) ==
    /\ Valid(g)
    /\ g.level \notin Sensitive
    /\ Cardinality(urls) < MaxUrls
    /\ urls' = urls \cup {[user |-> g.user, expires |-> clock + UrlTime]}
    /\ UNCHANGED <<doc, link, call, grants, clock>>

FetchUrl(x) ==
    /\ Valid(x)
    /\ Deliver(x.user, "DOWNLOAD", "none")
    /\ UNCHANGED <<doc, link, call, grants, urls, clock>>

Stream(g) ==
    /\ Valid(g)
    /\ \E mark \in applyWatermark(g.level) : Deliver(g.user, "DOWNLOAD", mark)
    /\ UNCHANGED <<doc, link, call, grants, urls, clock>>

(* What has expired nobody honours: it is forgotten. *)
Tick ==
    /\ clock < MaxTime
    /\ \A s \in Slots : call[s] = idle
    /\ clock' = clock + 1
    /\ grants' = {g \in grants : Valid(g)'}
    /\ urls' = {x \in urls : Valid(x)'}
    /\ UNCHANGED <<doc, link, call>>
-----------------------------------------------------------------------------
Share ==
    \/ \E permission \in Shares \ {"NONE"}, cap \in Caps : CreateLink(permission, cap)
    \/ RevokeLink

Request(s) ==
    \E u \in Readers :
        \/ RequestRedeem(s, u)
        \/ \E kind \in Kinds, withLink \in BOOLEAN : ReadDocument(s, u, kind, withLink)

Serve(s) == CountRedeem(s) \/ Refuse(s) \/ GrantDownload(s) \/ GrantPreview(s)

ChangeDocument == Manage /\ UNCHANGED <<link, call, grants, urls, clock>>

HandOut ==
    \/ \E g \in grants : Stream(g)
    \/ \E x \in urls : FetchUrl(x)
    \/ \E s \in Slots : ServePreview(s)

Other ==
    \/ ChangeDocument
    \/ Share
    \/ \E s \in Slots : Request(s) \/ Serve(s)
    \/ \E g \in grants : Presign(g)
    \/ Tick

(* The history is brought up to date with the state that is reached. *)
Observe ==
    seen' = [permitted |-> [u \in Readers |-> [k \in Kinds |->
                                IF Permitted(u, k)' THEN clock' ELSE seen.permitted[u][k]]],
             plain |-> IF doc'.level \in Sensitive THEN seen.plain ELSE clock']

Next == (HandOut \/ (Other /\ delivery' = Nothing)) /\ Observe

Spec == Init /\ [][Next]_vars
-----------------------------------------------------------------------------
(* Properties *)

(* A decision may be as old as a grant and a URL together live; each of them  *)
(* is honoured only before the unit in which it expires begins, hence the 2.  *)
Recent(at) == at >= 0 /\ delivery.at - at <= GrantTime + UrlTime - 2

(* What is handed out was permitted to its recipient, in this way, within the *)
(* lifetimes of a grant and a URL - whatever has happened to the document,    *)
(* its entries and the link meanwhile.                                        *)
FreshDelivery == delivery # Nothing => Recent(delivery.permitted)

(* Content goes out around the watermark service only if the document was not *)
(* sensitive that long ago.                                                   *)
WatermarkAsked == delivery # Nothing /\ delivery.mark = "none" => Recent(delivery.plain)

(* A link is opened at most as often as its cap says, and once more for each *)
(* redemption that was in progress with the last one.                        *)
OpensBounded ==
    link # NoLink /\ link.cap # NoCap =>
        link.count + Cardinality({s \in Slots : call[s].pc = "redeeming"})
            <= link.cap + Cardinality(Slots) - 1

(* Does not hold: the redemption that reaches the cap uses the link up, and   *)
(* the link that was opened opens nothing.                                   *)
(* document-share-links.controller.ts:69 says of redeeming that "this grants *)
(* scoped access bypassing ACL for the linked document only".                *)
RedeemGivesAccess ==
    [][\A s \in Slots :
          call[s].pc = "redeeming" /\ call'[s] = idle
          /\ ~link'.revoked /\ link'.expires > clock' /\ doc'.status # "DELETED"
              => MayRead(doc', call[s].user, ShareGrant(link)')]_vars

(* Does not hold: what the watermark service cannot stamp it returns as it    *)
(* is (watermark.service.ts:29-51).  documents.service.ts:188 sends sensitive *)
(* documents "through the streaming path so the watermark can be applied".   *)
SensitiveStamped == delivery # Nothing /\ delivery.mark # "stamped" => Recent(delivery.plain)

(* Does not hold: the preview of a sensitive PDF is stamped, too, although    *)
(* documents.proxy.controller.ts:163 says that it "does not apply            *)
(* watermarks".                                                              *)
PreviewUnmarked ==
    [][\A s \in Slots : call[s].pc = "previewing" /\ call'[s] = idle
          => delivery'.mark # "stamped"]_vars

(* Does not hold: redemptions that overlap.  create-share-link.dto.ts:32     *)
(* calls the cap the maximum number of times the link can be opened.         *)
AccessCapped == link # NoLink /\ link.cap # NoCap => link.count <= link.cap
=============================================================================
