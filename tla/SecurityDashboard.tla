-------------------------- MODULE SecurityDashboard --------------------------
(***************************************************************************)
(* What the web makes of a security summary: the alerts and the posture,   *)
(* how an alert or a recommendation is routed, the rows of the queue with  *)
(* their deadlines, which steps of the workflow the controls of a row      *)
(* offer, and the evidence bundle with the narrative of a case.            *)
(*                                                                         *)
(* A summary is [chain, totals, denying, risky, signals, recs], where       *)
(* a recommendation has its workflow.  `downloads` and `sensitive` are the  *)
(* events the page fetched beside it.  `retention` is the retention page's. *)
(***************************************************************************)
EXTENDS SecurityAnalysis

CONSTANTS Sla,          \* by severity: 24, 72 and 168 hours
          DueSoon,      \* 24 hours
          ManyDownloads \* 10

ASSUME DashboardAssumption ==
    /\ Sla \in [{"critical", "warning", "info"} -> Nat \ {0}]
    /\ DueSoon \in Nat /\ ManyDownloads \in Nat \ {0}

-----------------------------------------------------------------------------
(* Routing: what a finding scores, and where that leads. *)
Score(impact, confidence, actionability, exposure, evidence) ==
    [impact |-> impact, confidence |-> confidence, actionability |-> actionability,
     exposure |-> exposure, evidence |-> evidence,
     total |-> impact + confidence + actionability + exposure + evidence]

Route(s) ==
    IF s.impact >= 3 /\ s.confidence >= 2 /\ s.actionability >= 2 /\ s.exposure >= 2 /\ s.evidence >= 3
      THEN "CASE"
    ELSE IF s.total >= 8 \/ s.impact >= 2 \/ s.actionability >= 2 THEN "REVIEW"
    ELSE "SIGNAL"

ActorKinds == {"MASS", "BURST", "DESTRUCTIVE", "deny"}

(* Mutant: the score of an actor does not rise with the severity. *)
FlatScore(r) == Score(2, 2, 2, 3, 2)

ActorScore(r) ==
    IF r.severity = "critical" THEN Score(3, 2, 2, 3, 3) ELSE Score(2, 2, 2, 3, 2)

RecScore(r) ==
    CASE r.id.kind = "chain" -> Score(3, 3, 3, 3, 3)
      [] r.id.kind = "document" ->
           IF r.severity = "critical" THEN Score(3, 3, 3, 3, 3) ELSE Score(2, 3, 3, 3, 2)
      [] r.id.kind \in ActorKinds -> ActorScore(r)
      [] r.id.kind = "dlp" -> Score(2, 2, 2, 1, 2)
      [] r.id.kind = "malware" -> Score(2, 3, 2, 1, 2)

RecRoute(r) == Route(RecScore(r))

-----------------------------------------------------------------------------
(* Alerts and posture.  The bands of the web are its own copy of the service's. *)
Band(score) == IF score >= 80 THEN "critical" ELSE IF score >= 50 THEN "warning" ELSE "watch"

Bands(entries) == {Band(entries[i].score) : i \in DOMAIN entries}

AlertScore(kind) ==
    CASE kind = "chain" -> Score(3, 3, 3, 3, 3)
      [] kind = "epoch" -> Score(2, 3, 2, 2, 3)
      [] kind = "malware" -> Score(2, 3, 2, 1, 2)
      [] kind = "dlp" -> Score(2, 2, 2, 1, 2)
      [] kind \in {"deny", "sensitive", "risk", "behavior"} -> Score(2, 2, 2, 2, 2)
      [] kind = "downloads" -> Score(1, 2, 1, 1, 1)
      [] kind = "critical behavior" -> Score(3, 2, 2, 3, 3)

Severe == {"chain", "critical behavior"}

AlertKinds(summary, downloads, sensitive) ==
    LET raised(test, kind) == IF test THEN {kind} ELSE {}
    IN raised(summary.chain = "invalid", "chain")
       \cup raised(summary.chain = "compromised", "epoch")
       \cup raised(summary.totals.malwareBlocked # {}, "malware")
       \cup raised(summary.totals.dlpDetections # {}, "dlp")
       \cup raised(summary.denying # <<>>, "deny")
       \cup raised(downloads >= ManyDownloads, "downloads")
       \cup raised(sensitive > 0, "sensitive")
       \cup raised("critical" \in Bands(summary.risky), "risk")
       \cup raised(summary.signals # <<>>,
              IF "critical" \in Bands(summary.signals) THEN "critical behavior" ELSE "behavior")

Alerts(summary, downloads, sensitive) ==
    {[kind |-> k, severity |-> IF k \in Severe THEN "critical" ELSE "warning",
      route |-> Route(AlertScore(k))] : k \in AlertKinds(summary, downloads, sensitive)}

Posture(alerts) ==
    IF \E a \in alerts : a.severity = "critical" THEN "critical"
    ELSE IF alerts # {} THEN "warning" ELSE "healthy"

-----------------------------------------------------------------------------
(* Rows of the queue, by route and then by severity, as the service ordered   *)
(* them where these are equal.                                                *)
Rank(x) ==
    CASE x = "CASE" -> 3 [] x = "REVIEW" -> 2 [] x = "SIGNAL" -> 1
      [] x = "critical" -> 3 [] x = "warning" -> 2 [] x = "info" -> 1

Above(recs, i, j) ==
    LET route(k) == Rank(RecRoute(recs[k]))
        severity(k) == Rank(recs[k].severity)
    IN \/ route(i) > route(j)
       \/ route(i) = route(j) /\ severity(i) > severity(j)
       \/ route(i) = route(j) /\ severity(i) = severity(j) /\ i < j

Rows(summary) ==
    LET places == DOMAIN summary.recs
        order == Ranked(places, {p \in places \X places : Above(summary.recs, p[1], p[2])})
    IN [i \in DOMAIN order |-> summary.recs[order[i]]]

DueAt(r) == r.workflow.at + Sla[r.severity]

SlaState(r, now) ==
    IF r.workflow.status = "RESOLVED" THEN "closed"
    ELSE IF r.workflow.id = 0 THEN "not-started"
    ELSE IF DueAt(r) <= now THEN "overdue"
    ELSE IF DueAt(r) - now <= DueSoon THEN "due-soon"
    ELSE "on-track"

(* The steps the controls of a row offer, as [status, note].  A case is        *)
(* started from OPEN, reviewed with an investigation note and resolved with a  *)
(* complete draft; the note says what is in the draft, "case" when that is     *)
(* all of it.  A light review moves freely.                                    *)
Notes == {"", "text", "draft", "case"}

Drafts == [investigation : BOOLEAN, decision : {"none", "REMEDIATED", "ACCEPTED_RISK"},
           resolution : BOOLEAN, verified : BOOLEAN]

Missing(draft) ==
    (IF draft.investigation THEN {} ELSE {"investigation"})
      \cup (IF draft.decision # "none" THEN {} ELSE {"decision"})
      \cup (IF draft.resolution THEN {} ELSE {"evidence"})
      \cup (IF draft.verified THEN {} ELSE {"verification"})

CaseNote(draft) == IF Missing(draft) = {} THEN "case" ELSE "draft"

CaseSteps(r) ==
    IF r.workflow.status = "RESOLVED" THEN {}
    ELSE {[status |-> "REVIEWED", note |-> CaseNote(d)] : d \in {x \in Drafts : x.investigation}}
         \cup {[status |-> "RESOLVED", note |-> CaseNote(d)] : d \in {x \in Drafts : Missing(x) = {}}}
         \cup (IF r.workflow.status = "OPEN"
                 THEN {[status |-> "INVESTIGATING", note |-> "text"]} ELSE {})

LightSteps(r) ==
    {s \in [status : Statuses, note : {"", "text", r.workflow.note}] :
        s.status # r.workflow.status \/ s.note # r.workflow.note}

Steps(r) == IF RecRoute(r) = "CASE" THEN CaseSteps(r) ELSE LightSteps(r)

-----------------------------------------------------------------------------
(* The evidence center.  A selection outlives the summary it was made from.   *)
IdsOf(recs) == {recs[i].id : i \in DOMAIN recs}

(* buildEvidenceSourceCards and their score *)
Cards(summary, retention) ==
    [chain |-> IF summary.chain = "invalid" THEN "attention" ELSE "ready",
     recommendations |-> IF summary.recs # <<>> THEN "attention" ELSE "empty",
     retention |-> IF retention.dueSoon > 0 \/ retention.overdue > 0 THEN "attention"
                   ELSE IF retention.docs # {} THEN "ready" ELSE "empty",
     documents |-> IF retention.docs # {} THEN "ready" ELSE "empty"]

StateScore == [ready |-> 100, attention |-> 50, empty |-> 0]

(* The gauge of the evidence center, which is green from 80. *)
Readiness(summary, retention) ==
    LET cards == Cards(summary, retention)
    IN (StateScore[cards.chain] + StateScore[cards.recommendations]
          + StateScore[cards.retention] + StateScore[cards.documents]) \div 4

Green(score) == score >= 80

(* buildEvidenceBundle *)
Bundle(rows, chain, retention, chosen, docs) ==
    [recs |-> Where(rows, LAMBDA r : r.id \in chosen),
     docs |-> docs \cap retention.docs,
     missing |-> (chosen \ IdsOf(rows)) \cup (docs \ retention.docs),
     chain |-> chain,
     retention |-> retention]

RetentionPosture(retention) ==
    IF retention.overdue > 0 THEN "blocked"
    ELSE IF retention.dueSoon > 0 \/ retention.docs = {} THEN "attention"
    ELSE "ready"

Warnings(bundle) ==
    (IF bundle.missing # {} THEN {"missing"} ELSE {})
      \cup (IF bundle.recs = <<>> THEN {"no recommendation"} ELSE {})
      \cup (IF bundle.docs = {} THEN {"no document"} ELSE {})

(* buildEvidenceCaseNarrative *)
Blockers(bundle) ==
    (IF bundle.chain = "invalid" THEN {"chain"} ELSE {})
      \cup (IF RetentionPosture(bundle.retention) = "blocked" THEN {"retention"} ELSE {})

CaseStatus(bundle) ==
    IF Blockers(bundle) # {} THEN "blocked"
    ELSE IF Warnings(bundle) # {} THEN "incomplete" ELSE "ready"
=============================================================================
