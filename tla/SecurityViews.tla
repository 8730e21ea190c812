---------------------------- MODULE SecurityViews ----------------------------
(***************************************************************************)
(* What the panels of the security page show of a summary, and where their  *)
(* links and alerts lead: the counters, the charts of the command center,   *)
(* the rows of the lists, the queue of recommendations with the detail of   *)
(* the selected one, its playbook and its history.                          *)
(*                                                                          *)
(* A figure is a number on the page: the events it counts and the link it   *)
(* carries.  A link is a filter of the audit page, with the list parameter  *)
(* it puts into the URL beside it, if it puts one there.                    *)
(***************************************************************************)
EXTENDS SecurityDashboard

CONSTANTS FewRows,      \* rows a supporting list shows at first: 4
          FewEvents,    \* grants the access panel shows at first: 5
          FewRecs,      \* recommendations the queue shows at first: 6
          RecentSize,   \* events of the recent panel, and refusals asked for: 6
          RecentDlp,    \* detections asked for: 3
          PageSize      \* events of a page of the audit query: 100

ASSUME ViewsAssumption ==
    {FewRows, FewEvents, FewRecs, RecentSize, RecentDlp, PageSize} \subseteq Nat \ {0}

-----------------------------------------------------------------------------
(* Links.  buildAuditHref leaves an empty list out; a list that is there is a *)
(* parameter the query's DTO does not know, and the request is refused.       *)
Link(filter, list, values) ==
    [filter |-> filter, list |-> IF values = {} THEN "none" ELSE list]

To(filter) == Link(filter, "none", {})

Opens(link, log) == IF link.list = "none" THEN Answers(link.filter, log) ELSE {}

OfKinds(kinds) == [AnyEvent EXCEPT !.kinds = kinds]

Figure(counted, link) == [counted |-> counted, link |-> link]

-----------------------------------------------------------------------------
(* Figures.  `totals` are the service's counters, as the events they count.   *)
MetricLink(key) ==
    CASE key = "deniedEvents" -> To(OfKinds(DeniedResults))
      [] key = "downloadDenied" -> To(OfKinds(DownloadDenied))
      [] key = "malwareBlocked" -> To(OfKinds({"malware"}))
      [] key = "dlpDetections" -> To(OfKinds({"dlp"}))

Metrics(totals) == {Figure(totals[key], MetricLink(key)) : key \in DOMAIN totals}

(* Drawn by the audit page. *)
EventSegments(totals) ==
    {Figure(totals.deniedEvents, To(OfKinds(DeniedResults))),
     Figure(totals.downloadDenied, To(OfKinds(DownloadDenied))),
     Figure(totals.malwareBlocked, To(OfKinds({"malware"}))),
     Figure(totals.dlpDetections, To(OfKinds({"dlp"})))}

RiskFigures(risky) ==
    {Figure(risky[i].counted, To([AnyEvent EXCEPT !.doc = risky[i].doc])) : i \in DOMAIN risky}

(* The web's own getBehaviorSignalAuditFilters. *)
RowFilter(s) ==
    [kinds |-> CASE s.type = "MASS" -> Authorized
                 [] s.type = "DESTRUCTIVE" -> Destructive
                 [] OTHER -> DeniedResults,
     actor |-> s.actor, doc |-> "any", from |-> s.span.from, to |-> s.span.to]

SignalFigures(signals) ==
    {Figure(signals[i].counted, To(RowFilter(signals[i]))) :
        i \in {j \in DOMAIN signals : signals[j].type # "BURST"}}

Figures(summary) ==
    Metrics(summary.totals) \cup EventSegments(summary.totals)
      \cup RiskFigures(summary.risky) \cup SignalFigures(summary.signals)

-----------------------------------------------------------------------------
(* Charts. *)
BandNames == {"critical", "warning", "watch"}

InBand(entries, band) == Where(entries, LAMBDA x : Band(x.score) = band)

RiskBands(risky) ==
    [band \in BandNames |->
        LET docs == {r.doc : r \in Seqs!ToSet(InBand(risky, band))}
        IN [value |-> Len(InBand(risky, band)), link |-> Link(AnyEvent, "documentIds", docs)]]

(* A result or an action group is asked for only when it is the only one.     *)
BandFilter(rows) ==
    LET types == {r.type : r \in rows}
        groups == types \ {"BURST"}
    IN IF rows = {} THEN AnyEvent
       ELSE [kinds |-> (IF "BURST" \in types THEN DeniedResults ELSE Kinds)
                         \cap (IF groups = {"MASS"} THEN Authorized
                               ELSE IF groups = {"DESTRUCTIVE"} THEN Destructive ELSE Kinds),
             actor |-> "any", doc |-> "any",
             from |-> CHOOSE t \in {r.span.from : r \in rows} : \A r \in rows : t <= r.span.from,
             to |-> CHOOSE t \in {r.span.to : r \in rows} : \A r \in rows : t >= r.span.to]

AnomalyBands(signals) ==
    [band \in BandNames |->
        LET rows == Seqs!ToSet(InBand(signals, band))
        IN [value |-> Len(InBand(signals, band)),
            link |-> Link(BandFilter(rows), "actorIds", {r.actor : r \in rows})]]

SlaStates == {"overdue", "due-soon", "on-track", "not-started", "closed"}

SlaSegments(rows, now) ==
    [state \in SlaStates |->
        LET ids == {r.id : r \in {x \in Seqs!ToSet(rows) : SlaState(x, now) = state}}
        IN [value |-> Cardinality(ids), link |-> Link(AnyEvent, "recommendationIds", ids)]]

AlertSegments(alerts) ==
    [severity \in {"critical", "warning", "info"} |->
        Cardinality({a \in alerts : a.severity = severity})]

AccessSegments(downloads, sensitive) ==
    {[value |-> downloads, link |-> To(OfKinds({"download"}))],
     [value |-> sensitive, link |-> Link(OfKinds(Authorized), "classifications", {"SECRET", "CONFIDENTIAL"})]}

(* The gauge of the posture. *)
Gauge(level, alerts) ==
    LET of == AlertSegments(alerts)
        raw == 100 - 25 * of["critical"] - 8 * of["warning"] - 3 * of["info"]
        cap == CASE level = "critical" -> 65 [] level = "warning" -> 84 [] level = "healthy" -> 100
    IN Most(0, Least(cap, raw))

RouteCounts(alerts, rows) ==
    [route \in {"CASE", "REVIEW", "SIGNAL"} |->
        Cardinality({a \in alerts : a.route = route}) + Len(Where(rows, LAMBDA r : RecRoute(r) = route))]

CommandCenter(summary, now, downloads, sensitive) ==
    LET alerts == Alerts(summary, downloads, sensitive)
    IN [gauge |-> Gauge(Posture(alerts), alerts),
        alerts |-> AlertSegments(alerts),
        risk |-> RiskBands(summary.risky),
        anomalies |-> AnomalyBands(summary.signals),
        sla |-> SlaSegments(Rows(summary), now),
        access |-> AccessSegments(downloads, sensitive),
        routes |-> RouteCounts(alerts, Rows(summary))]

-----------------------------------------------------------------------------
(* Lists.  What a panel shows before "show more" is used.                     *)
FirstOf(rows, n) == SubSeq(rows, 1, Least(n, Len(rows)))

NewestFirst(events) == Ranked(events, {p \in events \X events : Newer(p[1], p[2])})

IsSensitive(e) == e.kind \in Authorized /\ e.level \in {"SECRET", "CONFIDENTIAL"}

(* The grants of the two windows, the downloads first. *)
SensitiveGrants(log) ==
    LET window(kind) == Where(NewestFirst(OfKind(Events(log), {kind})), IsSensitive)
    IN window("download") \o window("preview")

RecentEvents(log) ==
    NewestFirst(Newest(Newest(OfKind(Events(log), DeniedResults), RecentSize)
                         \cup Newest(OfKind(Events(log), {"dlp"}), RecentDlp), RecentSize))

AccessPanel(log) == FirstOf(SensitiveGrants(log), FewEvents)
ActorsPanel(summary) == FirstOf(summary.denying, FewRows)
RiskPanel(summary) == FirstOf(summary.risky, FewRows)
AnomalyPanel(summary) == FirstOf(summary.signals, FewRows)
PosturePanel(summary) == summary.chain

(* Whether the panel an alert leads to shows what the alert is about, the     *)
(* page's own queries having seen `log`.                                      *)
Leads(kind, summary, log) ==
    CASE kind \in {"chain", "epoch"} -> PosturePanel(summary) # "valid"
      [] kind = "malware" -> \E e \in Seqs!ToSet(RecentEvents(log)) : e.kind = "malware"
      [] kind = "dlp" -> \E e \in Seqs!ToSet(RecentEvents(log)) : e.kind = "dlp"
      [] kind = "deny" -> ActorsPanel(summary) # <<>>
      [] kind = "downloads" -> OfKind(Events(log), {"download"}) # {}
      [] kind = "sensitive" -> AccessPanel(log) # <<>>
      [] kind = "risk" -> \E r \in Seqs!ToSet(RiskPanel(summary)) : Band(r.score) = "critical"
      [] kind = "behavior" -> AnomalyPanel(summary) # <<>>
      [] kind = "critical behavior" -> \E r \in Seqs!ToSet(AnomalyPanel(summary)) : Band(r.score) = "critical"

-----------------------------------------------------------------------------
(* The queue of recommendations. *)
Views == {"active", "resolved", "all"}

QueueView(rows, view) ==
    CASE view = "all" -> rows
      [] view = "resolved" -> Where(rows, LAMBDA r : r.workflow.status = "RESOLVED")
      [] view = "active" -> Where(rows, LAMBDA r : r.workflow.status # "RESOLVED")

QueueCounts(rows) ==
    LET resolved == Len(Where(rows, LAMBDA r : r.workflow.status = "RESOLVED"))
    IN [active |-> Len(rows) - resolved, resolved |-> resolved, all |-> Len(rows)]

Listed(rows, view, all) ==
    IF all THEN QueueView(rows, view) ELSE FirstOf(QueueView(rows, view), FewRecs)

Hidden(rows, view) == Most(0, Len(QueueView(rows, view)) - FewRecs)

(* The detail of a selected row stays when the list is cut short and goes when *)
(* the row leaves the view; an officer can come to every row of every view.    *)
Details(rows, view) == Seqs!ToSet(QueueView(rows, view))

Reachable(rows) == UNION {Details(rows, view) : view \in Views}

PlaybookSteps(status) ==
    (IF status # "OPEN" THEN {"triage", "investigate"} ELSE {})
      \cup (IF status \in {"REVIEWED", "RESOLVED"} THEN {"review"} ELSE {})
      \cup (IF status = "RESOLVED" THEN {"resolve"} ELSE {})

(* The history of an expanded row: "nothing recorded" when none is kept.      *)
HistoryPanel(expanded, loading, kept) ==
    IF ~expanded THEN "closed" ELSE IF loading THEN "loading"
    ELSE IF kept = {} \/ \A h \in kept : h.ids = {} THEN "none recorded" ELSE "listed"
=============================================================================
