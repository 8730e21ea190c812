--------------------------- MODULE SecurityAnalysis ---------------------------
(***************************************************************************)
(* What audit-service reads out of its log for the security dashboard: the *)
(* counters, the actors with repeated refusals, the risky documents, the   *)
(* behavior signals and the recommendations built from them, each with the *)
(* filter of the audit page that is to show its evidence; and the workflow *)
(* of a recommendation, which is kept as events of the same log.           *)
(*                                                                         *)
(* Pure: a log is a sequence of events in the order they were appended,    *)
(* each with the time `at` its sender put on it, which may lie behind the  *)
(* time of the events before it.                                           *)
(***************************************************************************)
EXTENDS Integers, Sequences, FiniteSets

Seqs == INSTANCE SequencesExt

CONSTANTS Actors, Docs,
          Window,          \* how far back the lists look
          TopN,            \* entries of a list
          RiskySample,     \* events the risky documents are computed from
          SignalSample,    \* events the behavior signals are computed from
          MaxRecs,         \* recommendations of a summary
          HistoryLimit     \* entries of a workflow history

ASSUME AnalysisAssumption ==
    /\ {Window, TopN, RiskySample, SignalSample, MaxRecs, HistoryLimit} \subseteq Nat \ {0}
    /\ IsFiniteSet(Actors) /\ IsFiniteSet(Docs)
    /\ "nobody" \notin Actors /\ "none" \notin Docs

(* Kinds of events.  "failed" is DOCUMENT_DOWNLOAD_DENIED after a conflict or  *)
(* an error, "denied" a refusal of another action, "changed" an upload or an   *)
(* update.                                                                     *)
Authorized == {"download", "preview"}
Destructive == {"aclDeleted", "archived"}
DeniedResults == {"refused", "unreadable", "denied", "malware"}
DownloadDenied == {"refused", "failed"}
Behavior == Authorized \cup Destructive \cup {"refused", "failed", "unreadable", "changed"}
Kinds == Behavior \cup DeniedResults \cup {"dlp", "viewed", "status"}

Levels == {"SECRET", "CONFIDENTIAL", "INTERNAL", "PUBLIC", "UNKNOWN"}
Weight(level) ==
    CASE level = "SECRET" -> 45
      [] level = "CONFIDENTIAL" -> 30
      [] level = "INTERNAL" -> 10
      [] OTHER -> 0

Statuses == {"OPEN", "INVESTIGATING", "REVIEWED", "RESOLVED"}

Least(a, b) == IF a < b THEN a ELSE b
Most(a, b) == IF a > b THEN a ELSE b
Latest(events) == CHOOSE t \in {e.at : e \in events} : \A e \in events : e.at <= t
Earliest(events) == CHOOSE t \in {e.at : e \in events} : \A e \in events : e.at >= t

(* A set as a list, in the order of the pairs `before`; and the rows of a list *)
(* that are in a set, or pass a test.                                          *)
Ranked(S, before) ==
    [k \in 1..Cardinality(S) |-> CHOOSE x \in S : Cardinality({y \in S : <<y, x>> \in before}) = k - 1]

Only(rows, S) ==
    LET places == {i \in DOMAIN rows : rows[i] \in S}
        order == Ranked(places, {p \in places \X places : p[1] < p[2]})
    IN [k \in DOMAIN order |-> rows[order[k]]]

Where(rows, Test(_)) == Only(rows, {r \in Seqs!ToSet(rows) : Test(r)})

(* The documents of the collection; `id` is the place in the log.              *)
Events(log) == {[log[i] EXCEPT !.id = i] : i \in DOMAIN log}
DocsOf(events) == {e.doc : e \in events} \ {"none"}
OfKind(events, kinds) == {e \in events : e.kind \in kinds}

(* sort({ timestamp: -1 }).limit(n); equal times in the order of the log.      *)
Newer(a, b) == a.at > b.at \/ (a.at = b.at /\ a.id < b.id)
Newest(events, n) == {e \in events : Cardinality({f \in events : Newer(f, e)}) < n}
Recent(events, now) == {e \in events : e.at >= now - Window}

-----------------------------------------------------------------------------
(* query: the filter of a request; a parameter may be left open.               *)
Open == -1
AnyEvent == [kinds |-> Kinds, actor |-> "any", doc |-> "any", from |-> 0, to |-> Open]

Answers(filter, log) ==
    {e \in Events(log) :
        /\ e.kind \in filter.kinds
        /\ filter.actor \in {"any", e.actor}
        /\ filter.doc \in {"any", e.doc}
        /\ filter.from <= e.at
        /\ filter.to = Open \/ e.at <= filter.to}

-----------------------------------------------------------------------------
(* The counters of a summary, as the events each counts. *)
Totals(log) ==
    LET counted(kinds) == {e.id : e \in OfKind(Events(log), kinds)}
    IN [deniedEvents |-> counted(DeniedResults), downloadDenied |-> counted(DownloadDenied),
        malwareBlocked |-> counted({"malware"}), dlpDetections |-> counted({"dlp"})]

(* getRepeatedDenyActors: every refusal counts, whatever was refused; equal    *)
(* counts stay in the order in which the database has the actors.              *)
Denies(log, now, a) ==
    {e \in Recent(OfKind(Events(log), DeniedResults), now) : e.actor = a}

DenyActors(log, now) ==
    LET counts == [a \in Actors |-> Cardinality(Denies(log, now, a))]
        many == {a \in Actors : counts[a] >= 3}
        found == Seqs!SetToSeq(many)
        places == DOMAIN found
        order == Ranked(places,
                        {p \in places \X places :
                            \/ counts[found[p[1]]] > counts[found[p[2]]]
                            \/ counts[found[p[1]]] = counts[found[p[2]]] /\ p[1] < p[2]})
    IN [k \in 1..Least(TopN, Len(order)) |-> found[order[k]]]

-----------------------------------------------------------------------------
(* getRiskyDocuments and buildRiskyDocumentSummary. *)
DocRisk(events) ==
    LET weight == CHOOSE w \in {Weight(e.level) : e \in events} :
                      \A e \in events : Weight(e.level) <= w
        readers == Cardinality({e.actor : e \in events})
    IN Least(100, weight + Least(8 * Cardinality(events), 30)
                         + Least(10 * Most(readers - 1, 0), 20)
                         + Least(5 * Cardinality(OfKind(events, {"download"})), 15))

Before(x, y) ==
    \/ x.score > y.score
    \/ x.score = y.score /\ x.latest > y.latest
    \/ x.score = y.score /\ x.latest = y.latest /\ x.first < y.first

TopOf(entries) ==
    LET sorted == Ranked(entries, {p \in entries \X entries : Before(p[1], p[2])})
    IN SubSeq(sorted, 1, Least(TopN, Len(sorted)))

RiskyDocuments(log, now) ==
    LET sample == Newest(Recent(OfKind(Events(log), Authorized), now), RiskySample)
        summary(d) ==
          LET on == {e \in sample : e.doc = d}
          IN [doc |-> d, score |-> DocRisk(on), latest |-> Latest(on),
              counted |-> {e.id : e \in on},
              first |-> (CHOOSE e \in on : \A f \in on : ~Newer(f, e)).id]
    IN TopOf({s \in {summary(d) : d \in DocsOf(sample)} : s.score > 0})

-----------------------------------------------------------------------------
(* getBehaviorSignals and buildBehaviorSignals: one bucket per actor. *)
Denied(events) == OfKind(events, {"refused", "failed", "unreadable"})

MassRisk(content) ==
    LET n == Cardinality(content)
        sensitive == {e \in content : e.level \in {"SECRET", "CONFIDENTIAL"}}
    IN Least(100, 30 + Least(8 * n, 40) + Least(6 * Cardinality(DocsOf(content)), 30)
                     + Least(8 * Cardinality(sensitive), 24)
                     + Least(4 * Cardinality(OfKind(content, {"download"})), 12))

BurstRisk(denied) ==
    Least(100, 25 + 7 * Cardinality(denied) + 4 * Cardinality(DocsOf(denied)))

DestructiveRisk(acts) ==
    Least(100, 45 + 15 * Cardinality(acts) + 5 * Cardinality(DocsOf(acts)))

(* Mutant: the window of a bucket is not extended by later events. *)
WindowOfFirst(bucket) ==
    LET first == CHOOSE e \in bucket : \A f \in bucket : ~Newer(f, e)
    IN [from |-> first.at, to |-> first.at]

WindowOf(bucket) == [from |-> Earliest(bucket), to |-> Latest(bucket)]

SignalRank(type) == CASE type = "MASS" -> 0 [] type = "BURST" -> 1 [] type = "DESTRUCTIVE" -> 2

Signal(type, a, bucket, counted, score) ==
    [type |-> type, actor |-> a, counted |-> {e.id : e \in counted}, score |-> score,
     latest |-> WindowOf(bucket).to, span |-> WindowOf(bucket),
     first |-> 3 * (CHOOSE e \in bucket : \A f \in bucket : ~Newer(f, e)).id + SignalRank(type)]

SignalsOf(a, bucket) ==
    LET content == OfKind(bucket, Authorized)
        denied == Denied(bucket)
        acts == OfKind(bucket, Destructive)
    IN (IF Cardinality(content) >= 5
          THEN {Signal("MASS", a, bucket, content, MassRisk(content))} ELSE {})
       \cup (IF Cardinality(denied) >= 3
          THEN {Signal("BURST", a, bucket, denied, BurstRisk(denied))} ELSE {})
       \cup (IF Cardinality(acts) >= 2
          THEN {Signal("DESTRUCTIVE", a, bucket, acts, DestructiveRisk(acts))} ELSE {})

BehaviorSignals(log, now) ==
    LET sample == Newest(Recent(OfKind(Events(log), Behavior), now), SignalSample)
        bucket(a) == {e \in sample : e.actor = a}
    IN TopOf(UNION {SignalsOf(a, bucket(a)) : a \in {e.actor : e \in sample} \cap Actors})

Severity(score) == IF score >= 80 THEN "critical" ELSE IF score >= 50 THEN "warning" ELSE "info"

(* getBehaviorSignalAuditFilters: what the audit page is asked to show. *)
SignalFilter(s) ==
    [kinds |-> CASE s.type = "MASS" -> Authorized
                 [] s.type = "DESTRUCTIVE" -> Destructive
                 [] s.type = "BURST" -> DeniedResults,
     actor |-> s.actor, doc |-> "any", from |-> s.span.from, to |-> s.span.to]

-----------------------------------------------------------------------------
(* buildSecurityRecommendations.  A recommendation is known by what it is      *)
(* about: its kind and its subject.                                            *)
RecKinds == {"chain", "document", "MASS", "BURST", "DESTRUCTIVE", "deny", "dlp", "malware"}
RecIds == [kind : RecKinds, of : Actors \cup Docs \cup {"all"}]
Rec(kind, of, severity, counted, filter) ==
    [id |-> [kind |-> kind, of |-> of], severity |-> severity, counted |-> counted,
     filter |-> filter]

Elevated(entries) == Where(entries, LAMBDA x : x.score >= 50)

BurstActors(signals) ==
    {signals[i].actor : i \in {j \in DOMAIN signals : signals[j].type = "BURST" /\ signals[j].score >= 50}}

(* The counters are read at one moment of the log, the lists at another.       *)
Recommendations(chain, counted, listed, now) ==
    LET signals == BehaviorSignals(listed, now)
        risky == Elevated(RiskyDocuments(listed, now))
        denying == Only(DenyActors(listed, now), Actors \ BurstActors(signals))
        recChain == Rec("chain", "all", "critical", {}, AnyEvent)
        recDoc(d) == Rec("document", d.doc, Severity(d.score), {},
                         [AnyEvent EXCEPT !.doc = d.doc])
        recSignal(s) == Rec(s.type, s.actor, Severity(s.score), s.counted, SignalFilter(s))
        recDeny(a) == Rec("deny", a, "warning", {e.id : e \in Denies(listed, now, a)},
                          [AnyEvent EXCEPT !.actor = a])
        recOf(kind) ==
          LET hits == OfKind(Events(counted), {kind})
          IN IF hits = {} THEN <<>>
             ELSE <<Rec(kind, "all", "warning", {e.id : e \in hits}, [AnyEvent EXCEPT !.kinds = {kind}])>>
        all == (IF chain = "invalid" THEN <<recChain>> ELSE <<>>)
                 \o [i \in DOMAIN risky |-> recDoc(risky[i])]
                 \o LET high == Elevated(signals) IN [i \in DOMAIN high |-> recSignal(high[i])]
                 \o [i \in DOMAIN denying |-> recDeny(denying[i])]
                 \o recOf("dlp") \o recOf("malware")
    IN SubSeq(all, 1, Least(MaxRecs, Len(all)))

-----------------------------------------------------------------------------
(* The workflow of a recommendation.                                           *)
StatusEvents(log, id) == {e \in Events(log) : e.kind = "status" /\ e.rec = id}

(* sort({ timestamp: -1, _id: -1 }) *)
Supersedes(a, b) == a.at > b.at \/ (a.at = b.at /\ a.id > b.id)

(* getRecommendationWorkflowStates: the newest event, or OPEN. *)
NotStarted == [status |-> "OPEN", note |-> "", at |-> -1, id |-> 0, actor |-> "nobody"]
WorkflowState(log, id) ==
    LET events == StatusEvents(log, id)
    IN IF events = {} THEN NotStarted
       ELSE LET e == CHOOSE x \in events : \A y \in events \ {x} : Supersedes(x, y)
            IN [status |-> e.status, note |-> e.note, at |-> e.at, id |-> e.id, actor |-> e.actor]

(* getSecurityRecommendationWorkflowHistory *)
WorkflowHistory(log, id) ==
    LET events == StatusEvents(log, id)
    IN {e \in events : Cardinality({f \in events : Supersedes(f, e)}) < HistoryLimit}
=============================================================================
