--------------------------- MODULE SecurityCenter ---------------------------
(***************************************************************************)
(* Compliance officers at work: each has the security page and the         *)
(* evidence center in one browser, which share a cached summary; the       *)
(* summaries are computed by audit-service in several reads of a log that  *)
(* grows meanwhile, and record that they were looked at; the workflow of a *)
(* recommendation is saved as an event of the same log.                    *)
(*                                                                         *)
(* The log only grows, so what a read saw is the length the log had:       *)
(* `counted` for the counters, `listed` for the lists, `stated` for the    *)
(* workflows.  `req` holds the summary requests at the service, of which a *)
(* page waits for one and has given up the others.                         *)
(***************************************************************************)
EXTENDS EvidenceCenter

CONSTANTS Officers, Requests,
          Gap,         \* the 15 minutes within which a view is recorded once
          Lag,         \* how late an event may reach the log
          MaxPages,    \* pages of a window that is loaded: 100
          Scenarios    \* a log to start from, the events that may be added, and how much may happen

ASSUME CenterAssumption ==
    /\ Gap \in Nat /\ Lag \in Nat /\ MaxPages \in Nat \ {0}
    /\ Officers \cap Actors = {}
    /\ Requests \subseteq Nat \ {0} /\ Requests # {}

VARIABLES log, time, chain, req, page, packet, budget

securityVars == <<log, time, chain, req, page, packet, budget>>

NoRec == [kind |-> "chain", of |-> "none"]
NoRequest == [pc |-> "free", user |-> "nobody", counted |-> -1, listed |-> -1, now |-> 0,
              chain |-> "valid", stated |-> -1, at |-> 0]
NoSave == [pc |-> "idle", rec |-> NoRec, status |-> "OPEN", note |-> "", at |-> 0, id |-> 0,
           query |-> 0]
NoWindow == [pc |-> "idle", kind |-> "download", next |-> 1, asked |-> {}, got |-> {}, twice |-> {}]
NoLoad == [pc |-> "idle", rec |-> NoRec, stated |-> NotStarted, got |-> {}, use |-> "view"]

(* A page: the query it waits for, the summary it shows, the save under way,   *)
(* the last save that was answered, the histories it keeps and has open, the   *)
(* history and the window of grants it loads, and what is chosen for a case.   *)
EmptyPage == [query |-> 0, shown |-> {}, error |-> FALSE, verifying |-> FALSE,
              save |-> NoSave, saved |-> NoSave, kept |-> {}, open |-> {}, load |-> NoLoad,
              window |-> NoWindow, chosen |-> NothingChosen]

Spend(what) == budget[what] > 0 /\ budget' = [budget EXCEPT ![what] = @ - 1]

Entry(kind, actor, doc, level, at) ==
    [id |-> 0, kind |-> kind, actor |-> actor, doc |-> doc, level |-> level, at |-> at,
     rec |-> NoRec, status |-> "OPEN", note |-> ""]

(* What may be in the log at a time, and the scenarios.                        *)
EventsBy(t) ==
    [id : Nat, kind : Kinds, actor : Actors \cup Officers, doc : Docs \cup {"none"}, level : Levels,
     at : 0..t, rec : RecIds \cup {NoRec}, status : Statuses, note : Notes]

Budgets ==
    [activity : SUBSET EventsBy(Lag), officers : SUBSET Officers,
     steps : SUBSET [status : Statuses, note : Notes], events : Nat, ticks : Nat, breaks : Nat,
     queries : Nat, verifies : Nat, saves : Nat, loads : Nat, faults : Nat, windows : Nat, selects : Nat]

ASSUME ScenariosAssumption ==
    \A s \in Scenarios :
        s.log \in Seq(EventsBy(Lag)) /\ (\A i \in DOMAIN s.log : s.log[i].id = i) /\ s.budget \in Budgets

Append1(e) == log' = Append(log, [e EXCEPT !.id = Len(log) + 1])

-----------------------------------------------------------------------------
(* What a summary says. *)
RecsOf(s) ==
    LET recs == Recommendations(s.chain, SubSeq(log, 1, s.counted), SubSeq(log, 1, s.listed), s.now)
    IN [i \in DOMAIN recs |->
          [id |-> recs[i].id, severity |-> recs[i].severity, filter |-> recs[i].filter,
           counted |-> recs[i].counted,
           workflow |-> WorkflowState(SubSeq(log, 1, s.stated), recs[i].id)]]

Summary(s) ==
    LET listed == SubSeq(log, 1, s.listed)
    IN [chain |-> s.chain,
        totals |-> Totals(SubSeq(log, 1, s.counted)),
        denying |-> DenyActors(listed, s.now),
        risky |-> RiskyDocuments(listed, s.now),
        signals |-> BehaviorSignals(listed, s.now),
        recs |-> RecsOf(s)]

-----------------------------------------------------------------------------
(* The rest of the system: events, time, and the chain of the log. *)
Happens(e) ==
    /\ Spend("events")
    /\ \E late \in 0..Least(Lag, time) : Append1([e EXCEPT !.at = time - late])
    /\ UNCHANGED <<time, chain, req, page, packet>>

Tick ==
    /\ Spend("ticks")
    /\ time' = time + 1
    /\ UNCHANGED <<log, chain, req, page, packet>>

(* The chain is found broken; a new epoch makes the active chain valid again. *)
ChainChanges ==
    /\ Spend("breaks")
    /\ chain' = IF chain = "invalid" THEN "compromised" ELSE "invalid"
    /\ UNCHANGED <<log, time, req, page, packet>>

-----------------------------------------------------------------------------
(* securitySummary *)

(* Mutant: a page that waits for an answer does not ask again. *)
JoinsAnswer(u) == page[u].query # 0

Joins(u) == FALSE

(* A page asks; what it was waiting for it no longer does. *)
Ask(u, q) ==
    /\ req[q].pc = "free" /\ \A p \in Requests : p < q => req[p].pc # "free"
    /\ req' = [req EXCEPT ![q] = [NoRequest EXCEPT !.pc = "asked", !.user = u]]

(* Mount, the refresh button (which waits for an answer) and the retry. *)
Refresh(u, q) ==
    /\ page[u].query = 0 /\ ~page[u].verifying
    /\ Spend("queries")
    /\ Ask(u, q)
    /\ page' = [page EXCEPT ![u].query = q]
    /\ UNCHANGED <<log, time, chain, packet>>

(* refreshAndVerifyChain: the refresh comes when the verification is done.    *)
Verify(u) ==
    /\ page[u].shown # {} /\ ~page[u].verifying
    /\ Spend("verifies")
    /\ page' = [page EXCEPT ![u].verifying = TRUE]
    /\ UNCHANGED <<log, time, chain, req, packet>>

Verified(u, q) ==
    /\ page[u].verifying
    /\ Ask(u, q)
    /\ page' = [page EXCEPT ![u].query = q, ![u].verifying = FALSE]
    /\ UNCHANGED <<log, time, chain, packet, budget>>

Reads(q) ==
    /\ page' = page
    /\ UNCHANGED <<log, time, chain, packet, budget>>

CountTotals(q) ==
    /\ req[q].pc = "asked" /\ req[q].counted = -1
    /\ req' = [req EXCEPT ![q].counted = Len(log), ![q].chain = chain]
    /\ Reads(q)

ListActivity(q) ==
    /\ req[q].pc = "asked" /\ req[q].listed = -1
    /\ req' = [req EXCEPT ![q].listed = Len(log), ![q].now = time]
    /\ Reads(q)

ReadWorkflows(q) ==
    /\ req[q].pc = "asked" /\ req[q].counted # -1 /\ req[q].listed # -1
    /\ req' = [req EXCEPT ![q].pc = "stated", ![q].stated = Len(log)]
    /\ Reads(q)

ViewsOf(u) == {e \in Events(log) : e.kind = "viewed" /\ e.actor = u}

WasSeen(u) == \E e \in ViewsOf(u) : e.at >= time - Gap

(* recordRecommendationView: the view is looked for, and then recorded with    *)
(* the time at which it was not found.                                         *)
CheckView(q) ==
    /\ req[q].pc = "stated"
    /\ req' = [req EXCEPT ![q].pc = IF WasSeen(req[q].user) THEN "answered" ELSE "record",
                          ![q].at = time]
    /\ Reads(q)

RecordView(q) ==
    /\ req[q].pc = "record"
    /\ Append1(Entry("viewed", req[q].user, "none", "UNKNOWN", req[q].at))
    /\ req' = [req EXCEPT ![q].pc = "answered"]
    /\ UNCHANGED <<time, chain, page, packet, budget>>

(* A read or the append fails, or the answer is lost (also after the retry).   *)
Fails(q) ==
    /\ req[q].pc # "free"
    /\ Spend("faults")
    /\ req' = [req EXCEPT ![q] = NoRequest]
    /\ page' = [u \in Officers |->
                  IF page[u].query = q THEN [page[u] EXCEPT !.query = 0, !.error = TRUE]
                  ELSE page[u]]
    /\ UNCHANGED <<log, time, chain, packet>>

Answer(r) == [counted |-> r.counted, listed |-> r.listed, now |-> r.now, chain |-> r.chain,
              stated |-> r.stated, checked |-> r.at, at |-> time]

(* An answer that nobody waits for any more is dropped. *)
AnswerArrives(q) ==
    /\ req[q].pc = "answered"
    /\ req' = [req EXCEPT ![q] = NoRequest]
    /\ page' = [u \in Officers |->
                  IF page[u].query = q
                    THEN [page[u] EXCEPT !.query = 0, !.error = FALSE, !.shown = {Answer(req[q])}]
                    ELSE page[u]]
    /\ UNCHANGED <<log, time, chain, packet, budget>>

-----------------------------------------------------------------------------
(* The rows an officer sees, and the workflow. *)
Shown(u) == UNION {Reachable(Rows(Summary(s))) : s \in page[u].shown}

(* saveRecommendationWorkflow: one save at a time. *)
Save(u, r, step) ==
    /\ page[u].save.pc = "idle"
    /\ step \in Steps(r)
    /\ Spend("saves")
    /\ page' = [page EXCEPT ![u].save =
                  [NoSave EXCEPT !.pc = "sent", !.rec = r.id, !.status = step.status, !.note = step.note]]
    /\ UNCHANGED <<log, time, chain, req, packet>>

(* updateSecurityRecommendationWorkflow takes the time, and then waits in the *)
(* queue of the log.                                                          *)
StampSave(u) ==
    /\ page[u].save.pc = "sent"
    /\ page' = [page EXCEPT ![u].save.pc = "stamped", ![u].save.at = time]
    /\ UNCHANGED <<log, time, chain, req, packet, budget>>

AppendSave(u) ==
    LET s == page[u].save
    IN /\ s.pc = "stamped"
       /\ Append1([Entry("status", u, "none", "UNKNOWN", s.at)
                     EXCEPT !.rec = s.rec, !.status = s.status, !.note = s.note])
       /\ page' = [page EXCEPT ![u].save.pc = "applied", ![u].save.id = Len(log) + 1]
       /\ UNCHANGED <<time, chain, req, packet, budget>>

(* onSuccess: the summary is asked for again, whatever was under way. *)
SaveAnswered(u, q) ==
    /\ page[u].save.pc = "applied"
    /\ IF Joins(u)
         THEN /\ page' = [page EXCEPT ![u].save.pc = "fetching", ![u].save.query = page[u].query]
              /\ UNCHANGED req
         ELSE /\ Ask(u, q)
              /\ page' = [page EXCEPT ![u].save.pc = "fetching", ![u].save.query = q, ![u].query = q]
    /\ UNCHANGED <<log, time, chain, packet, budget>>

(* The refetch is over, or was given up for another one; the history that was  *)
(* kept for the recommendation is dropped.                                     *)
SaveDone(u) ==
    LET s == page[u].save
    IN /\ s.pc = "fetching" /\ page[u].query # s.query
       /\ page' = [page EXCEPT ![u].save = NoSave, ![u].saved = s,
                               ![u].kept = {h \in @ : h.rec # s.rec}]
       /\ UNCHANGED <<log, time, chain, req, packet, budget>>

(* The append fails, or its answer is lost. *)
SaveFails(u) ==
    /\ page[u].save.pc \in {"sent", "stamped", "applied"}
    /\ Spend("faults")
    /\ page' = [page EXCEPT ![u].save = NoSave]
    /\ UNCHANGED <<log, time, chain, req, packet>>

-----------------------------------------------------------------------------
(* Histories and packets. *)
Kept(u, id) == {h \in page[u].kept : h.rec = id}

Asked(r, use) == [NoLoad EXCEPT !.pc = "asked", !.rec = r.id, !.stated = r.workflow, !.use = use]

(* toggleRecommendationHistory: opened, a history that is kept is not loaded.  *)
ToggleHistory(u, r) ==
    /\ page[u].load.pc = "idle"
    /\ Spend("loads")
    /\ page' = [page EXCEPT ![u].open = Flip(@, r.id),
                            ![u].load = IF r.id \notin page[u].open /\ Kept(u, r.id) = {}
                                          THEN Asked(r, "view") ELSE @]
    /\ UNCHANGED <<log, time, chain, req, packet>>

(* The packets of the security page and of the evidence center are built from  *)
(* the row as it is when they are asked for.                                   *)
Load(u, r, use) ==
    /\ page[u].load.pc = "idle"
    /\ use = "evidence" \/ Kept(u, r.id) = {}
    /\ Spend("loads")
    /\ page' = [page EXCEPT ![u].load = Asked(r, use)]
    /\ UNCHANGED <<log, time, chain, req, packet>>

ServeHistory(u) ==
    LET l == page[u].load
    IN /\ l.pc = "asked"
       /\ page' = [page EXCEPT ![u].load.pc = "read",
                               ![u].load.got = {e.id : e \in WorkflowHistory(log, l.rec)}]
       /\ UNCHANGED <<log, time, chain, req, packet, budget>>

(* Mutant: the evidence center takes the history the security page keeps. *)
KeptTrail(u, l) ==
    IF Kept(u, l.rec) = {} THEN l.got ELSE (CHOOSE h \in Kept(u, l.rec) : TRUE).ids

Trail(u, l) == l.got

Packet(use, workflow, history) == [use |-> use, workflow |-> workflow, history |-> history]

HistoryArrives(u) ==
    LET l == page[u].load
    IN /\ l.pc = "read"
       /\ page' = [page EXCEPT ![u].load = NoLoad,
                     ![u].kept = IF l.use = "evidence" THEN @
                                 ELSE {h \in @ : h.rec # l.rec} \cup {[rec |-> l.rec, ids |-> l.got]}]
       /\ packet' = IF l.use = "view" THEN packet ELSE {Packet(l.use, l.stated, Trail(u, l))}
       /\ UNCHANGED <<log, time, chain, req, budget>>

LoadFails(u) ==
    /\ page[u].load.pc # "idle"
    /\ Spend("faults")
    /\ page' = [page EXCEPT ![u].load = NoLoad]
    /\ UNCHANGED <<log, time, chain, req, packet>>

(* downloadRecommendationEvidence with a history that is kept. *)
ExportKept(u, r) ==
    /\ Spend("loads")
    /\ \E h \in Kept(u, r.id) : packet' = {Packet("packet", r.workflow, h.ids)}
    /\ UNCHANGED <<log, time, chain, req, page>>

-----------------------------------------------------------------------------
(* queryAuditLogWindow: all pages of the newest grants of a kind, one after    *)
(* the other, while the log grows.                                             *)
LoadWindow(u, kind) ==
    /\ page[u].window.pc # "loading"
    /\ Spend("windows")
    /\ page' = [page EXCEPT ![u].window =
                  [NoWindow EXCEPT !.pc = "loading", !.kind = kind,
                                   !.asked = {e.id : e \in OfKind(Events(log), {kind})}]]
    /\ UNCHANGED <<log, time, chain, req, packet>>

PageAt(events, n) ==
    {e \in events : (n - 1) * PageSize <= Cardinality({f \in events : Newer(f, e)})
                       /\ Cardinality({f \in events : Newer(f, e)}) < n * PageSize}

FetchPage(u) ==
    LET w == page[u].window
        all == OfKind(Events(log), {w.kind})
        batch == {e.id : e \in PageAt(all, w.next)}
        last == w.next * PageSize >= Cardinality(all)
    IN /\ w.pc = "loading"
       /\ page' = [page EXCEPT ![u].window =
             IF w.next > MaxPages THEN [w EXCEPT !.pc = "failed"]
             ELSE [w EXCEPT !.pc = IF last THEN "shown" ELSE @, !.next = @ + 1,
                            !.got = @ \cup batch, !.twice = @ \cup (w.got \cap batch)]]
       /\ UNCHANGED <<log, time, chain, req, packet, budget>>

-----------------------------------------------------------------------------
(* The selection of a case.  The retention records are a query of their own:   *)
(* at most one is due and at most one overdue.                                 *)
Retentions ==
    {t \in [docs : SUBSET Docs, dueSoon : 0..1, overdue : 0..1] : t.dueSoon + t.overdue <= Cardinality(t.docs)}

Choose(u, chosen) ==
    /\ Spend("selects")
    /\ page' = [page EXCEPT ![u].chosen = chosen]
    /\ UNCHANGED <<log, time, chain, req, packet>>

Selections(u, summary) ==
    LET chosen == page[u].chosen
    IN {ToggleRec(chosen, t.id) : t \in Seqs!ToSet(QueueRows(RecTargets(summary, time), "all", TRUE))}
         \cup {ToggleDoc(chosen, d) : d \in Docs}
         \cup {ChooseRecs(chosen, summary), NothingChosen}
         \cup {ChooseDocs(chosen, t) : t \in Retentions}

-----------------------------------------------------------------------------
SecurityInit ==
    /\ \E s \in Scenarios : log = s.log /\ budget = s.budget
    /\ time = Lag
    /\ chain = "valid"
    /\ req = [q \in Requests |-> NoRequest]
    /\ page = [u \in Officers |-> EmptyPage]
    /\ packet = {}

Serving(q) ==
    \/ CountTotals(q) \/ ListActivity(q) \/ ReadWorkflows(q) \/ CheckView(q) \/ RecordView(q)
    \/ AnswerArrives(q)

Working(u) ==
    \/ StampSave(u) \/ AppendSave(u) \/ (\E q \in Requests : SaveAnswered(u, q)) \/ SaveDone(u)
    \/ ServeHistory(u) \/ HistoryArrives(u) \/ FetchPage(u) \/ (\E q \in Requests : Verified(u, q))

SecurityNext ==
    \/ \E e \in budget.activity : Happens(e)
    \/ Tick \/ ChainChanges
    \/ \E q \in Requests : Serving(q) \/ Fails(q)
    \/ \E u \in budget.officers :
          \/ \E q \in Requests : Refresh(u, q)
          \/ Verify(u) \/ Working(u) \/ SaveFails(u) \/ LoadFails(u)
          \/ budget.saves + budget.loads > 0 /\ \E r \in Shown(u) :
                \/ \E step \in Steps(r) \cap budget.steps : Save(u, r, step)
                \/ ToggleHistory(u, r)
                \/ \E use \in {"packet", "evidence"} : Load(u, r, use)
                \/ ExportKept(u, r)
          \/ \E kind \in Authorized : LoadWindow(u, kind)
          \/ budget.selects > 0 /\ \E s \in page[u].shown :
                \E chosen \in Selections(u, Summary(s)) : Choose(u, chosen)

(* The services answer what they are asked, and the browser goes on with what  *)
(* it has begun; nobody has to begin anything.                                 *)
Fairness ==
    /\ \A q \in Requests : WF_securityVars(Serving(q))
    /\ \A u \in Officers : WF_securityVars(Working(u))

SecuritySpec == SecurityInit /\ [][SecurityNext]_securityVars /\ Fairness

-----------------------------------------------------------------------------
(* Properties *)

Chains == {"valid", "invalid", "compromised"}

Stamps == Nat \cup {-1}

RequestsOf ==
    [pc : {"free", "asked", "stated", "record", "answered"}, user : Officers \cup {"nobody"},
     counted : Stamps, listed : Stamps, now : Nat, chain : Chains, stated : Stamps, at : Nat]

SaveType ==
    [pc : {"idle", "sent", "stamped", "applied", "fetching"}, rec : RecIds \cup {NoRec},
     status : Statuses, note : Notes, at : Nat, id : Nat, query : Requests \cup {0}]

AnswerType ==
    [counted : Nat, listed : Nat, now : Nat, chain : Chains, stated : Nat, checked : Nat, at : Nat]

StateType ==
    [status : Statuses, note : Notes, at : Stamps, id : Nat, actor : Actors \cup Officers \cup {"nobody"}]

LoadType ==
    [pc : {"idle", "asked", "read"}, rec : RecIds \cup {NoRec}, stated : StateType, got : SUBSET Nat,
     use : {"view", "packet", "evidence"}]

WindowType ==
    [pc : {"idle", "loading", "shown", "failed"}, kind : Authorized, next : Nat \ {0},
     asked : SUBSET Nat, got : SUBSET Nat, twice : SUBSET Nat]

PageType ==
    [query : Requests \cup {0}, error : BOOLEAN, verifying : BOOLEAN, save : SaveType, saved : SaveType,
     shown : SUBSET AnswerType, kept : SUBSET [rec : RecIds, ids : SUBSET Nat], open : SUBSET RecIds,
     load : LoadType, window : WindowType, chosen : [recs : SUBSET RecIds, docs : SUBSET Docs]]

(* Every variable has its type: no event of the log is ahead of the clock,     *)
(* what a request has read was there, and a page waits for a request of its    *)
(* own only.                                                                   *)
SecurityTypeOK ==
    /\ log \in Seq(EventsBy(time)) /\ \A i \in DOMAIN log : log[i].id = i
    /\ time \in Nat /\ time >= Lag /\ chain \in Chains
    /\ req \in [Requests -> RequestsOf] /\ page \in [Officers -> PageType] /\ budget \in Budgets
    /\ \A q \in Requests : {req[q].counted, req[q].listed, req[q].stated} \subseteq -1..Len(log)
    /\ \A u \in Officers :
          /\ page[u].query # 0 => req[page[u].query].user = u
          /\ \A s \in page[u].shown : {s.counted, s.listed, s.stated} \subseteq 0..Len(log)

SummariesShown == UNION {page[u].shown : u \in Officers}

Contents == {Summary(s) : s \in SummariesShown}

(* Whatever a panel counts can be looked at.  The link of a recommendation and *)
(* of every counter and row shows at least the events behind the number,       *)
(* although the counters, the lists and the query read the log at three        *)
(* moments and events reach it late (audit.service.ts:1475, and the copies of  *)
(* that table in security-dashboard.ts:710 and security/page.tsx:2555); a      *)
(* burst of refusals is left out: see DrillDownCoversBursts.                   *)
LinksCover ==
    \A all \in Contents :
        /\ \A r \in Seqs!ToSet(all.recs) :
              r.id.kind # "BURST" => r.counted \subseteq {e.id : e \in Answers(r.filter, log)}
        /\ \A f \in Figures(all) : f.counted \subseteq {e.id : e \in Opens(f.link, log)}

(* An alert leads to a panel that shows, before "show more", a row it is about *)
(* (security-dashboard.ts:375).  Malware and DLP findings are left out: see    *)
(* FindingsAreRecent.                                                          *)
Led(kinds) ==
    \A s \in SummariesShown : \A all \in {Summary(s)}, seen \in {SubSeq(log, 1, s.listed), log} :
        \A kind \in AlertKinds(all, Cardinality(OfKind(Events(seen), {"download"})),
                               Len(SensitiveGrants(seen))) \cap kinds :
            Leads(kind, all, seen)

(* A window loaded page by page has every grant that was in the log when it    *)
(* was asked for, however the log grew meanwhile (audit.api.ts:84).            *)
WindowsWhole ==
    \A u \in Officers : page[u].window.pc = "shown" => page[u].window.asked \subseteq page[u].window.got

DrillDownCovers ==
    LinksCover /\ Led({"chain", "epoch", "deny", "downloads", "sensitive", "risk", "behavior",
                      "critical behavior"}) /\ WindowsWhole

(* "View related events" of a malware or DLP alert shows one.  Refuted: the    *)
(* panel has the newest six refusals and detections only.                      *)
FindingsAreRecent == Led({"malware", "dlp"})

(* A window counts no grant twice.  Refuted: an event that arrives between two *)
(* pages moves the last one of a page onto the next.                           *)
WindowExact == \A u \in Officers : page[u].window.pc = "shown" => page[u].window.twice = {}

(* The bars of a chart open what they count, and an empty one opens nothing.   *)
(* Refuted: the list parameters are refused, and left out when empty.          *)
BarsLead ==
    \A s \in SummariesShown : \A band \in BandNames :
        LET bar == AnomalyBands(Summary(s).signals)[band]
        IN bar.value = 0 <=> Opens(bar.link, log) = {}

(* The same of a burst of refusals.  Refuted: a download that failed with an  *)
(* error or a conflict counts as refused, and the link asks for DENY only.    *)
DrillDownCoversBursts ==
    \A s \in SummariesShown : \A r \in Seqs!ToSet(RecsOf(s)) :
        r.id.kind = "BURST" => r.counted \subseteq {e.id : e \in Answers(r.filter, log)}

(* The web bands the signals by its own thresholds and routes alerts and       *)
(* recommendations by two tables: the posture is critical, and an alert has    *)
(* the route of a case, exactly when the queue has a case that is about the    *)
(* chain or about an actor, so no critical alert is without its case           *)
(* (security-dashboard.ts:1272, :1342 and :1696), and the gauge and the charts *)
(* of the command center say the same as the posture (:739).  The gauge of the *)
(* evidence center and the presentation of a case judge the same sources       *)
(* apart: while the gauge is green no case is blocked, whatever is selected    *)
(* (evidence-center.ts:438 and :773).                                          *)
ChartsMatch(all, alerts, center) ==
    /\ center.gauge = 100 <=> Posture(alerts) = "healthy"
    /\ Posture(alerts) = "critical" => center.gauge <= 65
    /\ center.alerts["critical"] = (IF all.chain = "invalid" THEN 1 ELSE 0)
                                    + (IF center.anomalies["critical"].value > 0 THEN 1 ELSE 0)
    /\ center.risk["critical"].value > 0 <=> \E a \in alerts : a.kind = "risk"

CasesMatchPosture ==
    \A all \in Contents :
        /\ \A alerts \in {Alerts(all, 0, 0)}, center \in {CommandCenter(all, 0, 0, 0)} :
              LET case == \E r \in Seqs!ToSet(all.recs) : RecRoute(r) = "CASE" /\ r.id.kind # "document"
              IN /\ ChartsMatch(all, alerts, center)
                 /\ Len(all.recs) < MaxRecs =>
                      /\ Posture(alerts) = "critical" <=> case
                      /\ (\E a \in alerts : a.route = "CASE") <=> case
                      /\ case => center.routes["CASE"] >= 2
        /\ \A t \in Retentions : Green(Readiness(all, t)) =>
              Blockers(Bundle(Rows(all), all.chain, t, IdsOf(all.recs), t.docs)) = {}

(* No recommendation is raised twice for the refusals of one actor, and none  *)
(* that has refused often goes unmentioned (audit.service.ts:1232).           *)
DenyNamedOnce ==
    \A s \in SummariesShown :
        LET recs == RecsOf(s)
            listed == SubSeq(log, 1, s.listed)
        IN Len(recs) < MaxRecs =>
             \A a \in Seqs!ToSet(DenyActors(listed, s.now)) :
                 Cardinality({i \in DOMAIN recs : recs[i].id.kind \in {"deny", "BURST"} /\ recs[i].id.of = a}) = 1

(* Whoever is shown a summary is on the record: the log has a view of theirs  *)
(* no older than the 15 minutes for which a view is not recorded again        *)
(* (audit.service.ts:1303).                                                   *)
ViewTrail ==
    \A u \in Officers : \A s \in page[u].shown : \E e \in ViewsOf(u) : e.at >= s.checked - Gap

(* When nothing is under way on a page and its last query did not fail, the   *)
(* row of the recommendation saved last shows that save or one that           *)
(* supersedes it: no answer that was on its way when the save was made is     *)
(* shown after it (page.tsx:254).                                             *)
OwnSaveShown ==
    \A u \in Officers :
        LET saved == page[u].saved
        IN page[u].query = 0 /\ page[u].save.pc = "idle" /\ ~page[u].error /\ saved.id # 0 =>
             \A r \in Shown(u) : r.id = saved.rec =>
                 \/ r.workflow.id = saved.id
                 \/ r.workflow.at > saved.at
                 \/ r.workflow.at = saved.at /\ r.workflow.id > saved.id

(* A row that is shown as overdue has not been touched by anybody for the     *)
(* hours its severity allows, in whatever order the updates reached the log   *)
(* (security-dashboard.ts:1596, audit.service.ts:1376).                       *)
OverdueIsUntouched ==
    \A u \in Officers : \A s \in page[u].shown : \A r \in Seqs!ToSet(RecsOf(s)) :
        SlaState(r, s.at) = "overdue" =>
            \A e \in StatusEvents(SubSeq(log, 1, s.stated), r.id) : e.at + Sla[r.severity] <= s.at

(* The exports of the evidence center are whole.  The packet of a              *)
(* recommendation has the update its workflow state comes from in its history  *)
(* (evidence/page.tsx:230), unless that is full of later ones.  A case is      *)
(* presented as ready exactly when the checklist is complete and no record is  *)
(* overdue, and it then names every packet that was chosen, of both kinds,     *)
(* over a chain that was valid, however the summary and the records changed    *)
(* after the choice: the status, the checklist and the sections are computed   *)
(* apart (evidence-center.ts:711, :753 and :836).                              *)
PacketTrail ==
    \A p \in packet : p.use = "evidence" /\ p.workflow.id # 0 =>
        p.workflow.id \in p.history \/ Cardinality(p.history) = HistoryLimit

CaseOf(u, all, t) ==
    LET bundle == BundleOf(all, t, page[u].chosen) IN Presentation(bundle, Narrative(bundle, page[u].chosen))

ReadyCase ==
    \A u \in {o \in Officers : page[o].chosen # NothingChosen} : \A s \in page[u].shown :
        \A all \in {Summary(s)} : \A t \in Retentions : \A case \in {CaseOf(u, all, t)} :
            LET chosen == page[u].chosen
            IN /\ case.of.status = "ready" <=> Complete(case.of.checklist) /\ t.overdue = 0
               /\ case.of.status = "ready" =>
                    /\ chosen.recs # {} /\ chosen.recs = case.report.packets.recs
                    /\ chosen.docs # {} /\ chosen.docs = case.report.packets.docs
                    /\ chosen.recs \subseteq IdsOf(all.recs) /\ chosen.docs \subseteq t.docs
                    /\ all.chain # "invalid" /\ case.export /\ case.of.notes = {}
                    /\ \A part \in {"metadata", "workflow", "audit"} : case.of.sections[part] = "verified"
               /\ case.of.status = "blocked" <=> \E i \in 1..4 : case.of.timeline[i].state = "blocked"

ExportsAreWhole == PacketTrail /\ ReadyCase

(* The same of the security page's packet.  Refuted: the history it keeps is  *)
(* dropped by the officer's own saves only.                                   *)
PagePacketTrail ==
    \A p \in packet : p.use = "packet" /\ p.workflow.id # 0 => p.workflow.id \in p.history

(* The counts of the two queues, of the manifest and of the bars add up to the *)
(* rows behind them, shown or hidden.                                          *)
CountsAddUp ==
    \A u \in Officers : \A s \in page[u].shown : \A all \in {Summary(s)} : \A rows \in {Rows(all)} :
        LET targets == RecTargets(all, s.at)
            sla == SlaSegments(rows, s.at)
        IN /\ \A view \in Views :
                 /\ QueueCounts(rows)[view] = Len(Listed(rows, view, FALSE)) + Hidden(rows, view)
                 /\ TargetCounts(targets)[view] = Len(Listed(rows, view, TRUE))
           /\ sla["closed"].value = QueueCounts(rows).resolved
           /\ \A t \in Retentions : \A model \in {EvidenceModel(all, t, s.at)} :
                 /\ Cardinality(Manifest(model).recs) = model.packets.recommendations
                 /\ Cardinality(Manifest(model).docs) = model.packets.documents
                 /\ model.sources["ready"] + model.sources["attention"] + model.sources["empty"] = 4
                 /\ model.records.active >= 0

(* An open history that says "No workflow update has been recorded yet" is of  *)
(* a recommendation without one (security/page.tsx:1245).  Refuted: the kept   *)
(* history is dropped after a save and the open panel does not load it again.  *)
NothingRecorded ==
    \A u \in Officers : \A r \in Shown(u) :
        HistoryPanel(r.id \in page[u].open, page[u].load.rec = r.id /\ page[u].load.pc # "idle",
                     Kept(u, r.id)) = "none recorded" /\ page[u].save.pc = "idle" =>
            r.workflow.id = 0

(* A playbook step shown as done is in the history ("Move workflow to REVIEWED *)
(* with a short investigation note.", security-dashboard.ts:1568).  Refuted: a *)
(* light review goes from open to resolved.                                    *)
PlaybookDone ==
    \A u \in Officers : \A r \in Shown(u) :
        "review" \in PlaybookSteps(r.workflow.status) =>
            \E e \in StatusEvents(log, r.id) : e.status = "REVIEWED"

(* A recommendation with the route of a case is resolved with the evidence of  *)
(* a case only ("Needs owner, SLA, investigation, remediation or accepted      *)
(* risk, verification, and evidence.", security-dashboard.ts:1515).  Refuted:  *)
(* a warning resolved by a light review stays resolved when it gets critical.  *)
CaseHasEvidence ==
    \A u \in Officers : \A r \in Shown(u) :
        RecRoute(r) = "CASE" /\ r.workflow.status = "RESOLVED" => r.workflow.note = "case"

(* A posture that is healthy ("No elevated security counters") has no          *)
(* recommendation.  Refuted: an internal document read by three actors is      *)
(* recommended for review and raises no alert.                                 *)
HealthyIsQuiet ==
    \A all \in Contents : Posture(Alerts(all, 0, 0)) = "healthy" => all.recs = <<>>

(* Two views of one officer are recorded at least 15 minutes apart.  Refuted:  *)
(* two requests look before either has recorded.                               *)
ViewsApart ==
    \A u \in Officers : \A e, f \in ViewsOf(u) : e.id # f.id => e.at > f.at + Gap \/ f.at > e.at + Gap

(* Every save comes to an end, so the controls of the page are given back.    *)
SavesEnd == \A u \in Officers : page[u].save.pc # "idle" ~> page[u].save.pc = "idle"
=============================================================================
