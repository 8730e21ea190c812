---------------------------- MODULE EvidenceCenter ----------------------------
(***************************************************************************)
(* The evidence center: what it offers for export, its command center, the  *)
(* selection a case is made of, and how the case is presented and reported. *)
(* The cards, the gauge, the bundle and the status of a case are those of   *)
(* SecurityDashboard; a selection is [recs, docs].                          *)
(***************************************************************************)
EXTENDS SecurityViews

-----------------------------------------------------------------------------
(* Targets: the recommendations of the summary and the documents of the       *)
(* retention records.                                                         *)
RecTarget(r, now) ==
    [id |-> r.id, severity |-> r.severity, status |-> r.workflow.status, sla |-> SlaState(r, now),
     link |-> To(r.filter), file |-> [packet |-> "recommendation", of |-> r.id]]

RecTargets(summary, now) == [i \in DOMAIN Rows(summary) |-> RecTarget(Rows(summary)[i], now)]

DocTargets(retention) == {[doc |-> d, file |-> [packet |-> "document", of |-> d]] : d \in retention.docs}

QueueOf(targets, view) ==
    CASE view = "all" -> targets
      [] view = "resolved" -> Where(targets, LAMBDA t : t.status = "RESOLVED")
      [] view = "active" -> Where(targets, LAMBDA t : t.status # "RESOLVED")

TargetCounts(targets) ==
    LET resolved == Len(Where(targets, LAMBDA t : t.status = "RESOLVED"))
    IN [active |-> Len(targets) - resolved, resolved |-> resolved, all |-> Len(targets)]

(* The rows of the queue; a resolved one can still be exported.               *)
QueueRows(targets, view, all) ==
    IF all THEN QueueOf(targets, view) ELSE FirstOf(QueueOf(targets, view), FewRecs)

-----------------------------------------------------------------------------
(* The command center. *)
SourceSegments(cards) ==
    [state \in {"ready", "attention", "empty"} |-> Cardinality({c \in DOMAIN cards : cards[c] = state})]

PacketSegments(targets, retention) ==
    [recommendations |-> Len(targets), documents |-> Cardinality(DocTargets(retention))]

RetentionSegments(retention) ==
    [due |-> retention.dueSoon, overdue |-> retention.overdue,
     active |-> Cardinality(retention.docs) - retention.dueSoon - retention.overdue]

EvidenceModel(summary, retention, now) ==
    LET cards == Cards(summary, retention)
        targets == RecTargets(summary, now)
    IN [chain |-> summary.chain, cards |-> cards, targets |-> targets, docs |-> DocTargets(retention),
        retention |-> retention, gauge |-> Readiness(summary, retention),
        sources |-> SourceSegments(cards), packets |-> PacketSegments(targets, retention),
        records |-> RetentionSegments(retention)]

Manifest(model) ==
    [chain |-> model.chain, recs |-> {t.id : t \in Seqs!ToSet(model.targets)},
     docs |-> {t.doc : t \in model.docs}, due |-> model.retention.dueSoon,
     overdue |-> model.retention.overdue]

-----------------------------------------------------------------------------
(* The selection outlives the summary and the records it was made from.       *)
NothingChosen == [recs |-> {}, docs |-> {}]

Flip(set, x) == IF x \in set THEN set \ {x} ELSE set \cup {x}

ToggleRec(chosen, id) == [chosen EXCEPT !.recs = Flip(@, id)]
ToggleDoc(chosen, doc) == [chosen EXCEPT !.docs = Flip(@, doc)]
ChooseRecs(chosen, summary) == [chosen EXCEPT !.recs = IdsOf(Rows(summary))]
ChooseDocs(chosen, retention) == [chosen EXCEPT !.docs = retention.docs]

BundleOf(summary, retention, chosen) ==
    Bundle(Rows(summary), summary.chain, retention, chosen.recs, chosen.docs)

(* The checklist of a bundle: what is complete. *)
Checklist(bundle, chosen) ==
    [manifest |-> TRUE,
     chain |-> bundle.chain # "invalid",
     recommendations |-> chosen.recs # {} /\ Len(bundle.recs) = Cardinality(chosen.recs),
     documents |-> chosen.docs # {} /\ Cardinality(bundle.docs) = Cardinality(chosen.docs),
     retention |-> bundle.retention.docs # {}]

Complete(checklist) == \A item \in DOMAIN checklist : checklist[item]

(* Both exports are offered for a bundle with a packet. *)
CanExport(bundle) == bundle.recs # <<>> \/ bundle.docs # {}

-----------------------------------------------------------------------------
(* The case. *)
Integrity(chain) == IF chain = "invalid" THEN "blocked" ELSE "verified"

WorkflowStatuses(bundle) == {r.workflow.status : r \in Seqs!ToSet(bundle.recs)}

Sections(bundle) ==
    [metadata |-> IF CanExport(bundle) /\ bundle.missing = {} THEN "verified" ELSE "attention",
     workflow |-> IF WorkflowStatuses(bundle) # {} THEN "verified" ELSE "attention",
     retention |-> IF RetentionPosture(bundle.retention) = "ready" THEN "verified"
                   ELSE RetentionPosture(bundle.retention),
     audit |-> Integrity(bundle.chain)]

VisualTimeline(sections) ==
    [i \in 1..4 |-> LET section == <<"metadata", "workflow", "retention", "audit">>[i]
                    IN [section |-> section, state |-> sections[section]]]

Narrative(bundle, chosen) ==
    [status |-> CaseStatus(bundle), integrity |-> Integrity(bundle.chain),
     retention |-> RetentionPosture(bundle.retention), sections |-> Sections(bundle),
     timeline |-> VisualTimeline(Sections(bundle)), checklist |-> Checklist(bundle, chosen),
     recs |-> bundle.recs, docs |-> bundle.docs, notes |-> Blockers(bundle) \cup Warnings(bundle)]

(* The report is one of the exports the presentation offers; both list the     *)
(* packets by their place in the case.                                         *)
Report(bundle, narrative) ==
    [of |-> narrative, packets |-> [recs |-> IdsOf(bundle.recs), docs |-> bundle.docs]]

Presentation(bundle, narrative) ==
    [of |-> narrative, export |-> CanExport(bundle), report |-> Report(bundle, narrative)]

=============================================================================
