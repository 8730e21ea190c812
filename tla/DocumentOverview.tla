-------------------------- MODULE DocumentOverview --------------------------
(***************************************************************************)
(* What the web application counts over the rows of the list: the command  *)
(* center of the documents page, and the dashboard with its work queue.    *)
(* Every tile has its rows and the filters its link leads to; that the two *)
(* agree is nobody's job, since each count has a predicate of its own,     *)
(* written apart from the filters and, for the dashboard, written twice.   *)
(*                                                                         *)
(* `see` is the AnalyticsVisibility of the user: the set of the aggregates *)
(* "approval", "retention", "security" and "sensitive" that may be shown.  *)
(***************************************************************************)
EXTENDS DocumentSearch

Aggregates == {"approval", "retention", "security", "sensitive"}

Filters(k, value) == [DEFAULT_DOCUMENT_FILTERS EXCEPT ![k] = value]

(* buildDocumentsHref *)
Tile(key, rows, filters) == [key |-> key, rows |-> rows, link |-> Serialize(filters)]

Searched(key, text) == Filters("search", {Term(key, text)})

WithStatus(rows, s) == {row \in rows : row.status = s}
WithLevel(rows, l) == {row \in rows : row.level = l}
Detected(rows) == {row \in rows : row.dlp = "DETECTED"}
Held(rows) == {row \in rows : row.hold}

(* Mutant: detections are left out of what is sensitive. *)
SensitiveLevels(rows) == {row \in rows : row.level \in {"CONFIDENTIAL", "SECRET"}}

Sensitive(rows) == {row \in rows : row.level \in {"CONFIDENTIAL", "SECRET"} \/ row.dlp = "DETECTED"}

(* isRetentionDueSoon of the command center, and that of the dashboard. *)
DueSoon(rows) == {row \in rows : row.retention = "soon" /\ row.status \notin {"ARCHIVED", "DELETED"}}
DashboardDueSoon(rows) == {row \in rows : row.retention = "soon" /\ row.status # "ARCHIVED"}

-----------------------------------------------------------------------------
(* The command center of the documents page *)
Metrics(rows, see) ==
    {Tile("total-documents", rows, DEFAULT_DOCUMENT_FILTERS)}
      \cup {Tile("pending-review", WithStatus(rows, "PENDING"), Filters("view", "pending-review")) :
              s \in see \cap {"approval"}}
      \cup {Tile("sensitive-documents", Sensitive(rows), Filters("view", "sensitive")) :
              s \in see \cap {"sensitive"}}
      \cup {Tile("retention-due-soon", DueSoon(rows), Searched("retention", "due-soon")) :
              s \in see \cap {"retention"}}

LifecycleSegments(rows) == {Tile(s, WithStatus(rows, s), Filters("status", s)) : s \in Statuses}

ClassificationSegments(rows, see) ==
    IF "sensitive" \in see THEN {Tile(l, WithLevel(rows, l), Filters("level", l)) : l \in Levels} ELSE {}

AttentionSegments(rows, see) ==
    {Tile("dlp-detected", Detected(rows), Searched("dlp", "DETECTED")) : s \in see \cap {"security"}}
      \cup {Tile("pending-review", WithStatus(rows, "PENDING"), Filters("view", "pending-review")) :
              s \in see \cap {"approval"}}
      \cup {Tile("retention-due-soon", DueSoon(rows), Searched("retention", "due-soon")) :
              s \in see \cap {"retention"}}
      \cup {Tile("legal-hold", Held(rows), Searched("has", "legal-hold")) : s \in see \cap {"sensitive"}}
      \cup {Tile("draft-handoff", WithStatus(rows, "DRAFT"), Filters("view", "drafts"))}

(* The rows that the gauge takes away from 100%. *)
GaugeRows(rows, see) ==
    {row \in rows :
        \/ row.status = "DRAFT"
        \/ "approval" \in see /\ row.status = "PENDING"
        \/ "security" \in see /\ row.dlp = "DETECTED"
        \/ "sensitive" \in see /\ row.hold
        \/ "retention" \in see /\ row \in DueSoon(rows)}

(* isDocumentFilterVisible.  What a search asks for is read off its text. *)
FilterVisible(filters, see) ==
    LET asks(key, text) == Term(key, text) \in filters.search
    IN /\ \/ filters.view = "sensitive" \/ filters.level \in {"CONFIDENTIAL", "SECRET"}
          \/ \E term \in filters.search : term.key = "dlp"
          \/ asks("tag", "security") \/ asks("has", "legal-hold")
          \/ asks("class", "CONFIDENTIAL") \/ asks("class", "SECRET")
          => "sensitive" \in see
       /\ \/ filters.view \in {"pending-review", "needs-action"} \/ filters.status = "PENDING"
          \/ asks("status", "PENDING")
          => "approval" \in see
       /\ (\E term \in filters.search : term.key = "retention") => "retention" \in see

SavedViewTile(v, rows) == Tile(v.id, Listed(rows, v.filters), v.filters)

(* The four visible views with most rows, and those with as many as the fourth.*)
SavedViewSegments(rows, views, see) ==
    LET shown == {v \in views : FilterVisible(v.filters, see) /\ Listed(rows, v.filters) # {}}
        size(v) == Cardinality(Listed(rows, v.filters))
    IN {SavedViewTile(v, rows) : v \in {v \in shown : Cardinality({w \in shown : size(w) > size(v)}) < 4}}

QuickViewVisible(view, see) ==
    CASE view = "sensitive" -> "sensitive" \in see
      [] view \in {"pending-review", "needs-action"} -> "approval" \in see
      [] OTHER -> TRUE

QuickViews(rows, see) ==
    {Tile(v, {row \in rows : InView(row, v)}, Filters("view", v)) : v \in {v \in Views : QuickViewVisible(v, see)}}

SuggestionVisible(term, see) ==
    CASE term.key = "dlp" -> "security" \in see
      [] term.key = "retention" -> "retention" \in see
      [] term.key = "class" -> "sensitive" \in see
      [] term.key = "status" -> "approval" \in see
      [] term = Term("has", "legal-hold") \/ term = Term("tag", "security") -> "sensitive" \in see
      [] OTHER -> TRUE

Suggestions(rows, see) == {term \in SuggestedTerms(rows) : SuggestionVisible(term, see)}

CommandCenter(rows, views, see) ==
    Metrics(rows, see) \cup LifecycleSegments(rows) \cup ClassificationSegments(rows, see)
      \cup AttentionSegments(rows, see) \cup SavedViewSegments(rows, views, see) \cup QuickViews(rows, see)

-----------------------------------------------------------------------------
(* The dashboard *)
Widget(key, rows) == [key |-> key, rows |-> rows]

OperationalWidgets(rows, see) ==
    {IF "approval" \in see THEN Widget("pending-approvals", WithStatus(rows, "PENDING"))
                           ELSE Widget("total-documents", rows),
     IF "security" \in see THEN Widget("dlp-detected", Detected(rows))
                           ELSE Widget("published-documents", WithStatus(rows, "PUBLISHED")),
     IF "retention" \in see THEN Widget("retention-due-soon", DashboardDueSoon(rows))
                            ELSE Widget("draft-handoff", WithStatus(rows, "DRAFT"))}

(* Each row is counted under the most severe of its cues. *)
Severity(row, rows, see) ==
    IF "security" \in see /\ row.dlp = "DETECTED" THEN "critical"
    ELSE IF \/ "approval" \in see /\ row.status = "PENDING"
            \/ "retention" \in see /\ row \in DashboardDueSoon(rows) THEN "warning"
    ELSE IF row.status = "DRAFT" THEN "info" ELSE "none"

DashboardAttention(rows, see) ==
    {Widget(s, {row \in rows : Severity(row, rows, see) = s}) :
        s \in {"warning", "info"} \cup {c \in {"critical"} : "security" \in see}}
=============================================================================
