---------------------------- MODULE ApprovalQueue ----------------------------
(***************************************************************************)
(* The approvals page: the pending documents of the list with the time     *)
(* that their review may take, the reviewer they are meant for, the filter *)
(* by state, the order and the pages.  How many hours a document has been  *)
(* in the queue is given (`waited`); the page measures it from the last    *)
(* write to the document, up to the moment the page was opened.            *)
(***************************************************************************)
EXTENDS DocumentView

(* getApprovalQueue: the list API's answer, filtered in the browser. *)
QueueOf(rows) == WithStatus(rows, "PENDING")

CLASSIFICATION_SLA_HOURS == [PUBLIC |-> 72, INTERNAL |-> 48, CONFIDENTIAL |-> 24, SECRET |-> 8]

SlaHours(row) ==
    LET base == CLASSIFICATION_SLA_HOURS[row.level]
    IN IF row.dlp = "DETECTED" /\ base > 12 THEN 12 ELSE base

Remaining(row, waited) == SlaHours(row) - waited[row.id]

(* buildApprovalSla *)
SlaState(row, waited) ==
    CASE Remaining(row, waited) <= 0 -> "overdue"
      [] Remaining(row, waited) > (SlaHours(row) + 2) \div 3 -> "on-track"
      [] OTHER -> "due-soon"

(* buildApprovalAssignment *)
Assignment(row) ==
    CASE row.dlp = "DETECTED" -> "compliance-review"
      [] row.dlp # "DETECTED" /\ row.retention = "unset" -> "records-review"
      [] row.dlp # "DETECTED" /\ row.retention # "unset" /\ row.level \in {"CONFIDENTIAL", "SECRET"} ->
           "security-approver"
      [] OTHER -> "document-approver"

SlaFilters == {"all", "overdue", "due-soon", "on-track"}
SlaSorts == {"priority", "due-date", "queued-time"}

InSlaFilter(row, filter, waited) == filter \in {"all", SlaState(row, waited)}

SlaRows(rows, filter, waited) == {row \in rows : InSlaFilter(row, filter, waited)}

(* The numbers of the summary cards. *)
SlaSummary(rows, waited) ==
    [all |-> rows,
     overdue |-> {row \in rows : SlaState(row, waited) = "overdue"},
     due_soon |-> {row \in rows : SlaState(row, waited) = "due-soon"},
     on_track |-> {row \in rows : SlaState(row, waited) = "on-track"},
     compliance |-> {row \in rows : Assignment(row) = "compliance-review"}]

AssignmentRank(row) ==
    CASE Assignment(row) = "compliance-review" -> 4
      [] Assignment(row) = "security-approver" -> 3
      [] Assignment(row) = "records-review" -> 2
      [] OTHER -> 1

Rank(row, waited) ==
    CASE SlaState(row, waited) = "overdue" -> 3
      [] SlaState(row, waited) = "due-soon" -> 2
      [] OTHER -> 1

(* compareRows; rows that compare equal stay in the order of the list. *)
ComesFirst(a, b, sort, waited) ==
    LET due == Remaining(a, waited) - Remaining(b, waited)
    IN CASE sort = "queued-time" -> waited[a.id] > waited[b.id]
         [] sort = "due-date" -> due < 0
         [] OTHER ->
              \/ Rank(a, waited) > Rank(b, waited)
              \/ /\ Rank(a, waited) = Rank(b, waited)
                 /\ \/ AssignmentRank(a) > AssignmentRank(b)
                    \/ AssignmentRank(a) = AssignmentRank(b) /\ due < 0

(* The list API answers what was created last first. *)
Before(a, b, sort, waited) ==
    \/ ComesFirst(a, b, sort, waited)
    \/ ~ComesFirst(b, a, sort, waited) /\ a.id > b.id

QueuePage(rows, filter, sort, number, waited) ==
    LET shown == SlaRows(rows, filter, waited)
        place(row) == Cardinality({other \in shown : Before(other, row, sort, waited)})
    IN {row \in shown : place(row) \div PageSize = number - 1}
=============================================================================
