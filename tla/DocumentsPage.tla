--------------------------- MODULE DocumentsPage ---------------------------
(***************************************************************************)
(* A user at the document pages of the web application: the answers they   *)
(* keep in the browser and fetch again when something was done, the dialog *)
(* that confirms an action on one document, and the bulk actions, which on *)
(* the documents page begin five seconds after they were asked for and can *)
(* be undone until then, and which call the services for one document      *)
(* after the other.  Other users act on the same documents meanwhile.      *)
(*                                                                         *)
(* What a call does to a document is DocumentLifecycle's; here it is done  *)
(* in one step, since nobody else's call is half-way on this page.  Tasks  *)
(* (the confirmed action and the bulk actions) outlive the page that began *)
(* them.  updatedAt is the number of the write.  DocumentPage adds the page *)
(* of one document and the approvals page, and runs all of them.           *)
(***************************************************************************)
EXTENDS ApprovalQueue

CONSTANTS
    Docs,          \* documents, by their place in the order of titles and of creation
    Owner, None,
    Tasks,
    Scenarios      \* who is at the page, the documents, and how much may happen

VARIABLES
    me,
    doc,         \* the documents, as in DocumentLifecycle
    meta,        \* what else a row shows of a document
    files,       \* the versions of each document
    past,        \* every change of status
    stamp, now,  \* updatedAt of each document, and of the last write
    cache,       \* the answers in the browser's cache
    page,        \* the page that is open, its filters and its dialog
    task,
    confirmed,   \* the last own action that was confirmed while an answer was shown (observation only)
    budget

services == <<doc, meta, files, past, stamp, now>>

L == INSTANCE DocumentLifecycle
       WITH Direct <- {}, Chains <- {}, Slots <- {}, RetentionDays <- 0, TrashDays <- 0, AsOf <- {},
            MaxTime <- 1, MaxHistory <- 0, MaxFaults <- 0,
            history <- <<>>, signed <- <<>>, req <- <<>>, clock <- 1, faults <- 0

ASSUME PageAssumption ==
    /\ IsFiniteSet(Docs) /\ Docs = 1..Cardinality(Docs)
    /\ Editors \cup Approvers \cup Officers \cup Admins \subseteq Users
    /\ Users \subseteq Names /\ Blank \notin Users
    /\ Owner \in [Docs -> Users]

(* The keys of the cache: the list, the approval queue, and for each document  *)
(* its detail and its history, which are forgotten together.                   *)
ListKey == <<"list", 0>>
QueueKey == <<"queue", 0>>
DetailKey(d) == <<"detail", d>>
HistoryKey(d) == <<"history", d>>
DocKeys(d) == {DetailKey(d), HistoryKey(d)}
Keys == {ListKey, QueueKey} \cup UNION {DocKeys(d) : d \in Docs}

ListPages == {"documents", "mine", "dashboard"}

NoQuery == [rows |-> {}, known |-> FALSE, fetch |-> "none", next |-> {}, stale |-> FALSE, error |-> FALSE]

NoDialog == [doc |-> None, action |-> "NONE", busy |-> FALSE]

NoTask == [kind |-> "free", pc |-> "idle", action |-> "NONE", arg |-> None, chosen |-> {}, todo |-> {},
           doc |-> None, granted |-> FALSE, here |-> FALSE, undone |-> FALSE, ok |-> 0, fail |-> 0,
           changed |-> {}, told |-> {}]

Spend(what) == budget[what] > 0 /\ budget' = [budget EXCEPT ![what] = @ - 1]

Row(d) ==
    [id |-> d, owner |-> Owner[d], status |-> doc[d].status, hold |-> doc[d].hold, stamp |-> stamp[d],
     level |-> meta[d].level, dlp |-> meta[d].dlp, retention |-> meta[d].retention,
     tags |-> meta[d].tags, file |-> IF files[d] = <<>> THEN NoFile ELSE meta[d].file]

Detail(d) ==
    LET row == Row(d)
    IN [id |-> d, owner |-> row.owner, status |-> row.status, hold |-> row.hold, stamp |-> row.stamp,
        level |-> row.level, dlp |-> row.dlp, retention |-> row.retention, tags |-> row.tags, file |-> row.file,
        described |-> meta[d].described, shared |-> meta[d].shared, chain |-> doc[d].chain,
        step |-> doc[d].step, published |-> doc[d].publishedAt # 0,
        archived |-> doc[d].archivedAt # 0, versions |-> files[d]]

(* What the list API answers to the user; `shared` is an entry that lets       *)
(* everybody read.                                                             *)
MayList(u, d) ==
    LET status == doc[d].status
        records == status \in {"PUBLISHED", "ARCHIVED"}
    IN /\ L!Exists(d) /\ status # "DELETED"
       /\ \/ u \in Admins \/ u = Owner[d] \/ meta[d].shared
          \/ u \in Approvers /\ (records \/ status = "PENDING")
          \/ records /\ u \in Officers
          \/ records /\ u \in Editors /\ meta[d].level = "INTERNAL"
          \/ records /\ meta[d].level = "PUBLIC"

Rows == {Row(d) : d \in {d \in Docs : MayList(me, d)}}

-----------------------------------------------------------------------------
(* The work queue of the dashboard: what a row is there for, and the six that  *)
(* were updated last.                                                          *)
QueueLabel(u, row, rows) ==
    IF u \in Officers \cup Admins /\ row.dlp = "DETECTED" THEN "Inspect evidence"
    ELSE IF u \in Officers \cup Admins /\ row \in DashboardDueSoon(rows) THEN "Review retention"
    ELSE IF u \in Approvers \cup Admins /\ row.status = "PENDING" THEN "Review decision"
    ELSE IF row.owner = u /\ u \in Editors \cup Admins /\ row.status = "DRAFT" THEN "Prepare submission"
    ELSE "none"

WorkQueue(u, rows) ==
    LET queued == {row \in rows : QueueLabel(u, row, rows) # "none"}
    IN {row \in queued : Cardinality({other \in queued : other.stamp > row.stamp}) < 6}

-----------------------------------------------------------------------------
(* The services *)
MayAct(u, d, a) ==
    /\ L!MayRequest(u, d, a)
    /\ doc[d].status = L!TRANSITION_MAP[a].from
    /\ a = "APPROVE" /\ L!Bound(u, d) => L!MyTurn(u, d)

(* An approval that is not the last of the chain only advances it. *)
Acted(u, d, a) ==
    IF a = "APPROVE" /\ L!Bound(u, d) /\ ~L!FinalStep(d)
      THEN [doc[d] EXCEPT !.step = @ + 1]
      ELSE L!Moved(doc[d], a, 1)

(* setApprovalChain, setLegalHold, and create and restore of a version. *)
MayChange(u, d, change, arg) ==
    CASE change \in {"HOLD", "RELEASE"} -> u \in Admins
      [] change = "CHAIN" -> /\ L!CanManage(u, d) /\ doc[d].status = "PENDING" /\ doc[d].step = 0
                             /\ CanSave(arg)
      [] change = "RESTORE" -> L!CanManage(u, d) /\ arg \in DOMAIN files[d] /\ arg # Len(files[d])
      [] OTHER -> L!CanManage(u, d)

Changed(d, change, arg) ==
    CASE change = "HOLD" -> [doc[d] EXCEPT !.hold = TRUE]
      [] change = "RELEASE" -> [doc[d] EXCEPT !.hold = FALSE]
      [] change = "CHAIN" -> [doc[d] EXCEPT !.chain = Normalized(arg), !.step = 0]
      [] OTHER -> doc[d]

Restored(u, file) == [file EXCEPT !.by = u]

FilesAfter(u, d, change, arg) ==
    CASE change = "UPLOAD" -> Append(files[d], [arg EXCEPT !.by = u])
      [] change = "RESTORE" -> Append(files[d], Restored(u, files[d][arg]))
      [] OTHER -> files[d]

(* The document takes over the result of the scan of an uploaded version. *)
MetaAfter(d, change, arg) ==
    IF change # "UPLOAD" THEN meta[d]
    ELSE [meta[d] EXCEPT !.dlp = arg.scan,
                         !.level = IF arg.scan = "DETECTED" /\ @ \in {"PUBLIC", "INTERNAL"} THEN "CONFIDENTIAL" ELSE @]

MayCall(u, d, a, arg) == IF a \in L!Actions THEN MayAct(u, d, a) ELSE MayChange(u, d, a, arg)

Perform(u, d, a, arg) ==
    LET row == IF a \in L!Actions THEN Acted(u, d, a) ELSE Changed(d, a, arg)
    IN /\ doc' = [doc EXCEPT ![d] = row]
       /\ files' = [files EXCEPT ![d] = FilesAfter(u, d, a, arg)]
       /\ meta' = [meta EXCEPT ![d] = MetaAfter(d, a, arg)]
       /\ past' = past \cup {[doc |-> d, from |-> doc[d].status, to |-> row.status, action |-> a, stamp |-> now + 1] :
                              s \in {row.status} \ {doc[d].status}}
       /\ now' = now + 1
       /\ stamp' = [stamp EXCEPT ![d] = now + 1]

OtherActs(u, d, a, arg) ==
    /\ u # me
    /\ Spend("others")
    /\ MayCall(u, d, a, arg)
    /\ Perform(u, d, a, arg)
    /\ UNCHANGED <<me, cache, page, task, confirmed>>

-----------------------------------------------------------------------------
(* The answers in the cache *)

(* The answers that the open page shows, and fetches again. *)
Shown ==
    CASE page.open \in ListPages -> {ListKey}
      [] page.open = "approvals" -> {QueueKey} \cup {HistoryKey(row.id) : row \in page.drawer}
      [] page.open = "document" -> DocKeys(page.doc)
      [] OTHER -> {}

Usable(k) == cache[k].known /\ ~cache[k].error

Main ==
    IF page.open \in ListPages THEN ListKey
    ELSE IF page.open = "approvals" THEN QueueKey ELSE DetailKey(page.doc)

(* A document is not answered to who may not read it. *)
Refused(k) == k[2] # 0 /\ ~MayList(me, k[2])

Answer(k) ==
    CASE k = ListKey -> Rows
      [] k = QueueKey -> QueueOf(Rows)
      [] k[1] = "detail" -> {Detail(k[2])}
      [] OTHER -> {e \in past : e.doc = k[2]}

(* Mutant: a fetch that is under way is waited for. *)
JoinsFetch(query, shown) ==
    IF shown THEN [query EXCEPT !.fetch = IF @ = "none" THEN "asked" ELSE @, !.stale = TRUE]
    ELSE [query EXCEPT !.stale = TRUE]

(* invalidateQueries: what is shown is fetched again, and what it waited for   *)
(* is given up; what is not shown is fetched when a page wants it.  The first  *)
(* fetch of an answer is never given up.                                       *)
Invalidate(query, shown) ==
    IF shown THEN [query EXCEPT !.fetch = "asked", !.next = {}, !.stale = TRUE]
    ELSE [query EXCEPT !.stale = TRUE]

Invalidated(keys) ==
    [k \in Keys |-> IF k \in keys /\ cache[k].known THEN Invalidate(cache[k], k \in Shown) ELSE cache[k]]

OfCache == UNCHANGED <<me, page, task, confirmed>> /\ UNCHANGED services

Serve(k) ==
    /\ cache[k].fetch = "asked"
    /\ cache' = [cache EXCEPT ![k].fetch = IF Refused(k) THEN "refused" ELSE "served",
                              ![k].next = IF Refused(k) THEN {} ELSE Answer(k)]
    /\ OfCache /\ UNCHANGED budget

Arrive(k) ==
    /\ cache[k].fetch = "served"
    /\ cache' = [cache EXCEPT ![k] = [NoQuery EXCEPT !.rows = cache[k].next, !.known = TRUE]]
    /\ OfCache /\ UNCHANGED budget

(* The document was refused, or the fetch and its retry fail.  The page of a   *)
(* document and the approvals page then show nothing else, and forget their    *)
(* dialog; a drawer that was open comes back with its page.                    *)
FailFetch(k) ==
    LET blank == page.open \in {"document", "approvals"} /\ k = Main
    IN /\ \/ cache[k].fetch = "refused" /\ UNCHANGED budget
          \/ cache[k].fetch \in {"asked", "served"} /\ Spend("faults")
       /\ cache' = [cache EXCEPT ![k].fetch = "none", ![k].next = {}, ![k].error = TRUE]
       /\ page' = IF blank THEN [page EXCEPT !.dialog = NoDialog] ELSE page
       /\ task' = IF blank THEN [t \in Tasks |-> [task[t] EXCEPT !.here = @ /\ task[t].kind = "drawer"]] ELSE task
       /\ UNCHANGED <<me, confirmed>> /\ UNCHANGED services

(* The window gets the focus and the answer is old, or the user tries again. *)
Refetch(k) ==
    /\ k \in Shown /\ cache[k].fetch = "none"
    /\ Spend("fetches")
    /\ cache' = [cache EXCEPT ![k].fetch = "asked"]
    /\ OfCache

(* What a page needs is fetched when it is not there, when it was invalidated,  *)
(* or when it is old; the page joins a fetch that is under way.                 *)
Mounts(keys) ==
    \E asked \in SUBSET {k \in keys : cache[k].fetch = "none"} :
        /\ \A k \in keys : cache[k].fetch = "none" /\ (cache[k].stale \/ ~cache[k].known \/ cache[k].error)
              => k \in asked
        /\ cache' = [k \in Keys |-> IF k \in asked THEN [cache[k] EXCEPT !.fetch = "asked"] ELSE cache[k]]

Goes(p) == page' = [p EXCEPT !.dialog = NoDialog, !.drawer = {}]

Open(where) ==
    /\ page.open = "closed"
    /\ Spend("visits")
    /\ Goes([page EXCEPT !.open = where, !.filters = DEFAULT_DOCUMENT_FILTERS, !.number = 1])
    /\ Mounts({ListKey})
    /\ UNCHANGED <<me, task, confirmed>> /\ UNCHANGED services

(* The dialog goes with the page; timers and calls go on. *)
Leave ==
    /\ page.open # "closed"
    /\ Goes([page EXCEPT !.open = "closed"])
    /\ task' = [t \in Tasks |-> [task[t] EXCEPT !.here = FALSE]]
    /\ UNCHANGED <<me, cache, confirmed, budget>> /\ UNCHANGED services

-----------------------------------------------------------------------------
(* The page *)
list == cache[ListKey]

Scope(rows) == IF page.open = "mine" THEN {row \in rows : row.owner = me} ELSE rows

Table ==
    IF page.open \in {"documents", "mine"} /\ Usable(ListKey)
      THEN PageOf(Scope(list.rows), page.filters, page.number) ELSE {}

(* The document on its own page. *)
OnPage == IF page.open = "document" /\ Usable(Main) THEN cache[Main].rows ELSE {}

OfPage == UNCHANGED <<me, cache, confirmed>> /\ UNCHANGED services

ChangeFilters(filters) ==
    /\ Table # {} \/ page.filters # DEFAULT_DOCUMENT_FILTERS
    /\ Spend("looks")
    /\ page' = [page EXCEPT !.filters = Normal(filters), !.number = 1]
    /\ OfPage /\ UNCHANGED task

TurnPage(number) ==
    /\ number \in Pages(Scope(list.rows), page.filters)
    /\ Table # {}
    /\ Spend("looks")
    /\ page' = [page EXCEPT !.number = number]
    /\ OfPage /\ UNCHANGED task

OpenDialog(row, a) ==
    /\ page.dialog = NoDialog
    /\ Offered(me, row, a)
    /\ Spend("dialogs")
    /\ page' = [page EXCEPT !.dialog = [doc |-> row.id, action |-> a, busy |-> FALSE]]
    /\ OfPage /\ UNCHANGED task

CancelDialog ==
    /\ page.dialog # NoDialog /\ ~page.dialog.busy
    /\ page' = [page EXCEPT !.dialog = NoDialog]
    /\ OfPage /\ UNCHANGED <<task, budget>>

IsFree(t) == task[t].kind = "free" /\ \A s \in Tasks : s < t => task[s].kind # "free"

Begin(t, kind, pc, a, arg, chosen) ==
    /\ IsFree(t)
    /\ task' = [task EXCEPT ![t] = [NoTask EXCEPT !.kind = kind, !.pc = pc, !.action = a, !.arg = arg,
                                                  !.chosen = chosen, !.todo = chosen, !.here = TRUE]]

(* handleAction; the dialog stays open while the call is under way. *)
Confirm(t) ==
    /\ page.dialog # NoDialog /\ ~page.dialog.busy /\ ~cache[Main].error
    /\ Begin(t, IF page.open = "approvals" THEN "drawer" ELSE "dialog", "running",
             page.dialog.action, None, {page.dialog.doc})
    /\ page' = [page EXCEPT !.dialog.busy = TRUE]
    /\ OfPage /\ UNCHANGED budget

(* The bulk actions, on the selected rows to which the action is offered. *)
Bulk(t, a, rows) ==
    /\ page.dialog = NoDialog
    /\ a # "REJECT" /\ rows # {} /\ \A row \in rows : Offered(me, row, a)
    /\ Spend("bulks")
    /\ Begin(t, "bulk", IF page.open = "documents" THEN "waiting" ELSE "running", a, None, {row.id : row \in rows})
    /\ OfPage /\ UNCHANGED page

-----------------------------------------------------------------------------
(* scheduleDeferredAction, and the loop over the chosen documents *)

OfTask == UNCHANGED <<me, budget>>
OfServices == UNCHANGED services
OfView == UNCHANGED <<cache, page, confirmed>>

Step(t, r) == task' = [task EXCEPT ![t] = r]

(* Mutant: the timer is not cleared. *)
UndoLate(t) ==
    /\ task[t].pc = "waiting" /\ ~task[t].undone
    /\ Step(t, [task[t] EXCEPT !.undone = TRUE])
    /\ OfView /\ OfTask /\ OfServices

Undo(t) ==
    /\ task[t].pc = "waiting"
    /\ Step(t, [task[t] EXCEPT !.undone = TRUE, !.pc = "done"])
    /\ OfView /\ OfTask /\ OfServices

Fire(t) ==
    /\ task[t].pc = "waiting"
    /\ Step(t, [task[t] EXCEPT !.pc = "running"])
    /\ OfView /\ OfTask /\ OfServices

Send(t, d) ==
    /\ task[t].pc = "running" /\ d \in task[t].todo
    /\ Step(t, [task[t] EXCEPT !.pc = "sent", !.doc = d])
    /\ OfView /\ OfTask /\ OfServices

ServeCall(t) ==
    LET r == task[t]
    IN /\ r.pc = "sent"
       /\ IF MayCall(me, r.doc, r.action, r.arg)
            THEN /\ Perform(me, r.doc, r.action, r.arg)
                 /\ Step(t, [r EXCEPT !.pc = "served", !.granted = TRUE,
                                      !.changed = @ \cup {[doc |-> r.doc, stamp |-> now + 1]}])
            ELSE /\ OfServices
                 /\ Step(t, [r EXCEPT !.pc = "served", !.granted = FALSE])
       /\ OfView /\ OfTask

AfterFailure(r) == [r EXCEPT !.pc = "running", !.fail = @ + 1, !.todo = @ \ {r.doc}]

OfDoc(r) == {c \in r.changed : c.doc = r.doc}

(* What a task invalidates: a bulk action the lists, once it has ended; any    *)
(* other its document and, but for a chain, the lists; the drawer the queue.   *)
Touched(r) ==
    CASE r.kind = "bulk" -> {ListKey}
      [] r.kind = "drawer" -> {ListKey, QueueKey} \cup DocKeys(r.doc)
      [] r.kind # "bulk" /\ r.action = "CHAIN" -> DocKeys(r.doc)
      [] OTHER -> {ListKey} \cup DocKeys(r.doc)

(* What the page was told of its own actions, for the answers that it showed   *)
(* and that the action touches.                                                *)
Confirmed(r, told) ==
    [k \in Keys |->
        IF k \in Shown \cap Touched(r) /\ cache[k].known
          THEN [d \in Docs |->
                  IF \E c \in told : c.doc = d THEN (CHOOSE c \in told : c.doc = d).stamp ELSE confirmed[k][d]]
          ELSE confirmed[k]]

(* The answer; any action but a bulk one invalidates what it touched at once. *)
CallAnswered(t) ==
    LET r == task[t]
    IN /\ r.pc = "served"
       /\ Step(t, IF r.granted
                    THEN [r EXCEPT !.pc = "running", !.ok = @ + 1, !.todo = @ \ {r.doc}, !.told = @ \cup OfDoc(r)]
                    ELSE AfterFailure(r))
       /\ IF r.granted /\ r.kind # "bulk"
            THEN cache' = Invalidated(Touched(r)) /\ confirmed' = Confirmed(r, OfDoc(r))
            ELSE UNCHANGED <<cache, confirmed>>
       /\ UNCHANGED page /\ OfTask /\ OfServices

(* The call or its answer is lost. *)
CallFails(t) ==
    /\ task[t].pc \in {"sent", "served"}
    /\ Spend("faults")
    /\ Step(t, AfterFailure(task[t]))
    /\ UNCHANGED me /\ OfView /\ OfServices

(* The end: a bulk action invalidates the list, whatever its calls came to;    *)
(* the drawer closes after a success.                                          *)
Finish(t) ==
    LET r == task[t]
        closed == [page EXCEPT !.number = 1, !.dialog = IF r.kind = "bulk" THEN @ ELSE NoDialog,
                               !.drawer = IF r.ok > 0 THEN {} ELSE @]
    IN /\ r.pc = "running" /\ r.todo = {}
       /\ Step(t, [r EXCEPT !.pc = "done"])
       /\ IF r.kind = "bulk"
            THEN cache' = Invalidated(Touched(r)) /\ confirmed' = Confirmed(r, r.told)
            ELSE UNCHANGED <<cache, confirmed>>
       /\ page' = IF r.here /\ r.kind # "change" THEN closed ELSE page
       /\ OfTask /\ OfServices

TaskStep(t) ==
    \/ Undo(t) \/ Fire(t) \/ ServeCall(t) \/ CallAnswered(t) \/ CallFails(t)
    \/ \E d \in Docs : Send(t, d)

(* A chip is taken away, or a saved view chosen. *)
NextFilters ==
    {ClearFilter(page.filters, k) : k \in ActiveFilters(page.filters)}
      \cup {v.filters : v \in BUILT_IN_DOCUMENT_SAVED_VIEWS}

PageStep ==
    \/ \E filters \in budget.filters \cup NextFilters : ChangeFilters(filters)
    \/ \E number \in 1..Cardinality(Docs) : TurnPage(number)
    \/ \E row \in Table \cup OnPage, a \in L!Actions : OpenDialog(row, a)
    \/ CancelDialog
    \/ \E t \in Tasks : Confirm(t)
    \/ \E t \in Tasks, a \in L!Actions, rows \in SUBSET Table : Bulk(t, a, rows)

CacheStep ==
    \/ \E k \in Keys : Serve(k) \/ Refetch(k)
    \/ \E where \in ListPages \cap budget.pages : Open(where)

=============================================================================
