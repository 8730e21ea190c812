---------------------------- MODULE DocumentPage ----------------------------
(***************************************************************************)
(* The pages of one document and of the approvals, added to the pages of   *)
(* the lists: what the user keeps open on them beside the answers in the   *)
(* cache (the editor of the approval chain, the versions to compare, the   *)
(* preview and its loads), the drawer in which a queued document is        *)
(* decided, and the calls that change a document without moving it.  The   *)
(* confirmation of such a call is part of asking for it.                   *)
(***************************************************************************)
EXTENDS DocumentsPage

CONSTANT Waits  \* how long the documents may have been queued

ASSUME WaitsAssumption == Waits \subseteq [Docs -> Nat]

(* What the services keep of a document beside its versions. *)
DocRow == [status : Statuses \cup {"NONE", "PURGED"}, chain : Seq(Users), step : Nat, hold : BOOLEAN,
           publishedAt : Nat, archivedAt : Nat, deletedAt : Nat]

MetaType == [level : Levels, dlp : DlpStates, retention : Deadlines, tags : SUBSET Tags, file : Names \cup {NoFile},
             shared : BOOLEAN, described : BOOLEAN]

(* How often each thing may still happen: bounds of the model. *)
Counters == {"others", "fetches", "visits", "looks", "dialogs", "bulks", "faults", "changes", "edits", "previews"}

(* A scenario starts with documents of the services, on a page that there is. *)
ASSUME ScenarioAssumption ==
    \A s \in Scenarios :
        /\ 1 \in Docs
        /\ s.users \subseteq Users /\ s.docs \subseteq [Docs -> DocRow]
        /\ s.metas \subseteq [Docs -> MetaType] /\ s.files \subseteq [Docs -> Seq(FileType)]
        /\ s.open \in ListPages \cup {"document", "approvals"}
        /\ DOMAIN s.budget = Counters \cup {"pages", "visited", "approvals", "filters", "changing", "chains", "files"}
        /\ \A what \in Counters : s.budget[what] \in Nat
        /\ s.budget.visited \subseteq Docs /\ s.budget.files \subseteq FileType
        /\ s.budget.chains \subseteq Seq(Users \cup {Blank})

VARIABLE desk   \* the editor, the comparison and the preview of the page of a document

vars == <<me, doc, meta, files, past, stamp, now, cache, page, task, confirmed, budget, desk>>

(* chosen is the previewed version, 0 when there is none; of is the version    *)
(* that the viewer shows.                                                      *)
NewDesk == [editing |-> FALSE, draft |-> <<>>, compare |-> <<>>, chosen |-> 0, view |-> "none", of |-> 0, loads |-> <<>>]

-----------------------------------------------------------------------------
(* The pages *)
OpenDocument(d) ==
    /\ page.open = "closed" /\ d \in budget.visited
    /\ Spend("visits")
    /\ Goes([page EXCEPT !.open = "document", !.doc = d])
    /\ Mounts(DocKeys(d))
    /\ UNCHANGED <<me, task, confirmed>> /\ UNCHANGED services

(* canViewApprovals *)
OpenApprovals ==
    /\ page.open = "closed" /\ "approval" \in Sees(me) /\ budget.approvals
    /\ Spend("visits")
    /\ Goes([page EXCEPT !.open = "approvals"])
    /\ Mounts({QueueKey})
    /\ UNCHANGED <<me, task, confirmed>> /\ UNCHANGED services

(* A row of any page of the queue. *)
Queued == IF page.open = "approvals" /\ Usable(QueueKey) THEN cache[QueueKey].rows ELSE {}

(* The drawer shows the row as it was when it was clicked, and the history. *)
OpenDrawer(row) ==
    /\ page.drawer = {}
    /\ Spend("looks")
    /\ page' = [page EXCEPT !.drawer = {row}]
    /\ Mounts({HistoryKey(row.id)})
    /\ UNCHANGED <<me, task, confirmed>> /\ UNCHANGED services

CloseDrawer ==
    /\ page.drawer # {} /\ page.dialog = NoDialog
    /\ page' = [page EXCEPT !.drawer = {}]
    /\ OfPage /\ UNCHANGED <<task, budget>>

Deciding == \E t \in Tasks : task[t].kind = "drawer" /\ task[t].pc # "done" /\ task[t].here

(* Both decisions are always offered; no second one while one is under way. *)
Decide(row, a) ==
    /\ Usable(QueueKey) /\ page.dialog = NoDialog /\ ~Deciding
    /\ Spend("dialogs")
    /\ page' = [page EXCEPT !.dialog = [doc |-> row.id, action |-> a, busy |-> FALSE]]
    /\ OfPage /\ UNCHANGED task

-----------------------------------------------------------------------------
(* Changes of a document on its page *)
IsClear == page.dialog = NoDialog /\ desk.chosen = 0

Underway(changes) ==
    \E t \in Tasks : task[t].kind = "change" /\ task[t].here /\ task[t].pc # "done" /\ task[t].action \in changes

Holds == {"HOLD", "RELEASE"}

SetLegalHold(t, x, change) ==
    /\ change \in HoldOffers(me, x) /\ ~Underway(Holds)
    /\ Spend("changes")
    /\ Begin(t, "change", "running", change, None, {x.id})
    /\ OfPage /\ UNCHANGED <<page, desk>>

RestoreVersion(t, x, v) ==
    /\ v \in Restorable(me, x) /\ ~Underway({"RESTORE"})
    /\ Spend("changes")
    /\ Begin(t, "change", "running", "RESTORE", v, {x.id})
    /\ OfPage /\ UNCHANGED <<page, desk>>

UploadFile(t, x, file) ==
    /\ "UPLOAD" \in PageActions(me, x) /\ ~Underway({"UPLOAD"})
    /\ Spend("changes")
    /\ Begin(t, "change", "running", "UPLOAD", file, {x.id})
    /\ OfPage /\ UNCHANGED <<page, desk>>

(* The editor of the chain, which starts from the chain that is shown. *)
OfDesk == OfPage /\ UNCHANGED <<page, task>>

EditChain(x) ==
    /\ CanEditChain(me, x) /\ ~desk.editing
    /\ desk' = [desk EXCEPT !.editing = TRUE, !.draft = ChainDraft(x.chain)]
    /\ OfDesk /\ UNCHANGED budget

Redraft(draft) ==
    /\ desk.editing
    /\ Spend("edits")
    /\ desk' = [desk EXCEPT !.draft = draft]
    /\ OfDesk

Unedited(dk) == [dk EXCEPT !.editing = FALSE, !.draft = <<>>]

CancelEdit ==
    /\ desk.editing
    /\ desk' = Unedited(desk)
    /\ OfDesk /\ UNCHANGED budget

SaveChain(t, x) ==
    /\ desk.editing /\ CanSave(desk.draft) /\ ~Underway({"CHAIN"})
    /\ Begin(t, "change", "running", "CHAIN", Normalized(desk.draft), {x.id})
    /\ OfPage /\ UNCHANGED <<page, desk, budget>>

Compare(x, v) ==
    /\ v \in DOMAIN x.versions
    /\ Spend("looks")
    /\ desk' = [desk EXCEPT !.compare = ToggleCompare(@, v)]
    /\ OfDesk

-----------------------------------------------------------------------------
(* The preview *)

(* Whoever waits for an earlier load waits no more. *)
Cancelled(loads) == [i \in DOMAIN loads |-> [loads[i] EXCEPT !.live = FALSE]]

Loading(dk, v) ==
    [dk EXCEPT !.chosen = v, !.view = "loading", !.of = 0,
               !.loads = Append(Cancelled(@), [version |-> v, live |-> TRUE, done |-> FALSE])]

Unloaded(dk) == [dk EXCEPT !.view = "none", !.of = 0, !.loads = Cancelled(@)]

ChoosePreview(x, v) ==
    /\ v \in DOMAIN x.versions /\ Posture(MayPreview(me, x), x.versions[v]) = "supported"
    /\ Spend("previews")
    /\ desk' = Loading(desk, v)
    /\ OfDesk

ClosePreview ==
    /\ OnPage # {} /\ desk.chosen # 0
    /\ desk' = [Unloaded(desk) EXCEPT !.chosen = 0]
    /\ OfDesk /\ UNCHANGED budget

(* Mutant: the load does not look whether it was cancelled. *)
LandedLate(i, view) ==
    [desk EXCEPT !.loads[i].done = TRUE, !.view = view, !.of = desk.loads[i].version]

Landed(i, view) ==
    LET load == desk.loads[i]
        after == [desk EXCEPT !.loads[i].done = TRUE]
    IN IF load.live THEN [after EXCEPT !.view = view, !.of = load.version] ELSE after

(* The service answers the file, or refuses it. *)
LoadAnswered(i) ==
    /\ ~desk.loads[i].done
    /\ desk' = Landed(i, IF MayList(me, page.doc) /\ MayPreview(me, Detail(page.doc))
                           THEN Viewer(files[page.doc][desk.loads[i].version]) ELSE "error")
    /\ OfDesk /\ UNCHANGED budget

(* It fails, or takes more than twenty seconds. *)
LoadFails(i) ==
    /\ ~desk.loads[i].done
    /\ Spend("faults")
    /\ desk' = Landed(i, "error")
    /\ OfDesk

(* The cards of a page that fails forget what was open on them; the preview    *)
(* stays chosen, and is loaded again when the page is back.                    *)
Blanked(dk) == [Unloaded(Unedited(dk)) EXCEPT !.compare = <<>>]

PageFails(k) ==
    /\ FailFetch(k)
    /\ desk' = IF page.open = "document" /\ k = Main THEN Blanked(desk) ELSE desk

PageArrives(k) ==
    /\ Arrive(k)
    /\ desk' = IF page.open = "document" /\ k = Main /\ ~Usable(k) /\ desk.chosen # 0
                 THEN Loading(desk, desk.chosen) ELSE desk

(* The editor closes when its chain was saved. *)
Ends(t) ==
    /\ Finish(t)
    /\ desk' = IF task[t].action = "CHAIN" /\ task[t].here /\ task[t].ok > 0
                 THEN Unedited(desk) ELSE desk

-----------------------------------------------------------------------------
OnDocument(x) ==
    \/ IsClear /\ EditChain(x)
    \/ IsClear /\ \E v \in DOMAIN x.versions : Compare(x, v) \/ ChoosePreview(x, v)
    \/ IsClear /\ \E t \in Tasks :
          \/ SaveChain(t, x)
          \/ \E change \in Holds : SetLegalHold(t, x, change)
          \/ \E file \in budget.files : UploadFile(t, x, file)
          \/ \E v \in DOMAIN x.versions : RestoreVersion(t, x, v)

OnDesk ==
    \/ \E x \in OnPage : OnDocument(x)
    \/ ClosePreview
    \/ \E i \in DOMAIN desk.loads : LoadAnswered(i) \/ LoadFails(i)
    \/ OnPage # {} /\ IsClear /\ (CancelEdit \/ \E draft \in Redrafts(desk.draft, Approvers) : Redraft(draft))

OnApprovals ==
    \/ \E row \in Queued : OpenDrawer(row)
    \/ CloseDrawer
    \/ \E row \in page.drawer, a \in {"APPROVE", "REJECT"} : Decide(row, a)

(* What the others do. *)
OthersStep ==
    \E u \in Users, d \in Docs :
        \/ \E a \in L!Actions : OtherActs(u, d, a, None)
        \/ \E change \in budget.changing \cap Holds : OtherActs(u, d, change, None)
        \/ \E chain \in budget.chains : OtherActs(u, d, "CHAIN", chain)
        \/ \E file \in budget.files : OtherActs(u, d, "UPLOAD", file)
        \/ "RESTORE" \in budget.changing /\ \E v \in DOMAIN files[d] : OtherActs(u, d, "RESTORE", v)

(* The documents page is open, or the page of document 1, or the approvals,    *)
(* and what it shows was fetched.                                              *)
Init ==
    /\ \E s \in Scenarios :
          /\ me \in s.users /\ doc \in s.docs /\ meta \in s.metas /\ files \in s.files /\ budget = s.budget
          /\ page = [open |-> s.open, doc |-> 1, filters |-> DEFAULT_DOCUMENT_FILTERS, number |-> 1,
                     dialog |-> NoDialog, drawer |-> {}]
    /\ past = {}
    /\ stamp = [d \in Docs |-> d]
    /\ now = Cardinality(Docs)
    /\ cache = [k \in Keys |-> IF k \in Shown \cup {ListKey} THEN [NoQuery EXCEPT !.rows = Answer(k), !.known = TRUE]
                               ELSE NoQuery]
    /\ task = [t \in Tasks |-> NoTask]
    /\ confirmed = [k \in Keys |-> [d \in Docs |-> 0]]
    /\ desk = NewDesk

Next ==
    \/ (OthersStep \/ PageStep \/ CacheStep \/ OnApprovals \/ \E t \in Tasks : TaskStep(t)) /\ UNCHANGED desk
    \/ \E t \in Tasks : Ends(t)
    \/ \E k \in Keys : PageFails(k) \/ PageArrives(k)
    \/ Leave /\ desk' = NewDesk
    \/ (OpenApprovals \/ \E d \in Docs : OpenDocument(d)) /\ UNCHANGED desk
    \/ OnDesk

Spec == Init /\ [][Next]_vars

-----------------------------------------------------------------------------
(* Properties *)

(* Every variable has its type, a task is at a step of its kind, and what it   *)
(* has still to do was chosen.                                                 *)
PageTypeOK ==
    /\ me \in Users
    /\ list.rows \cup list.next \cup cache[QueueKey].rows \cup page.drawer \subseteq RowType
    /\ page.open \in ListPages \cup {"closed", "document", "approvals"}
    /\ page.drawer # {} => page.open = "approvals"
    /\ desk # [NewDesk EXCEPT !.loads = desk.loads] => page.open = "document"
    /\ \A d \in Docs : \A i \in DOMAIN files[d] : files[d][i] \in FileType
    /\ \A t \in Tasks :
          /\ task[t].pc \in {"idle", "waiting", "running", "sent", "served", "done"}
          /\ task[t].todo \subseteq task[t].chosen /\ task[t].chosen \subseteq Docs

(* Whatever the filter or the order, the pages of the queue show each of its   *)
(* rows once, in the order of priority none that is overdue comes after one    *)
(* that is not, and the cards count each row once.                             *)
QueueOrdered(rows, waited) ==
    LET summary == SlaSummary(rows, waited)
        last == 1..Cardinality(rows)
        shows(filter, sort, n) == QueuePage(rows, filter, sort, n, waited)
    IN /\ \A filter \in SlaFilters, sort \in SlaSorts : filter = "all" \/ sort = "priority" =>
             /\ UNION {shows(filter, sort, n) : n \in last} = SlaRows(rows, filter, waited)
             /\ \A n \in last : Cardinality(shows(filter, sort, n)) <= PageSize
       /\ \A n \in last : \A k \in 1..n - 1 :
             shows("all", "priority", n) \cap summary.overdue # {}
                => shows("all", "priority", k) \subseteq summary.overdue
       /\ Cardinality(summary.overdue) + Cardinality(summary.due_soon) + Cardinality(summary.on_track)
             = Cardinality(rows)

(* No tag of the row has an empty segment. *)
Filed(row) == \A t \in row.tags : Path(t) = Segments[t]

NumbersAgree ==
    LET rows == list.rows
        see == Sees(me)
        listed(tile) == Listed(rows, Parse(tile.link))
    IN /\ \A tile \in CommandCenter(rows, BUILT_IN_DOCUMENT_SAVED_VIEWS, see) :
             /\ \/ tile.key = "legal-hold"
                \/ tile.key = "retention-due-soon"
                     /\ tile.rows = {row \in listed(tile) : row.status # "ARCHIVED"}
                \/ tile.rows = listed(tile)
             /\ \A widget \in OperationalWidgets(rows, see) :
                   widget.key = tile.key => widget.rows = tile.rows
       /\ \A v \in ActiveSavedViews(BUILT_IN_DOCUMENT_SAVED_VIEWS, page.filters) :
             Listed(rows, v.filters) = Listed(rows, page.filters)
       /\ \A folder \in FolderTree(rows) :
             {row \in FolderNode(rows, folder) : Filed(row)} \subseteq Listed(rows, Filters("folder", folder))
       /\ \A term \in Suggestions(rows, see) \ {Term("has", "legal-hold")} :
             Listed(rows, Filters("search", {term})) # {}
       /\ GaugeRows(rows, see) = UNION {tile.rows : tile \in AttentionSegments(rows, see)}
       /\ GaugeRows(rows, see \ {"sensitive"}) = UNION {w.rows : w \in DashboardAttention(rows, see)}

(* The cards of one document, computed apart, tell the same of its DLP result, *)
(* its retention, its current version and its publication; and the next step   *)
(* that is recommended leads to no page that the links leave out.              *)
CardsAgree(x, history) ==
    LET ready == Readiness(x)
    IN /\ {FindingsCard(x).suggested # "none", "security" \in EvidenceLinks(x), "dlp" \in PostureRows(x)}
             = {x.dlp = "DETECTED"}
       /\ {"retention" \in EvidenceLinks(x), "retention" \in PostureRows(x), ready.retention = "complete"}
             = {x.retention # "unset"}
       /\ ReadinessStatus(x) = "ready" => EvidenceLinks(x) \cap {"security"} = {} /\ CurrentVersion(x) > 0
       /\ MetadataSummary(x).date = "Published" => StageEvidence(x, history, "PUBLISHED") # {}
       /\ CurrentVersion(x) > 0 => MetadataSummary(x).checksum = x.versions[CurrentVersion(x)].sum
       /\ OpensNext(me, x) /\ NextAction(x) \in {"security", "retention", "evidence"} =>
             /\ "evidence-links" \in Cards(me, x)
             /\ NextAction(x) = "security" => "security" \in EvidenceLinks(x)

(* A number on the documents page counts the rows that its link lists, though  *)
(* the two are computed apart; what is suggested finds something, the gauge    *)
(* takes away exactly the rows of the cues that are shown, and the dashboard   *)
(* has the same numbers, and the same attention but for holds                  *)
(* (document-command-center.ts:125, dashboard-model.ts:116).  Excepted are the *)
(* tile of legal holds, whose search finds nothing, and archived documents,    *)
(* which are due soon only for the search.  The folders count no row that they *)
(* do not list, but for tags with empty segments (folder-tree.ts:52).  The     *)
(* approval queue is in order (approval-sla.ts:93, :185,                       *)
(* approvals/page.tsx:56), and so are the cards of a document                  *)
(* (document-detail-presentation.ts:103, document-approval-readiness.ts:68).   *)
CountsAgree ==
    /\ page.open \in ListPages => NumbersAgree
    /\ \A x \in OnPage : CardsAgree(x, cache[HistoryKey(x.id)].rows)
    /\ page.open = "approvals" => \A waited \in Waits : QueueOrdered(cache[QueueKey].rows, waited)

(* The same with nothing excepted.  Refuted: no search finds a legal hold.     *)
EveryCountAgrees ==
    \A tile \in CommandCenter(list.rows, BUILT_IN_DOCUMENT_SAVED_VIEWS, Sees(me)) :
        tile.rows = Listed(list.rows, Parse(tile.link))

(* A folder lists the rows that it counts, whatever their tags.  Refuted:      *)
(* "/finance/q1" is counted in finance/q1, which does not list it              *)
(* (folder-tree.ts:16, :52).                                                   *)
FoldersListed ==
    \A folder \in FolderTree(list.rows) :
        FolderNode(list.rows, folder) \subseteq Listed(list.rows, Filters("folder", folder))

(* The feed tells each change once.  Refuted for whoever reads the audit log:  *)
(* the actions that are left out of it are not named as the services name them *)
(* (activity-feed.ts:27, status.service.ts:129).                               *)
ToldOnce ==
    \A x \in OnPage :
        LET history == cache[HistoryKey(x.id)].rows
            feed == Feed(me, history, {AuditEvent(e) : e \in history})
        IN \A e \in history : Cardinality({item \in feed : item.of \in {e, AuditEvent(e)}}) = 1

(* As long as a document has not been written since it was fetched, the pages  *)
(* offer on it exactly what the services grant, but for an approver whose turn *)
(* has not come and for a chain that was begun; the work queue of the          *)
(* dashboard sends nobody to a decision or a submission that is not theirs,    *)
(* and the chain card names the approver whose turn it is (permissions.ts:317, *)
(* workflow.service.ts:65, dashboard-model.ts:333, approval-chain.ts:22).      *)
OffersGranted ==
    /\ \A row \in list.rows \cup OnPage : stamp[row.id] = row.stamp =>
          \A a \in L!Actions :
              /\ MayAct(me, row.id, a) => Offered(me, row, a)
              /\ Offered(me, row, a) =>
                    MayAct(me, row.id, a) \/ (a = "APPROVE" /\ L!Bound(me, row.id) /\ ~L!MyTurn(me, row.id))
    /\ \A row \in list.rows : stamp[row.id] = row.stamp /\ row \in WorkQueue(me, list.rows) =>
              /\ QueueLabel(me, row, list.rows) = "Review decision" => Offered(me, row, "APPROVE")
              /\ QueueLabel(me, row, list.rows) = "Prepare submission" => Offered(me, row, "SUBMIT")
    /\ \A x \in OnPage : stamp[x.id] = x.stamp =>
          /\ \A change \in HoldOffers(me, x) : MayChange(me, x.id, change, None)
          /\ Restorable(me, x) = {v \in DOMAIN files[x.id] : MayChange(me, x.id, "RESTORE", v)}
          /\ \A u \in Approvers : (CanEditChain(me, x) /\ x.step = 0) <=> MayChange(me, x.id, "CHAIN", <<u>>)
          /\ x.status = "PENDING" =>
                CurrentApprovers(x) = {u \in Users : L!MyTurn(u, x.id)}

(* A bulk action that was undone has changed nothing, and one that has ended   *)
(* has an outcome for every document that was chosen: it reports no success    *)
(* that was none, and what it reports as failed is all that may have changed   *)
(* beside it (deferred-action.ts:47, documents/page.tsx:251).                  *)
BulkAccounted ==
    \A t \in Tasks :
        LET r == task[t]
            documents == {c.doc : c \in r.changed}
        IN /\ r.undone => r.changed = {}
           /\ r.pc = "done" /\ ~r.undone =>
                /\ r.ok + r.fail = Cardinality(r.chosen)
                /\ r.ok <= Cardinality(documents) /\ documents \subseteq r.chosen

(* What the open page shows, when it neither waits for it nor failed to get it *)
ShownNow == {k \in Shown : cache[k].known /\ cache[k].fetch = "none" /\ ~cache[k].error}

Rowed(k) == IF k[1] = "history" THEN {} ELSE cache[k].rows

(* When the open page neither waits for an answer nor failed to get it, no row *)
(* of it is older than an action of the user's own that touches the answer and *)
(* was confirmed while it was shown, a document that they deleted is not       *)
(* listed, and the history has what they did: whatever was on its way at that  *)
(* time is not shown after it.  The timeline's current stage then shows the    *)
(* change that led to it (workflow.hooks.ts:20, documents/page.tsx:268,        *)
(* document-detail-presentation.ts:202).                                       *)
OwnActionsShown ==
    \A k \in ShownNow :
        /\ \A row \in Rowed(k) : row.stamp >= confirmed[k][row.id]
        /\ k[1] = "history" =>
              /\ \A e \in past : e.doc = k[2] /\ e.stamp <= confirmed[k][k[2]] => e \in cache[k].rows
              /\ \A x \in OnPage :
                    LET shown == {e \in cache[k].rows : e.stamp <= x.stamp}
                        stages == Timeline(x, shown)
                        last == {e \in shown : \A other \in shown : other.stamp <= e.stamp}
                    IN \A i \in DOMAIN stages :
                         stages[i].state = "current" /\ last # {} /\ {e \in past : e.doc = x.id /\ e.stamp <= x.stamp} = shown
                            => stages[i].evidence = last

(* The same of every action, wherever the user was when it was confirmed.      *)
(* Refuted: a fetch that a page left behind marks the list as fresh, and the   *)
(* approval queue is not fetched again after a decision on another page.       *)
EveryActionShown ==
    \A k \in ShownNow : \A row \in Rowed(k), t \in Tasks :
        task[t].pc = "done" => \A c \in task[t].told : c.doc = row.id => row.stamp >= c.stamp

(* The preview shows the version that is chosen, whatever loads of other       *)
(* versions are still under way; it waits for exactly one of them; a version   *)
(* that was announced as supported is shown unless it is too large; the        *)
(* versions compared are there, and one that was restored differs from its     *)
(* source in nothing but who made it (document-preview-dialog.tsx:163,         *)
(* document-versions-card.tsx:65, version-diff.ts:38).                         *)
PreviewShown ==
    LET waiting == {i \in DOMAIN desk.loads : desk.loads[i].live /\ ~desk.loads[i].done}
    IN /\ desk.view \in {"text", "pdf", "image", "docx", "markdown", "unsupported"} =>
             /\ desk.chosen # 0 /\ desk.of = desk.chosen
             /\ desk.view = "unsupported" => files[page.doc][desk.chosen].large
       /\ desk.view = "loading" <=> waiting # {}
       /\ Cardinality(waiting) <= 1
       /\ \A t \in Tasks : \A c \in task[t].changed : task[t].action = "RESTORE" =>
             LET versions == files[c.doc]
             IN \E w \in DOMAIN versions :
                   w > task[t].arg /\ VersionDiff(versions[task[t].arg], versions[w]) \subseteq {"by"}
       /\ \A x \in OnPage : Seqs!ToSet(desk.compare) \subseteq DOMAIN x.versions /\ Len(desk.compare) <= 2
=============================================================================
