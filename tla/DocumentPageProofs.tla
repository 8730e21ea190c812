--------------------------- MODULE DocumentPageProofs ---------------------------
(***************************************************************************)
(* For any users, documents, tasks and budgets: bulk actions account for   *)
(* every document, the pages show the user's own actions once they were    *)
(* told of them, the preview shows the version that is chosen, what is     *)
(* offered is what the services grant, and a number on a page counts what  *)
(* its link lists.                                                         *)
(*                                                                         *)
(* The services only add: a version stays where it is, a change of status  *)
(* stays in the history, and updatedAt grows (Grows).  So what an answer   *)
(* told stays true of the moment it tells of, whoever acts meanwhile.  A   *)
(* fetch that began before an action was confirmed is given up, and what   *)
(* is asked after it has the action (CacheInv).  A task takes one document *)
(* at a time from what it has still to do (TasksInv); the loads that a     *)
(* preview no longer waits for are all but the last (DeskInv).  A row that *)
(* was not overtaken by a write is the document that is stored (OffersInv). *)
(* A number and the search that it links to are one predicate on rows of   *)
(* documents that can be listed (CountsInv).                               *)
(***************************************************************************)
EXTENDS DocumentPage, FiniteSetTheorems, SequenceTheorems, NaturalsInduction, WellFoundedInduction, TLAPS

-----------------------------------------------------------------------------
(* The services: what is stored, and the history of it.  Chains are whatever  *)
(* was configured.                                                            *)
Stored(row) ==
    row \in [status : Statuses \cup {"NONE", "PURGED"}, chain : {row.chain}, step : Nat, hold : BOOLEAN,
             publishedAt : Nat, archivedAt : Nat, deletedAt : Nat]

(* The history of a document up to a write of it, and the last change in it.  *)
UpTo(d, n) == {e \in past : e.doc = d /\ e.stamp <= n}

Latest(events) == {e \in events : \A other \in events : other.stamp <= e.stamp}

ServicesInv ==
    /\ me \in Users
    /\ doc = [d \in Docs |-> doc[d]] /\ \A d \in Docs : Stored(doc[d])
    /\ meta \in [Docs -> MetaType]
    /\ files \in [Docs -> Seq(FileType)]
    /\ now \in Nat /\ stamp \in [Docs -> Nat] /\ \A d \in Docs : stamp[d] <= now
    /\ \A e \in past : e.doc \in Docs /\ e.stamp \in Nat /\ e.stamp <= stamp[e.doc]
    /\ \A e \in past : e.to \in Statuses
    /\ \A d \in Docs : \A e \in Latest(UpTo(d, stamp[d])) : e.to = doc[d].status
    /\ DOMAIN budget = Counters \cup {"pages", "visited", "approvals", "filters", "changing", "chains", "files"}
    /\ budget.visited \subseteq Docs /\ budget.files \subseteq FileType

(* The answers: a row of a document tells of a moment that is not over, or of  *)
(* one that is; its versions are the first of the document's.                  *)
RowInv(row) == row.id \in Docs /\ row.stamp \in Nat

DetailInv(d, x) ==
    /\ x.id = d /\ x.stamp \in Nat /\ x.stamp <= stamp[d]
    /\ x.versions \in Seq(FileType) /\ Len(x.versions) <= Len(files[d])
    /\ \A i \in 1..Len(x.versions) : x.versions[i] = files[d][i]
    /\ x.status \in Statuses \cup {"NONE", "PURGED"}
    /\ \A e \in Latest(UpTo(d, x.stamp)) : e.to = x.status

Query(q) ==
    q \in [rows : {q.rows}, known : BOOLEAN, fetch : {"none", "asked", "served", "refused"}, next : {q.next},
           stale : BOOLEAN, error : BOOLEAN]

(* What an answer must have of the user's own actions. *)
Fresh(k, rows) ==
    IF k[1] = "history"
      THEN \A e \in past : e.doc = k[2] /\ e.stamp <= confirmed[k][k[2]] => e \in rows
      ELSE \A row \in rows : row.stamp >= confirmed[k][row.id]

CacheInv ==
    /\ cache = [k \in Keys |-> cache[k]] /\ \A k \in Keys : Query(cache[k])
    /\ \A row \in list.rows \cup list.next \cup cache[QueueKey].rows \cup cache[QueueKey].next : RowInv(row)
    /\ \A d \in Docs :
          LET detail == cache[DetailKey(d)]
          IN /\ \A x \in detail.rows \cup detail.next : DetailInv(d, x)
             /\ \A x, y \in detail.rows : x = y
             /\ \A x, y \in detail.next : x = y
             /\ \A e \in cache[HistoryKey(d)].rows \cup cache[HistoryKey(d)].next : e \in past /\ e.doc = d
    /\ confirmed \in [Keys -> [Docs -> Nat]]
    /\ \A k \in Keys, d \in Docs : confirmed[k][d] <= stamp[d]
    /\ \A k \in Keys :
          /\ cache[k].fetch = "served" => Fresh(k, cache[k].next)
          /\ cache[k].fetch = "none" /\ cache[k].known /\ ~cache[k].error => Fresh(k, cache[k].rows)
    /\ \A d \in Docs : \A x \in cache[DetailKey(d)].rows, y \in cache[DetailKey(d)].next :
          cache[DetailKey(d)].fetch = "served" => Len(x.versions) <= Len(y.versions)
    /\ \A d \in Docs : cache[DetailKey(d)].fetch = "served" => cache[DetailKey(d)].next # {}

PageInv ==
    /\ page \in [open : ListPages \cup {"closed", "document", "approvals"}, doc : Docs, filters : {page.filters},
                 number : {page.number}, dialog : {page.dialog}, drawer : {page.drawer}]
    /\ page.dialog = NoDialog \/ page.dialog \in [doc : Docs, action : L!Actions, busy : BOOLEAN]
    /\ \A row \in page.drawer : row.id \in Docs

(* A task: the documents that are done are counted, and only they and the one   *)
(* that is being done may have changed.                                         *)
DocsOf(changes) == {c.doc : c \in changes}

TaskType(kind, a, arg, chosen, changed) ==
    [kind : {kind}, pc : {"idle", "waiting", "running", "sent", "served", "done"}, action : {a},
     arg : {arg}, chosen : SUBSET Docs, todo : SUBSET chosen, doc : Docs \cup {None},
     granted : BOOLEAN, here : BOOLEAN, undone : BOOLEAN, ok : Nat, fail : Nat,
     changed : {changed}, told : SUBSET changed]

TaskInv(r) ==
    /\ r \in TaskType(r.kind, r.action, r.arg, r.chosen, r.changed)
    /\ r.action = "UPLOAD" => r.arg \in FileType
    /\ \A c \in r.changed : c.doc \in r.chosen /\ c.stamp \in Nat /\ c.stamp <= stamp[c.doc]
    /\ r.pc \in {"sent", "served"} => r.doc \in r.todo
    /\ r.pc \in {"idle", "waiting"} => r.changed = {} /\ r.ok = 0 /\ r.fail = 0 /\ r.todo = r.chosen
    /\ r.undone => r.pc = "done" /\ r.changed = {}
    /\ r.pc = "done" /\ ~r.undone => r.todo = {}
    /\ ~r.undone => r.ok + r.fail = Cardinality(r.chosen \ r.todo)
    /\ r.ok <= Cardinality(DocsOf(r.changed) \ r.todo)
    /\ r.pc = "served" /\ r.granted => r.doc \in DocsOf(r.changed)
    /\ DocsOf(r.changed) \cap r.todo \subseteq IF r.pc = "served" THEN {r.doc} ELSE {}
    /\ r.action = "RESTORE" => \A c \in r.changed :
          \E w \in 1..Len(files[c.doc]) :
             r.arg \in 1..w - 1 /\ VersionDiff(files[c.doc][r.arg], files[c.doc][w]) \subseteq {"by"}

TasksInv == task = [t \in Tasks |-> task[t]] /\ \A t \in Tasks : TaskInv(task[t])

(* The desk: only the last load may still be waited for, it is of the version   *)
(* that is chosen, and that version can be shown; the versions compared are     *)
(* versions of the document that is shown.                                      *)
LoadType == [version : Nat, live : BOOLEAN, done : BOOLEAN]

Viewers == {"text", "pdf", "image", "docx", "markdown", "unsupported"}

DeskType(draft) ==
    [editing : BOOLEAN, draft : {draft}, compare : Seq(Nat), chosen : Nat,
     view : Viewers \cup {"none", "loading", "error"}, of : Nat, loads : Seq(LoadType)]

Awaited(load) == load.live /\ ~load.done

PreviewInv(dk, d) ==
    /\ dk \in DeskType(dk.draft)
    /\ \A i \in 1..Len(dk.loads) :
          /\ dk.loads[i].version \in 1..Len(files[d])
          /\ dk.loads[i].live => i = Len(dk.loads) /\ dk.loads[i].version = dk.chosen
    /\ dk.view = "loading" <=> \E i \in 1..Len(dk.loads) : Awaited(dk.loads[i])
    /\ dk.view \in Viewers => dk.chosen # 0 /\ dk.of = dk.chosen
    /\ dk.chosen # 0 =>
          /\ dk.chosen \in 1..Len(files[d])
          /\ PreviewSupported(files[d][dk.chosen])
          /\ dk.view = "unsupported" => files[d][dk.chosen].large

CompareInv(compare, d) ==
    /\ Len(compare) <= 2
    /\ compare # <<>> =>
          /\ Usable(DetailKey(d))
          /\ \E x \in cache[DetailKey(d)].rows : \A i \in 1..Len(compare) : compare[i] \in 1..Len(x.versions)

DeskInv ==
    /\ PreviewInv(desk, page.doc) /\ CompareInv(desk.compare, page.doc)
    /\ page.open # "document" => desk = NewDesk

LibraryInv == ServicesInv /\ CacheInv /\ PageInv /\ TasksInv /\ DeskInv
-----------------------------------------------------------------------------
(* Facts about the keys, the rows and the actions.                            *)
LEMMA KeyFacts ==
    /\ ListKey \in Keys /\ QueueKey \in Keys
    /\ \A d \in Docs : DetailKey(d) \in Keys /\ HistoryKey(d) \in Keys
    /\ \A k \in Keys : \/ k = ListKey \/ k = QueueKey
                       \/ \E d \in Docs : k = DetailKey(d)
                       \/ \E d \in Docs : k = HistoryKey(d)
BY DEF Keys, DocKeys

LEMMA KeysDiffer ==
    /\ ListKey # QueueKey /\ ListKey[1] # "history" /\ QueueKey[1] # "history"
    /\ ListKey[1] # "detail" /\ QueueKey[1] # "detail"
    /\ \A d : DetailKey(d) # ListKey /\ DetailKey(d) # QueueKey /\ DetailKey(d)[1] = "detail"
              /\ DetailKey(d)[2] = d
    /\ \A d : HistoryKey(d) # ListKey /\ HistoryKey(d) # QueueKey /\ HistoryKey(d)[1] = "history"
              /\ HistoryKey(d)[2] = d
    /\ \A c, d : DetailKey(c) # HistoryKey(d)
BY DEF ListKey, QueueKey, DetailKey, HistoryKey

LEMMA RowFacts ==
    \A d : /\ Row(d).id = d /\ Row(d).stamp = stamp[d] /\ Row(d).status = doc[d].status
           /\ Detail(d).id = d /\ Detail(d).stamp = stamp[d] /\ Detail(d).status = doc[d].status
           /\ Detail(d).versions = files[d]
BY DEF Row, Detail

LEMMA ActionFacts ==
    /\ L!Actions = WorkflowActions
    /\ \A a \in L!Actions : L!TRANSITION_MAP[a].to \in Statuses
    /\ {"HOLD", "RELEASE", "CHAIN", "UPLOAD", "RESTORE"} \cap L!Actions = {}
BY DEF L!Actions, L!TRANSITION_MAP, L!Edge, Statuses, WorkflowActions

LEMMA DocsFacts == IsFiniteSet(Docs) /\ Docs \subseteq Nat
BY PageAssumption, FS_CardinalityType

-----------------------------------------------------------------------------
(* What the services do.                                                      *)
Grows ==
    /\ \A d \in Docs :
          /\ stamp[d] <= stamp'[d] /\ stamp'[d] \in Nat
          /\ files'[d] \in Seq(FileType) /\ Len(files[d]) <= Len(files'[d])
          /\ \A i \in 1..Len(files[d]) : files'[d][i] = files[d][i]
    /\ past \subseteq past' /\ \A e \in past' : e \in past \/ e.stamp > stamp[e.doc]

(* A call writes one document, which stays a document.                        *)
LEMMA PerformRow ==
    ASSUME ServicesInv, NEW u, NEW d \in Docs, NEW a, NEW arg
    PROVE  LET row == IF a \in L!Actions THEN Acted(u, d, a) ELSE Changed(d, a, arg)
           IN Stored(row)
<1>1. PICK c : doc[d] \in [status : Statuses \cup {"NONE", "PURGED"}, chain : {c}, step : Nat, hold : BOOLEAN,
                           publishedAt : Nat, archivedAt : Nat, deletedAt : Nat]
  BY DEF ServicesInv, Stored
<1>2. CASE a \in L!Actions
  <2>1. Stored([doc[d] EXCEPT !.step = @ + 1])
    BY <1>1 DEF Stored
  <2>2. Stored(L!Moved(doc[d], a, 1))
    BY <1>1, <1>2, ActionFacts DEF Stored, L!Moved
  <2> QED
    BY <1>2, <2>1, <2>2 DEF Acted
<1>3. Stored(Changed(d, a, arg))
  <2>1. \A n : Stored([doc[d] EXCEPT !.chain = n, !.step = 0])
    BY <1>1 DEF Stored
  <2>2. Stored([doc[d] EXCEPT !.hold = TRUE]) /\ Stored([doc[d] EXCEPT !.hold = FALSE])
    BY <1>1 DEF Stored
  <2>3. Stored(doc[d])
    BY DEF ServicesInv
  <2> QED
    BY <2>1, <2>2, <2>3, Zenon DEF Changed
<1> QED
  BY <1>2, <1>3

LEMMA PerformFiles ==
    ASSUME ServicesInv, NEW u \in Users, NEW d \in Docs, NEW a, NEW arg,
           MayCall(u, d, a, arg), a = "UPLOAD" => arg \in FileType
    PROVE  /\ FilesAfter(u, d, a, arg) \in Seq(FileType)
           /\ Len(files[d]) <= Len(FilesAfter(u, d, a, arg))
           /\ \A i \in 1..Len(files[d]) : FilesAfter(u, d, a, arg)[i] = files[d][i]
           /\ a = "RESTORE" => /\ arg \in 1..Len(files[d])
                               /\ FilesAfter(u, d, a, arg) = Append(files[d], Restored(u, files[d][arg]))
<1>1. files[d] \in Seq(FileType) /\ u \in Names
  BY PageAssumption DEF ServicesInv
<1>2. \A f \in FileType : [f EXCEPT !.by = u] \in FileType
  BY <1>1 DEF FileType
<1>3. a = "RESTORE" => arg \in 1..Len(files[d])
  <2>1. a = "RESTORE" => MayChange(u, d, a, arg)
    BY ActionFacts DEF MayCall
  <2>2. a = "RESTORE" => arg \in DOMAIN files[d]
    BY <2>1 DEF MayChange
  <2> QED
    BY <1>1, <2>2
<1>4. CASE a = "UPLOAD"
  <2>1. FilesAfter(u, d, a, arg) = Append(files[d], [arg EXCEPT !.by = u])
    BY <1>4 DEF FilesAfter
  <2> QED
    BY <1>1, <1>2, <1>4, <2>1
<1>5. CASE a = "RESTORE"
  <2>1. FilesAfter(u, d, a, arg) = Append(files[d], Restored(u, files[d][arg]))
    BY <1>5 DEF FilesAfter
  <2>2. Restored(u, files[d][arg]) \in FileType
    BY <1>1, <1>2, <1>3, <1>5 DEF Restored
  <2> QED
    BY <1>1, <1>3, <1>5, <2>1, <2>2
<1>6. CASE a \notin {"UPLOAD", "RESTORE"}
  <2>1. FilesAfter(u, d, a, arg) = files[d]
    BY <1>6 DEF FilesAfter
  <2> QED
    BY <1>1, <1>6, <2>1
<1> QED
  BY <1>4, <1>5, <1>6

LEMMA PerformMeta ==
    ASSUME ServicesInv, NEW d \in Docs, NEW a, NEW arg, a = "UPLOAD" => arg \in FileType
    PROVE  MetaAfter(d, a, arg) \in MetaType
<1>1. meta[d] \in MetaType
  BY DEF ServicesInv
<1>2. CASE a = "UPLOAD"
  <2> DEFINE level == IF arg.scan = "DETECTED" /\ meta[d].level \in {"PUBLIC", "INTERNAL"}
                        THEN "CONFIDENTIAL" ELSE meta[d].level
  <2>1. MetaAfter(d, a, arg) = [meta[d] EXCEPT !.dlp = arg.scan, !.level = level]
    BY <1>1, <1>2 DEF MetaAfter, MetaType
  <2>2. level \in Levels /\ arg.scan \in DlpStates
    BY <1>1, <1>2 DEF MetaType, Levels, FileType
  <2> HIDE DEF level
  <2> QED
    BY <1>1, <2>1, <2>2 DEF MetaType
<1>3. CASE a # "UPLOAD"
  BY <1>1, <1>3 DEF MetaAfter
<1> QED
  BY <1>2, <1>3

LEMMA PerformGrows ==
    ASSUME ServicesInv, NEW u \in Users, NEW d \in Docs, NEW a, NEW arg,
           MayCall(u, d, a, arg), a = "UPLOAD" => arg \in FileType, Perform(u, d, a, arg)
    PROVE  Grows
<1> DEFINE row == IF a \in L!Actions THEN Acted(u, d, a) ELSE Changed(d, a, arg)
           new == [doc |-> d, from |-> doc[d].status, to |-> row.status, action |-> a, stamp |-> now + 1]
<1>1. /\ now \in Nat /\ stamp \in [Docs -> Nat] /\ \A c \in Docs : stamp[c] <= now
      /\ files \in [Docs -> Seq(FileType)]
  BY DEF ServicesInv
<1>2. stamp' = [stamp EXCEPT ![d] = now + 1] /\ files' = [files EXCEPT ![d] = FilesAfter(u, d, a, arg)]
  BY DEF Perform
<1>3. past \subseteq past' /\ \A e \in past' : e \in past \/ e = new
  BY Zenon DEF Perform
<1>4. new.doc = d /\ new.stamp = now + 1
  OBVIOUS
<1>5. \A c \in Docs : stamp[c] <= stamp'[c] /\ stamp'[c] \in Nat
  BY <1>1, <1>2
<1>6. \A c \in Docs : /\ files'[c] \in Seq(FileType) /\ Len(files[c]) <= Len(files'[c])
                      /\ \A i \in 1..Len(files[c]) : files'[c][i] = files[c][i]
  <2>1. \A c \in Docs : c # d => files'[c] = files[c]
    BY <1>1, <1>2
  <2>2. files'[d] = FilesAfter(u, d, a, arg)
    BY <1>1, <1>2
  <2>3. /\ FilesAfter(u, d, a, arg) \in Seq(FileType) /\ Len(files[d]) <= Len(FilesAfter(u, d, a, arg))
        /\ \A i \in 1..Len(files[d]) : FilesAfter(u, d, a, arg)[i] = files[d][i]
    BY PerformFiles
  <2>4. /\ files'[d] \in Seq(FileType) /\ Len(files[d]) <= Len(files'[d])
        /\ \A i \in 1..Len(files[d]) : files'[d][i] = files[d][i]
    BY <2>2, <2>3
  <2>5. ASSUME NEW c \in Docs, c # d
        PROVE  /\ files'[c] \in Seq(FileType) /\ Len(files[c]) <= Len(files'[c])
               /\ \A i \in 1..Len(files[c]) : files'[c][i] = files[c][i]
    <3>1. files'[c] = files[c] /\ files[c] \in Seq(FileType) /\ Len(files[c]) \in Nat
      BY <1>1, <2>1, <2>5
    <3> QED
      BY <3>1
  <2> QED
    BY <2>4, <2>5
<1>7. now + 1 > stamp[d]
  BY <1>1
<1> HIDE DEF new
<1> QED
  BY <1>3, <1>4, <1>5, <1>6, <1>7 DEF Grows

LEMMA PerformStatus ==
    ASSUME ServicesInv, NEW u, NEW d \in Docs, NEW a, NEW arg
    PROVE  LET row == IF a \in L!Actions THEN Acted(u, d, a) ELSE Changed(d, a, arg)
           IN row.status # doc[d].status => row.status \in Statuses
<1>1. doc[d] \in [status : Statuses \cup {"NONE", "PURGED"}, chain : {doc[d].chain}, step : Nat, hold : BOOLEAN,
                  publishedAt : Nat, archivedAt : Nat, deletedAt : Nat]
  BY DEF ServicesInv, Stored
<1>2. CASE a \notin L!Actions
  <2>1. Changed(d, a, arg).status = doc[d].status
    BY <1>1 DEF Changed
  <2> QED
    BY <1>2, <2>1
<1>3. CASE a \in L!Actions
  <2>1. [doc[d] EXCEPT !.step = @ + 1].status = doc[d].status
    BY <1>1
  <2>2. L!Moved(doc[d], a, 1).status = L!TRANSITION_MAP[a].to
    BY <1>1 DEF L!Moved
  <2> QED
    BY <1>3, <2>1, <2>2, ActionFacts DEF Acted
<1> QED
  BY <1>2, <1>3

LEMMA PerformServices ==
    ASSUME ServicesInv, NEW u \in Users, NEW d \in Docs, NEW a, NEW arg,
           MayCall(u, d, a, arg), a = "UPLOAD" => arg \in FileType, Perform(u, d, a, arg), me' = me,
           DOMAIN budget' = DOMAIN budget, budget'.visited = budget.visited, budget'.files = budget.files
    PROVE  ServicesInv'
<1> DEFINE row == IF a \in L!Actions THEN Acted(u, d, a) ELSE Changed(d, a, arg)
           new == [doc |-> d, from |-> doc[d].status, to |-> row.status, action |-> a, stamp |-> now + 1]
<1>1. /\ now \in Nat /\ stamp \in [Docs -> Nat] /\ \A c \in Docs : stamp[c] <= now
      /\ files \in [Docs -> Seq(FileType)] /\ meta \in [Docs -> MetaType]
      /\ doc = [c \in Docs |-> doc[c]] /\ \A c \in Docs : Stored(doc[c])
      /\ \A e \in past : e.doc \in Docs /\ e.stamp \in Nat /\ e.stamp <= stamp[e.doc]
      /\ \A e \in past : e.to \in Statuses
      /\ \A c \in Docs : \A e \in Latest(UpTo(c, stamp[c])) : e.to = doc[c].status
  BY DEF ServicesInv
<1>2. Stored(row)
  BY PerformRow
<1>3. /\ doc' = [doc EXCEPT ![d] = row]
      /\ files' = [files EXCEPT ![d] = FilesAfter(u, d, a, arg)]
      /\ meta' = [meta EXCEPT ![d] = MetaAfter(d, a, arg)]
      /\ now' = now + 1
      /\ stamp' = [stamp EXCEPT ![d] = now + 1]
  BY DEF Perform
<1>4. past' = past \cup {new : s \in {row.status} \ {doc[d].status}}
  BY DEF Perform
<1>5. \A e \in past' : e \in past \/ e = new
  BY <1>4
<1>6. row.status # doc[d].status => new \in past'
  BY <1>4
<1>7. row.status = doc[d].status => past' = past
  BY <1>4
<1>8. new.doc = d /\ new.stamp = now + 1 /\ new.to = row.status
  OBVIOUS
<1> HIDE DEF row, new
<1>9. doc' = [c \in Docs |-> doc'[c]] /\ \A c \in Docs : Stored(doc'[c])
  BY <1>1, <1>2, <1>3
<1>10. doc'[d] = row /\ stamp'[d] = now + 1 /\ \A c \in Docs : c # d => doc'[c] = doc[c] /\ stamp'[c] = stamp[c]
  BY <1>1, <1>3
<1>15. \A c \in Docs : stamp[c] <= stamp'[c] /\ stamp[c] \in Nat /\ stamp'[c] \in Nat
  <2>1. \A c \in Docs : c # d => stamp[c] <= stamp'[c]
    BY <1>1, <1>10
  <2>2. stamp[d] <= stamp'[d]
    BY <1>1, <1>10
  <2> QED
    BY <1>1, <1>3, <2>1, <2>2
<1>11. meta' \in [Docs -> MetaType] /\ files' \in [Docs -> Seq(FileType)]
  BY <1>1, <1>3, PerformMeta, PerformFiles
<1>12. now' \in Nat /\ stamp' \in [Docs -> Nat] /\ \A c \in Docs : stamp'[c] <= now'
  BY <1>1, <1>3
<1>13. \A e \in past' : e.doc \in Docs /\ e.stamp \in Nat /\ e.stamp <= stamp'[e.doc]
  <2>1. ASSUME NEW e \in past PROVE e.doc \in Docs /\ e.stamp \in Nat /\ e.stamp <= stamp'[e.doc]
    <3>1. e.doc \in Docs /\ e.stamp \in Nat /\ e.stamp <= stamp[e.doc] /\ stamp[e.doc] <= now
      BY <1>1
    <3> QED
      BY <1>15, <3>1
  <2> QED
    BY <1>1, <1>5, <1>8, <1>10, <2>1
<1>14. ASSUME NEW c \in Docs, NEW e \in Latest(UpTo(c, stamp[c]))'
       PROVE  e.to = doc'[c].status
  <2>1. /\ e \in past' /\ e.doc = c /\ e.stamp <= stamp'[c]
        /\ \A other \in past' : other.doc = c /\ other.stamp <= stamp'[c] => other.stamp <= e.stamp
    BY DEF Latest, UpTo
  <2>2. ASSUME e \in past, c # d \/ row.status = doc[d].status PROVE e \in Latest(UpTo(c, stamp[c]))
    <3>1. e.stamp <= stamp[c]
      BY <1>1, <2>1, <2>2
    <3>2. ASSUME NEW other \in UpTo(c, stamp[c]) PROVE other.stamp <= e.stamp
      <4>1. other \in past' /\ other.doc = c /\ other.stamp <= stamp[c]
        BY <1>4 DEF UpTo
      <4>2. stamp[c] <= stamp'[c] /\ other.stamp \in Nat
        BY <1>13, <1>15, <4>1
      <4>3. other.stamp <= stamp'[c]
        BY <1>15, <4>1, <4>2
      <4> QED
        BY <2>1, <4>1, <4>3
    <3> QED
      BY <2>1, <2>2, <3>1, <3>2 DEF Latest, UpTo
  <2>3. CASE c # d
    <3>1. e \in past
      BY <1>5, <1>8, <2>1, <2>3
    <3> QED
      BY <1>1, <1>10, <2>2, <2>3, <3>1
  <2>4. CASE c = d /\ row.status = doc[d].status
    <3>1. e \in past
      BY <1>7, <2>1, <2>4
    <3> QED
      BY <1>1, <1>10, <2>2, <2>4, <3>1
  <2>5. CASE c = d /\ row.status # doc[d].status
    <3>1. new.stamp <= e.stamp
      BY <1>1, <1>6, <1>8, <1>10, <2>1, <2>5
    <3>2. e \notin past
      BY <1>1, <1>8, <2>1, <2>5, <3>1
    <3> QED
      BY <1>5, <1>8, <1>10, <2>1, <2>5, <3>2
  <2> QED
    BY <2>3, <2>4, <2>5
<1>16. \A e \in past' : e.to \in Statuses
  <2>1. row.status # doc[d].status => row.status \in Statuses
    BY PerformStatus DEF row
  <2> QED
    BY <1>1, <1>5, <1>7, <1>8, <2>1
<1> QED
  BY <1>9, <1>11, <1>12, <1>13, <1>14, <1>16 DEF ServicesInv

LEMMA SpendKeeps ==
    ASSUME NEW what \in Counters, Spend(what), ServicesInv
    PROVE  /\ DOMAIN budget' = DOMAIN budget /\ budget'.visited = budget.visited /\ budget'.files = budget.files
           /\ budget'.chains = budget.chains
<1>1. what \notin {"visited", "files", "chains"} /\ {"visited", "files", "chains"} \subseteq DOMAIN budget
  BY DEF Counters, ServicesInv
<1> QED
  BY <1>1 DEF Spend

(* Every step leaves the services alone, or is one call of somebody's.        *)
Call ==
    \E u \in Users, d \in Docs : \E a, arg :
        /\ MayCall(u, d, a, arg) /\ (a = "UPLOAD" => arg \in FileType)
        /\ a = "CHAIN" => arg \in budget.chains \/ \E t \in Tasks : task[t].action = "CHAIN" /\ arg = task[t].arg
        /\ Perform(u, d, a, arg)

BudgetKept ==
    /\ DOMAIN budget' = DOMAIN budget /\ budget'.visited = budget.visited /\ budget'.files = budget.files
    /\ budget'.chains = budget.chains

LEMMA StepKeeps ==
    ASSUME ServicesInv, TasksInv, [Next]_vars
    PROVE  me' = me /\ BudgetKept /\ (Call \/ UNCHANGED services)
<1> DEFINE Quiet == me' = me /\ BudgetKept /\ UNCHANGED services
           Goal == me' = me /\ BudgetKept /\ (Call \/ UNCHANGED services)
<1>1. \A what \in Counters : Spend(what) => BudgetKept
  BY SpendKeeps DEF BudgetKept
<1>2. /\ Spend("others") => BudgetKept
      /\ Spend("fetches") => BudgetKept
      /\ Spend("visits") => BudgetKept
      /\ Spend("looks") => BudgetKept
      /\ Spend("dialogs") => BudgetKept
      /\ Spend("bulks") => BudgetKept
      /\ Spend("faults") => BudgetKept
      /\ Spend("changes") => BudgetKept
      /\ Spend("edits") => BudgetKept
      /\ Spend("previews") => BudgetKept
  BY <1>1 DEF Counters
<1>3. UNCHANGED budget => BudgetKept
  BY DEF BudgetKept
<1>4. ASSUME NEW u \in Users, NEW d \in Docs, NEW a, NEW arg, OtherActs(u, d, a, arg),
             a = "UPLOAD" => arg \in FileType, a = "CHAIN" => arg \in budget.chains
      PROVE  Goal
  BY <1>2, <1>4 DEF OtherActs, Call
<1>5. ASSUME OthersStep PROVE Goal
  <2>1. PICK u \in Users, d \in Docs :
           \/ \E a \in L!Actions : OtherActs(u, d, a, None)
           \/ \E change \in budget.changing \cap Holds : OtherActs(u, d, change, None)
           \/ \E chain \in budget.chains : OtherActs(u, d, "CHAIN", chain)
           \/ \E file \in budget.files : OtherActs(u, d, "UPLOAD", file)
           \/ "RESTORE" \in budget.changing /\ \E v \in DOMAIN files[d] : OtherActs(u, d, "RESTORE", v)
    BY <1>5 DEF OthersStep
  <2>2. "UPLOAD" \notin L!Actions \cup Holds /\ "CHAIN" \notin L!Actions \cup Holds
    BY ActionFacts DEF Holds
  <2>3. budget.files \subseteq FileType
    BY DEF ServicesInv
  <2> QED
    BY <1>4, <2>1, <2>2, <2>3
<1>6. ASSUME PageStep PROVE Quiet
  <2>1. ASSUME NEW filters, ChangeFilters(filters) PROVE Quiet
    BY <1>2, <2>1 DEF ChangeFilters, OfPage
  <2>2. ASSUME NEW number, TurnPage(number) PROVE Quiet
    BY <1>2, <2>2 DEF TurnPage, OfPage
  <2>3. ASSUME NEW row, NEW a, OpenDialog(row, a) PROVE Quiet
    BY <1>2, <2>3 DEF OpenDialog, OfPage
  <2>4. ASSUME CancelDialog PROVE Quiet
    BY <1>3, <2>4 DEF CancelDialog, OfPage
  <2>5. ASSUME NEW t, Confirm(t) PROVE Quiet
    BY <1>3, <2>5 DEF Confirm, OfPage
  <2>6. ASSUME NEW t, NEW a, NEW rows, Bulk(t, a, rows) PROVE Quiet
    BY <1>2, <2>6 DEF Bulk, OfPage
  <2> QED
    BY <1>6, <2>1, <2>2, <2>3, <2>4, <2>5, <2>6 DEF PageStep
<1>7. ASSUME CacheStep PROVE Quiet
  <2>1. ASSUME NEW k, Serve(k) PROVE Quiet
    BY <1>3, <2>1 DEF Serve, OfCache
  <2>2. ASSUME NEW k, Refetch(k) PROVE Quiet
    BY <1>2, <2>2 DEF Refetch, OfCache
  <2>3. ASSUME NEW where, Open(where) PROVE Quiet
    BY <1>2, <2>3 DEF Open
  <2> QED
    BY <1>7, <2>1, <2>2, <2>3 DEF CacheStep
<1>8. ASSUME OnApprovals PROVE Quiet
  <2>1. ASSUME NEW row, OpenDrawer(row) PROVE Quiet
    BY <1>2, <2>1 DEF OpenDrawer
  <2>2. ASSUME CloseDrawer PROVE Quiet
    BY <1>3, <2>2 DEF CloseDrawer, OfPage
  <2>3. ASSUME NEW row, NEW a, Decide(row, a) PROVE Quiet
    BY <1>2, <2>3 DEF Decide, OfPage
  <2> QED
    BY <1>8, <2>1, <2>2, <2>3 DEF OnApprovals
<1>9. ASSUME NEW t \in Tasks, ServeCall(t) PROVE Goal
  <2> DEFINE r == task[t]
  <2>1. r.pc = "sent" /\ me' = me /\ UNCHANGED budget
    BY <1>9 DEF ServeCall, OfTask
  <2>2. \/ MayCall(me, r.doc, r.action, r.arg) /\ Perform(me, r.doc, r.action, r.arg)
        \/ UNCHANGED services
    BY <1>9, Zenon DEF ServeCall, OfServices
  <2>3. me \in Users /\ r.doc \in Docs /\ (r.action = "UPLOAD" => r.arg \in FileType)
    BY <2>1 DEF ServicesInv, TasksInv, TaskInv, TaskType
  <2> QED
    BY <1>3, <2>1, <2>2, <2>3 DEF Call
<1>10. ASSUME NEW t \in Tasks, TaskStep(t) PROVE Goal
  <2>1. ASSUME Undo(t) \/ Fire(t) \/ CallAnswered(t) PROVE Quiet
    BY <1>3, <2>1 DEF Undo, Fire, CallAnswered, OfTask, OfServices
  <2>2. ASSUME CallFails(t) PROVE Quiet
    BY <1>2, <2>2 DEF CallFails, OfServices
  <2>3. ASSUME NEW d, Send(t, d) PROVE Quiet
    BY <1>3, <2>3 DEF Send, OfTask, OfServices
  <2> QED
    BY <1>9, <1>10, <2>1, <2>2, <2>3 DEF TaskStep
<1>11. ASSUME NEW t, Ends(t) PROVE Quiet
  BY <1>3, <1>11 DEF Ends, Finish, OfTask, OfServices
<1>12. ASSUME NEW k, PageFails(k) \/ PageArrives(k) PROVE Quiet
  <2>1. ASSUME FailFetch(k) PROVE Quiet
    BY <1>2, <1>3, <2>1 DEF FailFetch
  <2>2. ASSUME Arrive(k) PROVE Quiet
    BY <1>3, <2>2 DEF Arrive, OfCache
  <2> QED
    BY <1>12, <2>1, <2>2 DEF PageFails, PageArrives
<1>13. ASSUME Leave PROVE Quiet
  BY <1>3, <1>13 DEF Leave
<1>14. ASSUME OpenApprovals \/ \E d \in Docs : OpenDocument(d) PROVE Quiet
  BY <1>2, <1>14, Zenon DEF OpenApprovals, OpenDocument
<1>15. ASSUME NEW x, OnDocument(x) PROVE Quiet
  <2>1. ASSUME EditChain(x) PROVE Quiet
    BY <1>3, <2>1 DEF EditChain, OfDesk, OfPage
  <2>2. ASSUME NEW v, Compare(x, v) \/ ChoosePreview(x, v) PROVE Quiet
    BY <1>2, <2>2 DEF Compare, ChoosePreview, OfDesk, OfPage
  <2>3. ASSUME NEW t, SaveChain(t, x) PROVE Quiet
    BY <1>3, <2>3 DEF SaveChain, OfPage
  <2>4. ASSUME NEW t, NEW c, SetLegalHold(t, x, c) \/ UploadFile(t, x, c) \/ RestoreVersion(t, x, c) PROVE Quiet
    BY <1>2, <2>4 DEF SetLegalHold, UploadFile, RestoreVersion, OfPage
  <2> QED
    BY <1>15, <2>1, <2>2, <2>3, <2>4 DEF OnDocument
<1>16. ASSUME OnDesk PROVE Quiet
  <2>1. ASSUME ClosePreview \/ CancelEdit PROVE Quiet
    BY <1>3, <2>1 DEF ClosePreview, CancelEdit, OfDesk, OfPage
  <2>2. ASSUME NEW i, LoadAnswered(i) PROVE Quiet
    BY <1>3, <2>2 DEF LoadAnswered, OfDesk, OfPage
  <2>3. ASSUME NEW i, LoadFails(i) PROVE Quiet
    BY <1>2, <2>3 DEF LoadFails, OfDesk, OfPage
  <2>4. ASSUME NEW draft, Redraft(draft) PROVE Quiet
    BY <1>2, <2>4 DEF Redraft, OfDesk, OfPage
  <2> QED
    BY <1>15, <1>16, <2>1, <2>2, <2>3, <2>4 DEF OnDesk
<1>17. ASSUME UNCHANGED vars PROVE Quiet
  BY <1>3, <1>17 DEF vars, services
<1> HIDE DEF Quiet
<1>18. Quiet => Goal
  BY DEF Quiet
<1> HIDE DEF Goal
<1>19. ASSUME Next PROVE Goal
  BY <1>5, <1>6, <1>7, <1>8, <1>10, <1>11, <1>12, <1>13, <1>14, <1>16, <1>18, <1>19, Zenon DEF Next
<1>20. Goal
  BY <1>17, <1>18, <1>19
<1> QED
  BY <1>20 DEF Goal

LEMMA ServicesStep ==
    ASSUME ServicesInv, TasksInv, [Next]_vars
    PROVE  ServicesInv' /\ Grows
<1>1. me' = me /\ BudgetKept /\ (Call \/ UNCHANGED services)
  BY StepKeeps
<1>2. CASE Call
  BY <1>1, <1>2, PerformGrows, PerformServices DEF Call, BudgetKept
<1>3. CASE UNCHANGED services
  <2>1. me' = me /\ DOMAIN budget' = DOMAIN budget /\ budget'.visited = budget.visited /\ budget'.files = budget.files
    BY <1>1 DEF BudgetKept
  <2>2. UNCHANGED <<doc, meta, files, past, stamp, now>>
    BY <1>3 DEF services
  <2>3. ServicesInv'
    BY <2>1, <2>2 DEF ServicesInv, Latest, UpTo
  <2>4. Grows
    BY <2>2 DEF ServicesInv, Grows
  <2> QED
    BY <2>3, <2>4
<1> QED
  BY <1>1, <1>2, <1>3
-----------------------------------------------------------------------------
(* The tasks.                                                                 *)
LEMMA TaskFields ==
    ASSUME NEW r, TaskInv(r)
    PROVE  /\ r.chosen \subseteq Docs /\ r.todo \subseteq r.chosen /\ r.ok \in Nat /\ r.fail \in Nat
           /\ r.told \subseteq r.changed /\ r.doc \in Docs \cup {None}
           /\ DocsOf(r.changed) \subseteq r.chosen
           /\ IsFiniteSet(r.chosen) /\ IsFiniteSet(r.chosen \ r.todo) /\ IsFiniteSet(DocsOf(r.changed))
           /\ Cardinality(r.chosen) \in Nat /\ Cardinality(DocsOf(r.changed) \ r.todo) \in Nat
           /\ IsFiniteSet(DocsOf(r.changed) \ r.todo)
<1>1. /\ r.chosen \subseteq Docs /\ r.todo \subseteq r.chosen /\ r.ok \in Nat /\ r.fail \in Nat
      /\ r.told \subseteq r.changed /\ r.doc \in Docs \cup {None}
  BY DEF TaskInv, TaskType
<1>2. DocsOf(r.changed) \subseteq r.chosen
  BY DEF TaskInv, DocsOf
<1>3. IsFiniteSet(r.chosen)
  BY <1>1, DocsFacts, FS_Subset
<1>4. IsFiniteSet(r.chosen \ r.todo) /\ IsFiniteSet(DocsOf(r.changed)) /\ IsFiniteSet(DocsOf(r.changed) \ r.todo)
  BY <1>2, <1>3, FS_Subset
<1> QED
  BY <1>1, <1>2, <1>3, <1>4, FS_CardinalityType

(* What a task has, it keeps as the documents are written.                    *)
LEMMA TaskStays ==
    ASSUME Grows, ServicesInv, NEW r, TaskInv(r)
    PROVE  TaskInv(r)'
<1>1. \A c \in r.changed : c.doc \in Docs /\ c.stamp \in Nat /\ c.stamp <= stamp'[c.doc]
  <2>1. ASSUME NEW c \in r.changed PROVE c.doc \in Docs /\ c.stamp \in Nat /\ c.stamp <= stamp[c.doc]
    BY TaskFields DEF TaskInv, TaskType
  <2>2. ASSUME NEW c \in r.changed PROVE c.stamp <= stamp'[c.doc]
    <3>1. stamp[c.doc] \in Nat /\ stamp'[c.doc] \in Nat /\ stamp[c.doc] <= stamp'[c.doc]
      BY <2>1 DEF Grows, ServicesInv
    <3> QED
      BY <2>1, <3>1
  <2> QED
    BY <2>1, <2>2
<1>2. ASSUME r.action = "RESTORE", NEW c \in r.changed
      PROVE  \E w \in 1..Len(files'[c.doc]) :
               r.arg \in 1..w - 1 /\ VersionDiff(files'[c.doc][r.arg], files'[c.doc][w]) \subseteq {"by"}
  <2>1. c.doc \in Docs
    BY <1>1
  <2>2. PICK w \in 1..Len(files[c.doc]) :
           r.arg \in 1..w - 1 /\ VersionDiff(files[c.doc][r.arg], files[c.doc][w]) \subseteq {"by"}
    BY <1>2 DEF TaskInv, TaskType
  <2>3. files[c.doc] \in Seq(FileType) /\ files'[c.doc] \in Seq(FileType) /\ Len(files[c.doc]) <= Len(files'[c.doc])
        /\ \A i \in 1..Len(files[c.doc]) : files'[c.doc][i] = files[c.doc][i]
    BY <2>1 DEF Grows, ServicesInv
  <2>4. Len(files[c.doc]) \in Nat /\ Len(files'[c.doc]) \in Nat
    BY <2>3
  <2>5. r.arg \in 1..Len(files[c.doc]) /\ w \in 1..Len(files'[c.doc])
    BY <2>2, <2>3, <2>4
  <2>6. files'[c.doc][r.arg] = files[c.doc][r.arg] /\ files'[c.doc][w] = files[c.doc][w]
    BY <2>2, <2>3, <2>5
  <2> QED
    BY <2>2, <2>5, <2>6
<1> QED
  BY <1>1, <1>2 DEF TaskInv, TaskType

LEMMA NewTask ==
    ASSUME NEW kind, NEW pc \in {"waiting", "running"}, NEW a, NEW arg, NEW chosen \in SUBSET Docs,
           a = "UPLOAD" => arg \in FileType
    PROVE  TaskInv([NoTask EXCEPT !.kind = kind, !.pc = pc, !.action = a, !.arg = arg,
                                  !.chosen = chosen, !.todo = chosen, !.here = TRUE])
<1> DEFINE n == [NoTask EXCEPT !.kind = kind, !.pc = pc, !.action = a, !.arg = arg,
                               !.chosen = chosen, !.todo = chosen, !.here = TRUE]
<1>1. /\ n.kind = kind /\ n.pc = pc /\ n.action = a /\ n.arg = arg /\ n.chosen = chosen /\ n.todo = chosen
      /\ ~n.undone /\ n.ok = 0 /\ n.fail = 0 /\ n.changed = {}
  BY DEF NoTask
<1>2. n \in TaskType(kind, a, arg, chosen, {})
  BY Zenon DEF NoTask, TaskType
<1>3. Cardinality(chosen \ chosen) = 0 /\ DocsOf({}) = {} /\ Cardinality({} \ chosen) = 0
  BY FS_EmptySet DEF DocsOf
<1> HIDE DEF n
<1>4. TaskInv(n)
  BY <1>1, <1>2, <1>3 DEF TaskInv
<1> QED
  BY <1>4 DEF n

LEMMA FreeTask == TaskInv(NoTask)
<1> DEFINE n == NoTask
<1>1. /\ n.kind = "free" /\ n.pc = "idle" /\ n.action = "NONE" /\ n.arg = None /\ n.chosen = {} /\ n.todo = {}
      /\ ~n.undone /\ n.ok = 0 /\ n.fail = 0 /\ n.changed = {}
  BY DEF NoTask
<1>2. n \in TaskType("free", "NONE", None, {}, {})
  BY DEF NoTask, TaskType
<1>3. Cardinality({} \ {}) = 0 /\ DocsOf({}) = {}
  BY FS_EmptySet DEF DocsOf
<1> HIDE DEF n
<1>4. TaskInv(n)
  BY <1>1, <1>2, <1>3 DEF TaskInv
<1> QED
  BY <1>4 DEF n

LEMMA HereTask ==
    ASSUME NEW r, TaskInv(r), NEW here \in BOOLEAN
    PROVE  TaskInv([r EXCEPT !.here = here])
BY DEF TaskInv, TaskType

LEMMA UndoneTask ==
    ASSUME NEW r, TaskInv(r), r.pc = "waiting"
    PROVE  TaskInv([r EXCEPT !.undone = TRUE, !.pc = "done"])
BY DEF TaskInv, TaskType

LEMMA FiredTask ==
    ASSUME NEW r, TaskInv(r), r.pc = "waiting"
    PROVE  TaskInv([r EXCEPT !.pc = "running"])
BY DEF TaskInv, TaskType

LEMMA SentTask ==
    ASSUME NEW r, TaskInv(r), r.pc = "running", NEW d \in r.todo
    PROVE  TaskInv([r EXCEPT !.pc = "sent", !.doc = d])
BY TaskFields DEF TaskInv, TaskType

LEMMA DoneTask ==
    ASSUME NEW r, TaskInv(r), r.pc = "running", r.todo = {}
    PROVE  TaskInv([r EXCEPT !.pc = "done"])
BY DEF TaskInv, TaskType

LEMMA RefusedTask ==
    ASSUME NEW r, TaskInv(r), r.pc = "sent"
    PROVE  TaskInv([r EXCEPT !.pc = "served", !.granted = FALSE])
BY DEF TaskInv, TaskType

(* When a call has ended, one document fewer is to do.                        *)
LEMMA OneLess ==
    ASSUME NEW r, TaskInv(r), r.pc \in {"sent", "served"}
    PROVE  /\ Cardinality(r.chosen \ (r.todo \ {r.doc})) = r.ok + r.fail + 1
           /\ r.ok <= Cardinality(DocsOf(r.changed) \ (r.todo \ {r.doc}))
           /\ r.pc = "served" /\ r.granted => r.ok + 1 <= Cardinality(DocsOf(r.changed) \ (r.todo \ {r.doc}))
           /\ DocsOf(r.changed) \cap (r.todo \ {r.doc}) = {}
<1>1. /\ r.doc \in r.todo /\ r.todo \subseteq r.chosen /\ ~r.undone
      /\ r.ok + r.fail = Cardinality(r.chosen \ r.todo)
      /\ r.ok <= Cardinality(DocsOf(r.changed) \ r.todo)
      /\ r.pc = "served" /\ r.granted => r.doc \in DocsOf(r.changed)
      /\ DocsOf(r.changed) \cap r.todo \subseteq {r.doc}
  BY DEF TaskInv, TaskType
<1>2. r.chosen \ (r.todo \ {r.doc}) = (r.chosen \ r.todo) \cup {r.doc}
  BY <1>1
<1>3. Cardinality(r.chosen \ (r.todo \ {r.doc})) = Cardinality(r.chosen \ r.todo) + 1
  BY <1>1, <1>2, TaskFields, FS_AddElement, ZenonT(60)
<1> DEFINE before == DocsOf(r.changed) \ r.todo
           after == DocsOf(r.changed) \ (r.todo \ {r.doc})
<1>4. IsFiniteSet(before) /\ IsFiniteSet(after) /\ before \subseteq after
  BY TaskFields, FS_Subset
<1>5. Cardinality(before) <= Cardinality(after) /\ Cardinality(before) \in Nat /\ Cardinality(after) \in Nat
  BY <1>4, FS_Subset, FS_CardinalityType
<1>6. r.pc = "served" /\ r.granted => after = before \cup {r.doc} /\ r.doc \notin before
  BY <1>1
<1>7. r.pc = "served" /\ r.granted => Cardinality(after) = Cardinality(before) + 1
  BY <1>4, <1>6, FS_AddElement
<1>8. r.ok \in Nat /\ r.fail \in Nat
  BY TaskFields
<1>9. r.ok <= Cardinality(before)
  BY <1>1
<1>10. DocsOf(r.changed) \cap (r.todo \ {r.doc}) = {}
  BY <1>1
<1> HIDE DEF before, after
<1>11. r.ok <= Cardinality(after) /\ (r.pc = "served" /\ r.granted => r.ok + 1 <= Cardinality(after))
  BY <1>5, <1>7, <1>8, <1>9
<1> QED
  BY <1>1, <1>3, <1>10, <1>11 DEF after

LEMMA FailedTask ==
    ASSUME NEW r, TaskInv(r), r.pc \in {"sent", "served"}
    PROVE  TaskInv(AfterFailure(r))
<1> DEFINE n == [r EXCEPT !.pc = "running", !.fail = @ + 1, !.todo = @ \ {r.doc}]
<1>1. /\ n.pc = "running" /\ n.fail = r.fail + 1 /\ n.todo = r.todo \ {r.doc} /\ n.ok = r.ok
      /\ n.kind = r.kind /\ n.action = r.action /\ n.arg = r.arg /\ n.chosen = r.chosen /\ n.doc = r.doc
      /\ n.granted = r.granted /\ n.here = r.here /\ n.undone = r.undone /\ n.changed = r.changed /\ n.told = r.told
  BY DEF TaskInv, TaskType
<1>2. n \in TaskType(r.kind, r.action, r.arg, r.chosen, r.changed)
  <2>1. r \in TaskType(r.kind, r.action, r.arg, r.chosen, r.changed)
    BY DEF TaskInv
  <2>2. r.todo \ {r.doc} \in SUBSET r.chosen /\ r.fail + 1 \in Nat
    <3>1. r.todo \subseteq r.chosen /\ r.fail \in Nat
      BY TaskFields
    <3> QED
      BY <3>1
  <2> QED
    BY <2>1, <2>2 DEF TaskType
<1>3. r.ok \in Nat /\ r.fail \in Nat /\ ~r.undone
  BY DEF TaskInv, TaskType
<1> HIDE DEF n
<1>4. n.ok + n.fail = Cardinality(n.chosen \ n.todo) /\ n.ok <= Cardinality(DocsOf(n.changed) \ n.todo)
      /\ DocsOf(n.changed) \cap n.todo \subseteq {}
  <2>1. /\ Cardinality(r.chosen \ (r.todo \ {r.doc})) = r.ok + r.fail + 1
        /\ r.ok <= Cardinality(DocsOf(r.changed) \ (r.todo \ {r.doc}))
        /\ DocsOf(r.changed) \cap (r.todo \ {r.doc}) = {}
    BY OneLess
  <2>2. n.ok + n.fail = r.ok + r.fail + 1
    BY <1>1, <1>3
  <2> QED
    BY <1>1, <2>1, <2>2
<1>5. TaskInv(n)
  BY <1>1, <1>2, <1>3, <1>4 DEF TaskInv
<1> QED
  BY <1>5 DEF n, AfterFailure

LEMMA AnsweredTask ==
    ASSUME NEW r, TaskInv(r), r.pc = "served", r.granted
    PROVE  TaskInv([r EXCEPT !.pc = "running", !.ok = @ + 1, !.todo = @ \ {r.doc}, !.told = @ \cup OfDoc(r)])
<1> DEFINE n == [r EXCEPT !.pc = "running", !.ok = @ + 1, !.todo = @ \ {r.doc}, !.told = @ \cup OfDoc(r)]
<1>0. OfDoc(r) \subseteq r.changed
  BY DEF OfDoc
<1>1. /\ n.pc = "running" /\ n.fail = r.fail /\ n.todo = r.todo \ {r.doc} /\ n.ok = r.ok + 1
      /\ n.kind = r.kind /\ n.action = r.action /\ n.arg = r.arg /\ n.chosen = r.chosen /\ n.doc = r.doc
      /\ n.granted = r.granted /\ n.here = r.here /\ n.undone = r.undone /\ n.changed = r.changed
  BY DEF TaskInv, TaskType
<1>2. n \in TaskType(r.kind, r.action, r.arg, r.chosen, r.changed)
  <2>1. r \in TaskType(r.kind, r.action, r.arg, r.chosen, r.changed)
    BY DEF TaskInv
  <2>2. r.todo \ {r.doc} \in SUBSET r.chosen /\ r.ok + 1 \in Nat /\ r.told \cup OfDoc(r) \in SUBSET r.changed
    <3>1. r.todo \subseteq r.chosen /\ r.ok \in Nat /\ r.told \subseteq r.changed
      BY TaskFields
    <3> QED
      BY <1>0, <3>1
  <2> QED
    BY <2>1, <2>2 DEF TaskType
<1>3. r.ok \in Nat /\ r.fail \in Nat /\ ~r.undone
  BY DEF TaskInv, TaskType
<1> HIDE DEF n
<1>4. n.ok + n.fail = Cardinality(n.chosen \ n.todo) /\ n.ok <= Cardinality(DocsOf(n.changed) \ n.todo)
      /\ DocsOf(n.changed) \cap n.todo \subseteq {}
  <2>1. /\ Cardinality(r.chosen \ (r.todo \ {r.doc})) = r.ok + r.fail + 1
        /\ r.ok + 1 <= Cardinality(DocsOf(r.changed) \ (r.todo \ {r.doc}))
        /\ DocsOf(r.changed) \cap (r.todo \ {r.doc}) = {}
    BY OneLess
  <2>2. n.ok + n.fail = r.ok + r.fail + 1
    BY <1>1, <1>3
  <2> QED
    BY <1>1, <2>1, <2>2
<1>5. TaskInv(n)
  BY <1>1, <1>2, <1>3, <1>4 DEF TaskInv
<1> QED
  BY <1>5 DEF n

LEMMA GrantedTask ==
    ASSUME ServicesInv, NEW r, TaskInv(r), r.pc = "sent",
           MayCall(me, r.doc, r.action, r.arg), Perform(me, r.doc, r.action, r.arg),
           NEW n, n = [r EXCEPT !.pc = "served", !.granted = TRUE,
                                !.changed = @ \cup {[doc |-> r.doc, stamp |-> now + 1]}]
    PROVE  TaskInv(n)'
<1> DEFINE new == [doc |-> r.doc, stamp |-> now + 1]
<1>1. /\ n.pc = "served" /\ n.fail = r.fail /\ n.todo = r.todo /\ n.ok = r.ok
      /\ n.kind = r.kind /\ n.action = r.action /\ n.arg = r.arg /\ n.chosen = r.chosen /\ n.doc = r.doc
      /\ n.granted /\ n.undone = r.undone /\ n.changed = r.changed \cup {new}
  BY DEF TaskInv, TaskType
<1>2. n \in TaskType(n.kind, n.action, n.arg, n.chosen, n.changed)
  <2>1. r \in TaskType(r.kind, r.action, r.arg, r.chosen, r.changed)
    BY DEF TaskInv
  <2>2. r.told \in SUBSET (r.changed \cup {new})
    BY TaskFields
  <2>3. n \in TaskType(r.kind, r.action, r.arg, r.chosen, r.changed \cup {new})
    BY <2>1, <2>2 DEF TaskType
  <2> QED
    BY <1>1, <2>3
<1>3. /\ r.doc \in r.todo /\ ~r.undone /\ r.ok + r.fail = Cardinality(r.chosen \ r.todo)
      /\ r.ok <= Cardinality(DocsOf(r.changed) \ r.todo) /\ DocsOf(r.changed) \cap r.todo = {}
      /\ r.action = "UPLOAD" => r.arg \in FileType
  BY DEF TaskInv
<1>4. r.doc \in Docs /\ r.doc \in r.chosen
  BY <1>3, TaskFields
<1>5. me \in Users
  BY DEF ServicesInv
<1>6. Grows
  BY <1>3, <1>4, <1>5, PerformGrows
<1>7. TaskInv(r)'
  BY <1>6, TaskStays
<1>8. \A c \in r.changed : c.doc \in r.chosen /\ c.stamp \in Nat /\ c.stamp <= stamp'[c.doc]
  BY <1>7 DEF TaskInv
<1>9. new.doc = r.doc /\ new.stamp \in Nat /\ new.stamp <= stamp'[r.doc]
  <2>1. now \in Nat /\ stamp \in [Docs -> Nat]
    BY DEF ServicesInv
  <2>2. stamp'[r.doc] = now + 1
    BY <1>4, <2>1 DEF Perform
  <2> QED
    BY <2>1, <2>2
<1>10. DocsOf(n.changed) = DocsOf(r.changed) \cup {r.doc}
  BY <1>1, <1>9, ZenonT(60) DEF DocsOf
<1>11. DocsOf(n.changed) \ n.todo = DocsOf(r.changed) \ r.todo /\ DocsOf(n.changed) \cap n.todo \subseteq {n.doc}
       /\ n.doc \in DocsOf(n.changed)
  BY <1>1, <1>3, <1>10
<1>12. ASSUME r.action = "RESTORE", NEW c \in n.changed
       PROVE  \E w \in 1..Len(files'[c.doc]) :
                r.arg \in 1..w - 1 /\ VersionDiff(files'[c.doc][r.arg], files'[c.doc][w]) \subseteq {"by"}
  <2>1. CASE c \in r.changed
    BY <1>7, <1>12, <2>1 DEF TaskInv
  <2>2. CASE c = new
    <3> DEFINE f == files[r.doc][r.arg]
               w == Len(files[r.doc]) + 1
    <3>1. /\ r.arg \in 1..Len(files[r.doc])
          /\ FilesAfter(me, r.doc, r.action, r.arg) = Append(files[r.doc], Restored(me, f))
      BY <1>3, <1>4, <1>5, <1>12, PerformFiles
    <3>2. files[r.doc] \in Seq(FileType) /\ files \in [Docs -> Seq(FileType)]
      BY <1>4 DEF ServicesInv
    <3>3. files'[r.doc] = Append(files[r.doc], Restored(me, f))
      BY <1>4, <3>1, <3>2 DEF Perform
    <3>4. f \in FileType
      BY <3>1, <3>2
    <3>5. Restored(me, f) \in FileType /\ VersionDiff(f, Restored(me, f)) \subseteq {"by"}
      <4>1. me \in Names
        BY <1>5, PageAssumption
      <4> HIDE DEF f
      <4>2. Restored(me, f) = [f EXCEPT !.by = me]
        BY DEF Restored
      <4>3. \A k \in DOMAIN f : k # "by" => Restored(me, f)[k] = f[k]
        BY <3>4, <4>2 DEF FileType
      <4> QED
        BY <3>4, <4>1, <4>2, <4>3 DEF FileType, VersionDiff
    <3>6. /\ files'[r.doc][w] = Restored(me, f) /\ files'[r.doc][r.arg] = f
          /\ Len(files'[r.doc]) = w /\ w \in 1..w /\ r.arg \in 1..w - 1
      BY <3>1, <3>2, <3>3, <3>5
    <3> QED
      BY <1>9, <2>2, <3>5, <3>6
  <2> QED
    BY <1>1, <2>1, <2>2
<1> HIDE DEF new
<1>13. \A c \in n.changed : c.doc \in n.chosen /\ c.stamp \in Nat /\ c.stamp <= stamp'[c.doc]
  BY <1>1, <1>4, <1>8, <1>9
<1>14. n.ok + n.fail = Cardinality(n.chosen \ n.todo) /\ n.ok <= Cardinality(DocsOf(n.changed) \ n.todo)
  BY <1>1, <1>3, <1>11
<1> QED
  BY <1>1, <1>2, <1>3, <1>11, <1>12, <1>13, <1>14, Zenon DEF TaskInv

(* The rows that a page shows are of documents.                               *)
LEMMA PageRows ==
    ASSUME CacheInv, PageInv
    PROVE  /\ \A row \in Table : row.id \in Docs
           /\ \A row \in Queued : row.id \in Docs
           /\ \A x \in OnPage : /\ page.open = "document" /\ Main = DetailKey(page.doc) /\ page.doc \in Docs
                                /\ Usable(DetailKey(page.doc)) /\ x \in cache[DetailKey(page.doc)].rows
                                /\ x.id = page.doc /\ DetailInv(page.doc, x)
<1>1. Table \subseteq list.rows
  BY DEF Table, PageOf, Listed, Scope
<1>2. Queued \subseteq cache[QueueKey].rows
  BY DEF Queued
<1>3. \A row \in list.rows \cup cache[QueueKey].rows : row.id \in Docs
  BY DEF CacheInv, RowInv
<1>4. page.doc \in Docs
  BY DEF PageInv
<1>5. ASSUME NEW x \in OnPage
      PROVE  /\ page.open = "document" /\ Main = DetailKey(page.doc)
             /\ Usable(DetailKey(page.doc)) /\ x \in cache[DetailKey(page.doc)].rows
  BY DEF OnPage, Main, ListPages
<1>6. \A x \in cache[DetailKey(page.doc)].rows : DetailInv(page.doc, x) /\ x.id = page.doc
  <2>1. \A d \in Docs : \A x \in cache[DetailKey(d)].rows : DetailInv(d, x)
    BY DEF CacheInv
  <2> QED
    BY <1>4, <2>1 DEF DetailInv
<1> QED
  BY <1>1, <1>2, <1>3, <1>4, <1>5, <1>6

LEMMA TasksStep ==
    ASSUME LibraryInv, [Next]_vars
    PROVE  TasksInv'
<1> DEFINE Goal == TasksInv'
<1>1. ServicesInv /\ CacheInv /\ PageInv /\ TasksInv /\ Grows
  BY ServicesStep DEF LibraryInv
<1>2. task = [t \in Tasks |-> task[t]] /\ \A t \in Tasks : TaskInv(task[t])
  BY <1>1 DEF TasksInv
<1>3. \A r : TaskInv(r) => TaskInv(r)'
  BY <1>1, TaskStays
<1>4. ASSUME UNCHANGED task PROVE Goal
  BY <1>2, <1>3, <1>4 DEF TasksInv
<1>5. ASSUME NEW t \in Tasks, NEW n, task' = [task EXCEPT ![t] = n], TaskInv(n)' PROVE Goal
  <2>1. task'[t] = n /\ task' = [s \in Tasks |-> task'[s]]
    BY <1>2, <1>5
  <2>2. \A s \in Tasks : s # t => task'[s] = task[s]
    BY <1>2, <1>5
  <2>3. ASSUME NEW s \in Tasks PROVE TaskInv(task[s])'
    BY <1>2, <1>3, <1>5, <2>1, <2>2
  <2> QED
    BY <2>1, <2>3 DEF TasksInv
<1>6. ASSUME NEW t \in Tasks, NEW n, task' = [task EXCEPT ![t] = n], TaskInv(n) PROVE Goal
  BY <1>3, <1>5, <1>6
<1>7. ASSUME NEW t \in Tasks, NEW kind, NEW pc \in {"waiting", "running"}, NEW a, NEW arg, NEW chosen \in SUBSET Docs,
             Begin(t, kind, pc, a, arg, chosen), a = "UPLOAD" => arg \in FileType
      PROVE  Goal
  <2> DEFINE n == [NoTask EXCEPT !.kind = kind, !.pc = pc, !.action = a, !.arg = arg,
                                 !.chosen = chosen, !.todo = chosen, !.here = TRUE]
  <2>1. TaskInv(n)
    BY <1>7, NewTask, Zenon
  <2>2. task' = [task EXCEPT ![t] = n]
    BY <1>7 DEF Begin
  <2> HIDE DEF n
  <2> QED
    BY <1>6, <2>1, <2>2
<1>8. ASSUME NEW here \in [Tasks -> BOOLEAN], task' = [t \in Tasks |-> [task[t] EXCEPT !.here = here[t]]]
      PROVE  Goal
  <2>1. task' = [t \in Tasks |-> task'[t]]
    BY <1>8
  <2>2. ASSUME NEW t \in Tasks PROVE TaskInv(task[t])'
    <3>1. TaskInv([task[t] EXCEPT !.here = here[t]])
      BY <1>2, HereTask
    <3>2. PICK n : n = [task[t] EXCEPT !.here = here[t]]
      OBVIOUS
    <3>3. TaskInv(n)' /\ task'[t] = n
      BY <1>3, <1>8, <3>1, <3>2
    <3> QED
      BY <3>3
  <2> QED
    BY <2>1, <2>2 DEF TasksInv
<1>9. ASSUME OthersStep PROVE Goal
  BY <1>4, <1>9 DEF OthersStep, OtherActs
<1>10. ASSUME NEW t \in Tasks, Confirm(t) PROVE Goal
  <2>1. page.dialog \in [doc : Docs, action : L!Actions, busy : BOOLEAN]
    BY <1>1, <1>10 DEF Confirm, PageInv
  <2>2. page.dialog.action # "UPLOAD" /\ {page.dialog.doc} \in SUBSET Docs
    BY <2>1, ActionFacts
  <2> QED
    BY <1>7, <1>10, <2>2 DEF Confirm
<1>11. ASSUME NEW t \in Tasks, NEW a \in L!Actions, NEW rows \in SUBSET Table, Bulk(t, a, rows) PROVE Goal
  <2>1. a # "UPLOAD" /\ {row.id : row \in rows} \in SUBSET Docs
    BY <1>1, ActionFacts, PageRows
  <2> QED
    BY <1>7, <1>11, <2>1 DEF Bulk
<1>12. ASSUME PageStep PROVE Goal
  BY <1>4, <1>10, <1>11, <1>12, Zenon DEF PageStep, ChangeFilters, TurnPage, OpenDialog, CancelDialog
<1>13. ASSUME CacheStep PROVE Goal
  BY <1>4, <1>13, Zenon DEF CacheStep, Serve, Refetch, Open, OfCache
<1>14. ASSUME OnApprovals PROVE Goal
  BY <1>4, <1>14 DEF OnApprovals, OpenDrawer, CloseDrawer, Decide
<1>15. ASSUME NEW t \in Tasks, ServeCall(t) PROVE Goal
  <2>1. PICK r : r = task[t]
    OBVIOUS
  <2>2. TaskInv(r) /\ r.pc = "sent"
    BY <1>2, <1>15, <2>1 DEF ServeCall
  <2>3. CASE MayCall(me, r.doc, r.action, r.arg)
    <3>1. PICK n : n = [r EXCEPT !.pc = "served", !.granted = TRUE,
                                 !.changed = @ \cup {[doc |-> r.doc, stamp |-> now + 1]}]
      OBVIOUS
    <3>2. Perform(me, r.doc, r.action, r.arg) /\ task' = [task EXCEPT ![t] = n]
      BY <1>15, <2>1, <2>3, <3>1 DEF ServeCall, Step
    <3>3. TaskInv(n)'
      BY <1>1, <2>2, <2>3, <3>1, <3>2, GrantedTask, Zenon
    <3> QED
      BY <1>5, <3>2, <3>3
  <2>4. CASE ~MayCall(me, r.doc, r.action, r.arg)
    <3>1. PICK n : n = [r EXCEPT !.pc = "served", !.granted = FALSE]
      OBVIOUS
    <3>2. task' = [task EXCEPT ![t] = n]
      BY <1>15, <2>1, <2>4, <3>1 DEF ServeCall, Step
    <3> QED
      BY <1>6, <2>2, <3>1, <3>2, RefusedTask, Zenon
  <2> QED
    BY <2>3, <2>4
<1>16. ASSUME NEW t \in Tasks, NEW n, Step(t, n), TaskInv(n) PROVE Goal
  BY <1>6, <1>16 DEF Step
<1>17. ASSUME NEW t \in Tasks, TaskStep(t) PROVE Goal
  <2>1. TaskInv(task[t])
    BY <1>2
  <2>2. ASSUME Undo(t) PROVE Goal
    BY <1>16, <2>1, <2>2, UndoneTask, Zenon DEF Undo
  <2>3. ASSUME Fire(t) PROVE Goal
    BY <1>16, <2>1, <2>3, FiredTask DEF Fire
  <2>4. ASSUME NEW d, Send(t, d) PROVE Goal
    BY <1>16, <2>1, <2>4, SentTask, Zenon DEF Send
  <2>5. ASSUME CallFails(t) PROVE Goal
    BY <1>16, <2>1, <2>5, FailedTask DEF CallFails
  <2>6. ASSUME CallAnswered(t) PROVE Goal
    <3>1. task[t].pc = "served"
      BY <2>6 DEF CallAnswered
    <3>2. CASE task[t].granted
      <4>1. Step(t, [task[t] EXCEPT !.pc = "running", !.ok = @ + 1, !.todo = @ \ {task[t].doc},
                                    !.told = @ \cup OfDoc(task[t])])
        BY <2>6, <3>2 DEF CallAnswered
      <4> QED
        BY <1>16, <2>1, <3>1, <3>2, <4>1, AnsweredTask, Zenon
    <3>3. CASE ~task[t].granted
      <4>1. Step(t, AfterFailure(task[t]))
        BY <2>6, <3>3 DEF CallAnswered
      <4> QED
        BY <1>16, <2>1, <3>1, <4>1, FailedTask
    <3> QED
      BY <3>2, <3>3
  <2> QED
    BY <1>15, <1>17, <2>2, <2>3, <2>4, <2>5, <2>6 DEF TaskStep
<1>18. ASSUME NEW t \in Tasks, Ends(t) PROVE Goal
  <2>1. /\ task[t].pc = "running" /\ task[t].todo = {}
        /\ Step(t, [task[t] EXCEPT !.pc = "done"])
    BY <1>18 DEF Ends, Finish
  <2> QED
    BY <1>2, <1>16, <2>1, DoneTask
<1>19. ASSUME NEW k, PageFails(k) PROVE Goal
  <2>1. CASE UNCHANGED task
    BY <1>4, <2>1
  <2>2. CASE task' = [t \in Tasks |-> [task[t] EXCEPT !.here = @ /\ task[t].kind = "drawer"]]
    <3> DEFINE here == [t \in Tasks |-> task[t].here /\ task[t].kind = "drawer"]
    <3>1. \A t \in Tasks : task[t].here \in BOOLEAN /\ [task[t] EXCEPT !.here = @ /\ task[t].kind = "drawer"]
                                                          = [task[t] EXCEPT !.here = here[t]]
      BY <1>2 DEF TaskInv, TaskType
    <3>2. here \in [Tasks -> BOOLEAN]
      BY <3>1
    <3>3. task' = [t \in Tasks |-> [task[t] EXCEPT !.here = here[t]]]
      BY <2>2, <3>1
    <3> HIDE DEF here
    <3> QED
      BY <1>8, <3>2, <3>3
  <2> QED
    BY <1>19, <2>1, <2>2 DEF PageFails, FailFetch
<1>20. ASSUME NEW k, PageArrives(k) PROVE Goal
  BY <1>4, <1>20 DEF PageArrives, Arrive, OfCache
<1>21. ASSUME Leave PROVE Goal
  <2> DEFINE here == [t \in Tasks |-> FALSE]
  <2>1. task' = [t \in Tasks |-> [task[t] EXCEPT !.here = here[t]]]
    BY <1>21 DEF Leave
  <2>2. here \in [Tasks -> BOOLEAN]
    OBVIOUS
  <2> HIDE DEF here
  <2> QED
    BY <1>8, <2>1, <2>2
<1>22. ASSUME OpenApprovals \/ \E d \in Docs : OpenDocument(d) PROVE Goal
  BY <1>4, <1>22, Zenon DEF OpenApprovals, OpenDocument
<1>23. ASSUME NEW x \in OnPage, OnDocument(x) PROVE Goal
  <2>1. {x.id} \in SUBSET Docs
    BY <1>1, PageRows
  <2>2. ASSUME NEW t \in Tasks, SaveChain(t, x) PROVE Goal
    BY <1>7, <2>1, <2>2 DEF SaveChain
  <2>3. ASSUME NEW t \in Tasks, NEW change \in Holds, SetLegalHold(t, x, change) PROVE Goal
    <3>1. change # "UPLOAD"
      BY DEF Holds
    <3> QED
      BY <1>7, <2>1, <2>3, <3>1 DEF SetLegalHold
  <2>4. ASSUME NEW t \in Tasks, NEW file \in budget.files, UploadFile(t, x, file) PROVE Goal
    <3>1. file \in FileType
      BY <1>1 DEF ServicesInv
    <3> QED
      BY <1>7, <2>1, <2>4, <3>1 DEF UploadFile
  <2>5. ASSUME NEW t \in Tasks, NEW v, RestoreVersion(t, x, v) PROVE Goal
    BY <1>7, <2>1, <2>5 DEF RestoreVersion
  <2>6. ASSUME EditChain(x) \/ \E v : Compare(x, v) \/ ChoosePreview(x, v) PROVE Goal
    BY <1>4, <2>6 DEF EditChain, Compare, ChoosePreview, OfDesk
  <2> QED
    BY <1>23, <2>2, <2>3, <2>4, <2>5, <2>6 DEF OnDocument
<1>24. ASSUME OnDesk PROVE Goal
  <2>1. ASSUME ClosePreview \/ CancelEdit \/ \E draft : Redraft(draft) PROVE Goal
    BY <1>4, <2>1 DEF ClosePreview, CancelEdit, Redraft, OfDesk
  <2>2. ASSUME NEW i, LoadAnswered(i) \/ LoadFails(i) PROVE Goal
    BY <1>4, <2>2 DEF LoadAnswered, LoadFails, OfDesk
  <2> QED
    BY <1>23, <1>24, <2>1, <2>2 DEF OnDesk
<1>25. ASSUME UNCHANGED vars PROVE Goal
  BY <1>4, <1>25 DEF vars
<1> HIDE DEF Goal
<1>26. ASSUME Next PROVE Goal
  BY <1>9, <1>12, <1>13, <1>14, <1>17, <1>18, <1>19, <1>20, <1>21, <1>22, <1>24, <1>26, Zenon DEF Next
<1>27. Goal
  BY <1>25, <1>26
<1> QED
  BY <1>27 DEF Goal
-----------------------------------------------------------------------------
(* The page.                                                                  *)
LEMMA PageStepInv ==
    ASSUME LibraryInv, [Next]_vars
    PROVE  PageInv'
<1> DEFINE PageType(filters, number, dialog, drawer) ==
             [open : ListPages \cup {"closed", "document", "approvals"}, doc : Docs, filters : {filters},
              number : {number}, dialog : {dialog}, drawer : {drawer}]
           GoodDialog(dialog) == dialog = NoDialog \/ dialog \in [doc : Docs, action : L!Actions, busy : BOOLEAN]
           GoodDrawer(drawer) == \A row \in drawer : row.id \in Docs
           Goal == PageInv'
<1>1. ServicesInv /\ CacheInv /\ PageInv
  BY DEF LibraryInv
<1>2. /\ page \in PageType(page.filters, page.number, page.dialog, page.drawer)
      /\ GoodDialog(page.dialog) /\ GoodDrawer(page.drawer)
  BY <1>1 DEF PageInv
<1>3. ASSUME NEW filters, NEW number, NEW dialog, NEW drawer,
             page' \in PageType(filters, number, dialog, drawer), GoodDialog(dialog), GoodDrawer(drawer)
      PROVE  Goal
  BY <1>3 DEF PageInv
<1>4. ASSUME UNCHANGED page PROVE Goal
  BY <1>2, <1>3, <1>4
<1>5. ASSUME NEW dialog, GoodDialog(dialog), page' = [page EXCEPT !.dialog = dialog] PROVE Goal
  <2>1. page' \in PageType(page.filters, page.number, dialog, page.drawer)
    BY <1>2, <1>5
  <2> QED
    BY <1>2, <1>3, <1>5, <2>1
<1>6. ASSUME NEW drawer, GoodDrawer(drawer), page' = [page EXCEPT !.drawer = drawer] PROVE Goal
  <2>1. page' \in PageType(page.filters, page.number, page.dialog, drawer)
    BY <1>2, <1>6
  <2> QED
    BY <1>2, <1>3, <1>6, <2>1
<1>7. GoodDialog(NoDialog) /\ GoodDrawer({})
  OBVIOUS
<1>8. ASSUME NEW d \in Docs, NEW a \in L!Actions PROVE GoodDialog([doc |-> d, action |-> a, busy |-> FALSE])
  OBVIOUS
<1>9. ASSUME OthersStep PROVE Goal
  BY <1>4, <1>9 DEF OthersStep, OtherActs
<1>10. ASSUME NEW filters, NEW number, page' = [page EXCEPT !.filters = filters, !.number = number] PROVE Goal
  <2>1. page' \in PageType(filters, number, page.dialog, page.drawer)
    BY <1>2, <1>10
  <2> QED
    BY <1>2, <1>3, <2>1
<1>11. ASSUME PageStep PROVE Goal
  <2>1. ASSUME NEW filters, ChangeFilters(filters) PROVE Goal
    BY <1>10, <2>1, Zenon DEF ChangeFilters
  <2>2. ASSUME NEW number, TurnPage(number) PROVE Goal
    <3>1. page' = [page EXCEPT !.filters = page.filters, !.number = number]
      BY <1>2, <2>2 DEF TurnPage
    <3> QED
      BY <1>10, <3>1, Zenon
  <2>3. ASSUME NEW row \in Table \cup OnPage, NEW a \in L!Actions, OpenDialog(row, a) PROVE Goal
    <3>1. row.id \in Docs
      BY <1>1, PageRows
    <3>2. page' = [page EXCEPT !.dialog = [doc |-> row.id, action |-> a, busy |-> FALSE]]
      BY <2>3 DEF OpenDialog
    <3> QED
      BY <1>5, <1>8, <3>1, <3>2
  <2>4. ASSUME CancelDialog PROVE Goal
    BY <1>5, <1>7, <2>4 DEF CancelDialog
  <2>5. ASSUME NEW t, Confirm(t) PROVE Goal
    <3>1. page.dialog \in [doc : Docs, action : L!Actions, busy : BOOLEAN]
      BY <1>2, <2>5 DEF Confirm
    <3>2. [page.dialog EXCEPT !.busy = TRUE] \in [doc : Docs, action : L!Actions, busy : BOOLEAN]
      BY <3>1
    <3>3. page' = [page EXCEPT !.dialog = [page.dialog EXCEPT !.busy = TRUE]]
      BY <2>5 DEF Confirm
    <3> QED
      BY <1>5, <3>2, <3>3
  <2>6. ASSUME NEW t, NEW a, NEW rows, Bulk(t, a, rows) PROVE Goal
    BY <1>4, <2>6 DEF Bulk
  <2> QED
    BY <1>11, <2>1, <2>2, <2>3, <2>4, <2>5, <2>6 DEF PageStep
<1>12. ASSUME NEW open \in ListPages \cup {"closed", "document", "approvals"}, NEW d \in Docs, NEW filters, NEW number,
              page' = [page EXCEPT !.open = open, !.doc = d, !.filters = filters, !.number = number,
                                   !.dialog = NoDialog, !.drawer = {}]
       PROVE  Goal
  <2>1. page' \in PageType(filters, number, NoDialog, {})
    BY <1>2, <1>12
  <2> QED
    BY <1>3, <1>7, <2>1
<1>13. ASSUME CacheStep PROVE Goal
  <2>1. ASSUME NEW k, Serve(k) \/ Refetch(k) PROVE Goal
    BY <1>4, <2>1 DEF Serve, Refetch, OfCache
  <2>2. ASSUME NEW where \in ListPages, Open(where) PROVE Goal
    <3>1. page' = [page EXCEPT !.open = where, !.doc = page.doc, !.filters = DEFAULT_DOCUMENT_FILTERS, !.number = 1,
                               !.dialog = NoDialog, !.drawer = {}]
      BY <1>2, <2>2 DEF Open, Goes
    <3> QED
      BY <1>2, <1>12, <3>1, Zenon
  <2> QED
    BY <1>13, <2>1, <2>2 DEF CacheStep
<1>14. ASSUME OnApprovals PROVE Goal
  <2>1. ASSUME NEW row \in Queued, OpenDrawer(row) PROVE Goal
    <3>1. GoodDrawer({row}) /\ page' = [page EXCEPT !.drawer = {row}]
      BY <1>1, <2>1, PageRows DEF OpenDrawer
    <3> HIDE DEF GoodDrawer, Goal
    <3> QED
      BY <1>6, <3>1
  <2>2. ASSUME CloseDrawer PROVE Goal
    <3>1. page' = [page EXCEPT !.drawer = {}]
      BY <2>2 DEF CloseDrawer
    <3> HIDE DEF GoodDrawer, Goal
    <3> QED
      BY <1>6, <1>7, <3>1
  <2>3. ASSUME NEW row \in page.drawer, NEW a \in {"APPROVE", "REJECT"}, Decide(row, a) PROVE Goal
    <3>1. row.id \in Docs /\ a \in L!Actions
      BY <1>2, ActionFacts DEF WorkflowActions
    <3>2. page' = [page EXCEPT !.dialog = [doc |-> row.id, action |-> a, busy |-> FALSE]]
      BY <2>3 DEF Decide
    <3> QED
      BY <1>5, <1>8, <3>1, <3>2
  <2> QED
    BY <1>14, <2>1, <2>2, <2>3 DEF OnApprovals
<1>15. ASSUME NEW t \in Tasks, TaskStep(t) PROVE Goal
  BY <1>4, <1>15, Zenon DEF TaskStep, Undo, Fire, Send, ServeCall, CallAnswered, CallFails, OfView
<1>16. ASSUME NEW t \in Tasks, Ends(t) PROVE Goal
  <2>1. CASE UNCHANGED page
    BY <1>4, <2>1
  <2>2. CASE page' = [page EXCEPT !.number = 1, !.dialog = IF task[t].kind = "bulk" THEN @ ELSE NoDialog,
                                  !.drawer = IF task[t].ok > 0 THEN {} ELSE @]
    <3>1. PICK dialog, drawer : /\ dialog = IF task[t].kind = "bulk" THEN page.dialog ELSE NoDialog
                                /\ drawer = IF task[t].ok > 0 THEN {} ELSE page.drawer
      OBVIOUS
    <3>2. GoodDialog(dialog) /\ GoodDrawer(drawer)
      BY <1>2, <3>1
    <3>3. page' = [page EXCEPT !.number = 1, !.dialog = dialog, !.drawer = drawer]
      BY <1>2, <2>2, <3>1
    <3>4. page' \in PageType(page.filters, 1, dialog, drawer)
      BY <1>2, <3>3
    <3> QED
      BY <1>3, <3>2, <3>4
  <2> QED
    BY <1>16, <2>1, <2>2 DEF Ends, Finish
<1>17. ASSUME NEW k, PageFails(k) PROVE Goal
  BY <1>4, <1>5, <1>7, <1>17 DEF PageFails, FailFetch
<1>18. ASSUME NEW k, PageArrives(k) PROVE Goal
  BY <1>4, <1>18 DEF PageArrives, Arrive, OfCache
<1>19. ASSUME Leave PROVE Goal
  <2>1. page' = [page EXCEPT !.open = "closed", !.doc = page.doc, !.filters = page.filters, !.number = page.number,
                             !.dialog = NoDialog, !.drawer = {}]
    BY <1>2, <1>19 DEF Leave, Goes
  <2> QED
    BY <1>2, <1>12, <2>1, Zenon
<1>20. ASSUME OpenApprovals PROVE Goal
  <2>1. page' = [page EXCEPT !.open = "approvals", !.doc = page.doc, !.filters = page.filters, !.number = page.number,
                             !.dialog = NoDialog, !.drawer = {}]
    BY <1>2, <1>20 DEF OpenApprovals, Goes
  <2> QED
    BY <1>2, <1>12, <2>1, Zenon
<1>21. ASSUME NEW d \in Docs, OpenDocument(d) PROVE Goal
  <2>1. page' = [page EXCEPT !.open = "document", !.doc = d, !.filters = page.filters, !.number = page.number,
                             !.dialog = NoDialog, !.drawer = {}]
    BY <1>2, <1>21 DEF OpenDocument, Goes
  <2> QED
    BY <1>2, <1>12, <2>1, Zenon
<1>22. ASSUME OnDesk PROVE Goal
  BY <1>4, <1>22, Zenon DEF OnDesk, OnDocument, EditChain, Compare, ChoosePreview, SaveChain, SetLegalHold, UploadFile,
                     RestoreVersion, ClosePreview, LoadAnswered, LoadFails, CancelEdit, Redraft, OfDesk
<1>23. ASSUME UNCHANGED vars PROVE Goal
  BY <1>4, <1>23 DEF vars
<1> HIDE DEF Goal
<1>24. ASSUME Next PROVE Goal
  BY <1>9, <1>11, <1>13, <1>14, <1>15, <1>16, <1>17, <1>18, <1>19, <1>20, <1>21, <1>22, <1>24, Zenon DEF Next
<1>25. Goal
  BY <1>23, <1>24
<1> QED
  BY <1>25 DEF Goal
-----------------------------------------------------------------------------
(* The answers in the cache.                                                  *)

(* What the service answers is of now.                                        *)
LEMMA AnswersNow ==
    ASSUME ServicesInv, confirmed \in [Keys -> [Docs -> Nat]], \A k \in Keys, d \in Docs : confirmed[k][d] <= stamp[d]
    PROVE  /\ \A row \in Answer(ListKey) \cup Answer(QueueKey) : RowInv(row)
           /\ \A d \in Docs : Answer(DetailKey(d)) = {Detail(d)} /\ DetailInv(d, Detail(d))
           /\ \A d \in Docs : \A e \in Answer(HistoryKey(d)) : e \in past /\ e.doc = d
           /\ \A k \in Keys : Fresh(k, Answer(k))
<1>1. /\ stamp \in [Docs -> Nat] /\ files \in [Docs -> Seq(FileType)]
      /\ \A d \in Docs : Stored(doc[d])
      /\ \A d \in Docs : \A e \in Latest(UpTo(d, stamp[d])) : e.to = doc[d].status
  BY DEF ServicesInv
<1>2. \A row \in Rows : row.id \in Docs /\ row.stamp = stamp[row.id]
  BY RowFacts DEF Rows
<1>3. Answer(ListKey) = Rows /\ Answer(QueueKey) \subseteq Rows
  BY KeysDiffer DEF Answer, QueueOf, WithStatus
<1>4. \A d \in Docs : Answer(DetailKey(d)) = {Detail(d)}
  BY KeysDiffer DEF Answer
<1>5. \A d \in Docs : Answer(HistoryKey(d)) = {e \in past : e.doc = d}
  BY KeysDiffer DEF Answer
<1>6. ASSUME NEW d \in Docs PROVE DetailInv(d, Detail(d))
  <2>1. doc[d].status \in Statuses \cup {"NONE", "PURGED"} /\ stamp[d] \in Nat
    BY <1>1 DEF Stored
  <2>2. files[d] \in Seq(FileType) /\ Len(files[d]) <= Len(files[d])
    BY <1>1
  <2> QED
    BY <1>1, <2>1, <2>2, RowFacts DEF DetailInv
<1>7. \A k \in Keys, d \in Docs : confirmed[k][d] <= stamp[d] /\ confirmed[k][d] \in Nat /\ stamp[d] \in Nat
  BY <1>1
<1>8. \A row \in Rows : RowInv(row)
  BY <1>1, <1>2 DEF RowInv
<1>9. ASSUME NEW k \in Keys PROVE Fresh(k, Answer(k))
  <2>1. CASE k = ListKey \/ k = QueueKey
    BY <1>2, <1>3, <1>7, <2>1, KeysDiffer DEF Fresh
  <2>2. ASSUME NEW d \in Docs, k = DetailKey(d) PROVE Fresh(k, Answer(k))
    BY <1>4, <1>7, <2>2, KeysDiffer, RowFacts DEF Fresh
  <2>3. ASSUME NEW d \in Docs, k = HistoryKey(d) PROVE Fresh(k, Answer(k))
    BY <1>5, <2>3, KeysDiffer DEF Fresh
  <2> QED
    BY <2>1, <2>2, <2>3, KeyFacts
<1> QED
  BY <1>3, <1>4, <1>5, <1>6, <1>8, <1>9

LEMMA Answers ==
    ASSUME ServicesInv, CacheInv
    PROVE  /\ \A row \in Answer(ListKey) \cup Answer(QueueKey) : RowInv(row)
           /\ \A d \in Docs : Answer(DetailKey(d)) = {Detail(d)} /\ DetailInv(d, Detail(d))
           /\ \A d \in Docs : \A e \in Answer(HistoryKey(d)) : e \in past /\ e.doc = d
           /\ \A k \in Keys : Fresh(k, Answer(k))
BY AnswersNow DEF CacheInv

LEMMA DetailStays ==
    ASSUME ServicesInv, ServicesInv', Grows, NEW d \in Docs, NEW x, DetailInv(d, x)
    PROVE  DetailInv(d, x)'
<1>1. /\ x.id = d /\ x.stamp \in Nat /\ x.stamp <= stamp[d] /\ x.versions \in Seq(FileType)
      /\ Len(x.versions) <= Len(files[d]) /\ x.status \in Statuses \cup {"NONE", "PURGED"}
      /\ \A i \in 1..Len(x.versions) : x.versions[i] = files[d][i]
      /\ \A e \in Latest(UpTo(d, x.stamp)) : e.to = x.status
  BY DEF DetailInv
<1>2. stamp[d] \in Nat /\ stamp'[d] \in Nat /\ stamp[d] <= stamp'[d] /\ files[d] \in Seq(FileType)
      /\ files'[d] \in Seq(FileType) /\ Len(files[d]) <= Len(files'[d])
      /\ \A i \in 1..Len(files[d]) : files'[d][i] = files[d][i]
  BY DEF ServicesInv, Grows
<1>3. x.stamp <= stamp'[d]
  BY <1>1, <1>2
<1>4. Len(x.versions) \in Nat /\ Len(files[d]) \in Nat /\ Len(files'[d]) \in Nat
  BY <1>1, <1>2
<1>5. Len(x.versions) <= Len(files'[d]) /\ \A i \in 1..Len(x.versions) : i \in 1..Len(files[d])
  BY <1>1, <1>2, <1>4
<1>6. \A i \in 1..Len(x.versions) : x.versions[i] = files'[d][i]
  BY <1>1, <1>2, <1>5
<1>7. UpTo(d, x.stamp)' = UpTo(d, x.stamp)
  <2>1. ASSUME NEW e \in past', e.doc = d, e.stamp <= x.stamp, e \notin past PROVE FALSE
    <3>1. e.stamp > stamp[d]
      BY <2>1 DEF Grows
    <3>2. x.stamp <= stamp[d] /\ x.stamp \in Nat /\ stamp[d] \in Nat
      BY <1>1, <1>2
    <3>3. e.stamp \in Nat
      BY <2>1 DEF ServicesInv
    <3> QED
      BY <2>1, <3>1, <3>2, <3>3
  <2> QED
    BY <2>1 DEF UpTo, Grows
<1>8. \A e \in Latest(UpTo(d, x.stamp))' : e.to = x.status
  BY <1>1, <1>7 DEF Latest
<1> QED
  BY <1>1, <1>3, <1>5, <1>6, <1>8 DEF DetailInv

(* How an answer may change in one step.                                      *)
Same(k) ==
    LET q == cache[k]  n == cache'[k]
    IN n.rows = q.rows /\ n.next = q.next /\ n.known = q.known /\ n.fetch = q.fetch /\ n.error = q.error

Asks(k) ==
    LET q == cache[k]  n == cache'[k]
    IN n.rows = q.rows /\ n.next \in {q.next, {}} /\ n.known = q.known /\ n.fetch = "asked" /\ n.error = q.error

Gets(k) ==
    LET q == cache[k]  n == cache'[k]
    IN /\ n.rows = q.rows /\ n.known = q.known /\ n.error = q.error
       /\ \/ n.fetch = "served" /\ n.next = Answer(k)
          \/ n.fetch = "refused" /\ n.next = {}

Shows(k) ==
    LET q == cache[k]  n == cache'[k]
    IN q.fetch = "served" /\ n = [NoQuery EXCEPT !.rows = q.next, !.known = TRUE]

Fails(k) ==
    LET q == cache[k]  n == cache'[k]
    IN /\ PageFails(k)
       /\ n.rows = q.rows /\ n.next = {} /\ n.known = q.known /\ n.fetch = "none" /\ n.error

CacheShape ==
    /\ cache' = [k \in Keys |-> cache'[k]]
    /\ \A k \in Keys :
          /\ Query(cache'[k])
          /\ Same(k) \/ Asks(k) \/ Gets(k) \/ Shows(k) \/ Fails(k)
          /\ confirmed'[k] = confirmed[k] \/ Asks(k)
    /\ confirmed' \in [Keys -> [Docs -> Nat]]
    /\ \A k \in Keys, d \in Docs : confirmed'[k][d] <= stamp'[d]

LEMMA CacheShapes ==
    ASSUME LibraryInv, [Next]_vars
    PROVE  CacheShape
<1> DEFINE Sound(k) == Query(cache'[k]) /\ (Same(k) \/ Asks(k) \/ Gets(k) \/ Shows(k) \/ Fails(k))
           Goal == CacheShape
<1>1. ServicesInv /\ CacheInv /\ PageInv /\ TasksInv /\ Grows /\ ServicesInv'
  BY ServicesStep DEF LibraryInv
<1>2. /\ cache = [k \in Keys |-> cache[k]] /\ \A k \in Keys : Query(cache[k])
      /\ confirmed \in [Keys -> [Docs -> Nat]] /\ \A k \in Keys, d \in Docs : confirmed[k][d] <= stamp[d]
  BY <1>1 DEF CacheInv
<1>3. \A k \in Keys, d \in Docs : confirmed[k][d] <= stamp'[d]
  <2>1. ASSUME NEW k \in Keys, NEW d \in Docs PROVE confirmed[k][d] <= stamp'[d]
    <3>1. confirmed[k][d] \in Nat /\ stamp[d] \in Nat /\ stamp'[d] \in Nat /\ stamp[d] <= stamp'[d]
      BY <1>1, <1>2 DEF Grows, ServicesInv
    <3> QED
      BY <1>2, <3>1
  <2> QED
    BY <2>1
<1>4. ASSUME UNCHANGED confirmed, cache' = [k \in Keys |-> cache'[k]], \A k \in Keys : Sound(k)
      PROVE  Goal
  BY <1>2, <1>3, <1>4 DEF CacheShape
<1>5. \A k \in Keys : cache'[k] = cache[k] => Sound(k)
  BY <1>2 DEF Same, Query
<1>6. ASSUME UNCHANGED <<cache, confirmed>> PROVE Goal
  BY <1>2, <1>4, <1>5, <1>6
<1>7. ASSUME NEW k \in Keys, NEW n, cache' = [cache EXCEPT ![k] = n], cache'[k] = n => Sound(k), UNCHANGED confirmed
      PROVE  Goal
  <2>1. cache' = [j \in Keys |-> cache'[j]] /\ cache'[k] = n /\ \A j \in Keys : j # k => cache'[j] = cache[j]
    BY <1>2, <1>7
  <2> HIDE DEF Sound
  <2>2. \A j \in Keys : Sound(j)
    BY <1>5, <1>7, <2>1
  <2> QED
    BY <1>4, <1>7, <2>1, <2>2
<1>8. ASSUME NEW k \in Keys, Serve(k) PROVE Goal
  <2> DEFINE n == [cache[k] EXCEPT !.fetch = IF Refused(k) THEN "refused" ELSE "served",
                                   !.next = IF Refused(k) THEN {} ELSE Answer(k)]
  <2>1. cache' = [cache EXCEPT ![k] = n] /\ UNCHANGED confirmed
    BY <1>2, <1>8 DEF Serve, OfCache
  <2>2. Query(cache[k])
    BY <1>2
  <2>3. cache'[k] = n => Sound(k)
    BY <2>2 DEF Query, Gets
  <2> HIDE DEF n, Sound
  <2> QED
    BY <1>7, <2>1, <2>3
<1>9. ASSUME NEW k \in Keys, Arrive(k) PROVE Goal
  <2> DEFINE n == [NoQuery EXCEPT !.rows = cache[k].next, !.known = TRUE]
  <2>1. cache' = [cache EXCEPT ![k] = n] /\ UNCHANGED confirmed /\ cache[k].fetch = "served"
    BY <1>9 DEF Arrive, OfCache
  <2>2. cache'[k] = n => Sound(k)
    BY <2>1, ZenonT(60) DEF Query, Shows, NoQuery
  <2> HIDE DEF n, Sound
  <2> QED
    BY <1>7, <2>1, <2>2
<1>10. ASSUME NEW k \in Keys, PageFails(k) PROVE Goal
  <2> DEFINE n == [cache[k] EXCEPT !.fetch = "none", !.next = {}, !.error = TRUE]
  <2>1. cache' = [cache EXCEPT ![k] = n] /\ UNCHANGED confirmed
    BY <1>2, <1>10 DEF PageFails, FailFetch
  <2>2. Query(cache[k])
    BY <1>2
  <2>3. cache'[k] = n => Sound(k)
    BY <1>10, <2>2 DEF Query, Fails
  <2> HIDE DEF n, Sound
  <2> QED
    BY <1>7, <2>1, <2>3
<1>11. ASSUME NEW k \in Keys, Refetch(k) PROVE Goal
  <2> DEFINE n == [cache[k] EXCEPT !.fetch = "asked"]
  <2>1. cache' = [cache EXCEPT ![k] = n] /\ UNCHANGED confirmed
    BY <1>2, <1>11 DEF Refetch, OfCache
  <2>2. Query(cache[k])
    BY <1>2
  <2>3. cache'[k] = n => Sound(k)
    BY <2>2 DEF Query, Asks
  <2> HIDE DEF n, Sound
  <2> QED
    BY <1>7, <2>1, <2>3
<1>12. ASSUME NEW keys, Mounts(keys), UNCHANGED confirmed PROVE Goal
  <2>1. PICK asked : cache' = [k \in Keys |-> IF k \in asked THEN [cache[k] EXCEPT !.fetch = "asked"] ELSE cache[k]]
    BY <1>12 DEF Mounts
  <2>2. ASSUME NEW k \in Keys PROVE Sound(k)
    <3>1. CASE k \in asked
      <4>1. cache'[k] = [cache[k] EXCEPT !.fetch = "asked"] /\ Query(cache[k])
        BY <1>2, <2>1, <3>1
      <4> QED
        BY <4>1 DEF Query, Asks
    <3>2. CASE k \notin asked
      BY <1>5, <2>1, <3>2
    <3> QED
      BY <3>1, <3>2
  <2>3. cache' = [k \in Keys |-> cache'[k]]
    BY <2>1
  <2> HIDE DEF Sound
  <2> QED
    BY <1>4, <1>12, <2>2, <2>3
<1>13. ASSUME NEW r, TaskInv(r), NEW told \in SUBSET r.changed,
              cache' = Invalidated(Touched(r)), confirmed' = Confirmed(r, told)
       PROVE  Goal
  <2>1. cache' = [k \in Keys |-> cache'[k]] /\ confirmed' = [k \in Keys |-> confirmed'[k]]
    BY <1>13 DEF Invalidated, Confirmed
  <2>2. \A c \in told : c.doc \in Docs /\ c.stamp \in Nat /\ c.stamp <= stamp'[c.doc]
    <3>1. TaskInv(r)'
      BY <1>1, <1>13, TaskStays
    <3> QED
      BY <1>13, <3>1, TaskFields DEF TaskInv
  <2>3. ASSUME NEW k \in Keys
        PROVE  confirmed'[k] \in [Docs -> Nat] /\ \A d \in Docs : confirmed'[k][d] <= stamp'[d]
    <3>1. CASE confirmed'[k] = confirmed[k]
      BY <1>2, <1>3, <3>1
    <3>2. CASE confirmed'[k] = [d \in Docs |-> IF \E c \in told : c.doc = d
                                                THEN (CHOOSE c \in told : c.doc = d).stamp ELSE confirmed[k][d]]
      <4>1. ASSUME NEW d \in Docs PROVE confirmed'[k][d] \in Nat /\ confirmed'[k][d] <= stamp'[d]
        <5>1. CASE \E c \in told : c.doc = d
          <6>1. PICK b : b = CHOOSE c \in told : c.doc = d
            OBVIOUS
          <6>2. b \in told /\ b.doc = d
            BY <5>1, <6>1
          <6>3. confirmed'[k][d] = b.stamp
            BY <3>2, <5>1, <6>1
          <6> QED
            BY <2>2, <6>2, <6>3
        <5>2. CASE ~ \E c \in told : c.doc = d
          BY <1>2, <1>3, <3>2, <5>2
        <5> QED
          BY <5>1, <5>2
      <4> QED
        BY <3>2, <4>1
    <3> QED
      BY <1>13, <3>1, <3>2 DEF Confirmed
  <2>4. ASSUME NEW k \in Keys PROVE Sound(k) /\ (confirmed'[k] = confirmed[k] \/ Asks(k))
    <3>1. Query(cache[k])
      BY <1>2
    <3>2. CASE k \in Touched(r) /\ cache[k].known /\ k \in Shown
      <4>1. cache'[k] = [cache[k] EXCEPT !.fetch = "asked", !.next = {}, !.stale = TRUE]
        BY <1>13, <3>2, Zenon DEF Invalidated, Invalidate
      <4> QED
        BY <3>1, <4>1 DEF Query, Asks
    <3>3. CASE k \in Touched(r) /\ cache[k].known /\ k \notin Shown
      <4>1. cache'[k] = [cache[k] EXCEPT !.stale = TRUE]
        BY <1>13, <3>3, Zenon DEF Invalidated, Invalidate
      <4>2. confirmed'[k] = confirmed[k]
        BY <1>13, <3>3 DEF Confirmed
      <4> QED
        BY <3>1, <4>1, <4>2 DEF Query, Same
    <3>4. CASE ~(k \in Touched(r) /\ cache[k].known)
      <4>1. cache'[k] = cache[k]
        BY <1>13, <3>4 DEF Invalidated
      <4>2. confirmed'[k] = confirmed[k]
        BY <1>13, <3>4 DEF Confirmed
      <4> HIDE DEF Sound
      <4> QED
        BY <1>5, <4>1, <4>2
    <3> HIDE DEF Sound
    <3> QED
      BY <3>2, <3>3, <3>4
  <2>5. confirmed' \in [Keys -> [Docs -> Nat]]
    BY <2>1, <2>3
  <2> QED
    BY <2>1, <2>3, <2>4, <2>5 DEF CacheShape
<1> HIDE DEF Sound, Goal
<1>14. ASSUME OthersStep PROVE Goal
  BY <1>6, <1>14 DEF OthersStep, OtherActs
<1>15. ASSUME PageStep PROVE Goal
  BY <1>6, <1>15, Zenon DEF PageStep, ChangeFilters, TurnPage, OpenDialog, CancelDialog, Confirm, Bulk, OfPage
<1>16. ASSUME CacheStep PROVE Goal
  BY <1>8, <1>11, <1>12, <1>16, Zenon DEF CacheStep, Open
<1>17. ASSUME OnApprovals PROVE Goal
  BY <1>6, <1>12, <1>17 DEF OnApprovals, OpenDrawer, CloseDrawer, Decide, OfPage
<1>18. ASSUME NEW t \in Tasks, TaskStep(t) PROVE Goal
  <2>1. ASSUME CallAnswered(t) PROVE Goal
    <3>1. TaskInv(task[t]) /\ OfDoc(task[t]) \in SUBSET task[t].changed
      BY <1>1 DEF TasksInv, OfDoc
    <3>2. \/ cache' = Invalidated(Touched(task[t])) /\ confirmed' = Confirmed(task[t], OfDoc(task[t]))
          \/ UNCHANGED <<cache, confirmed>>
      BY <2>1 DEF CallAnswered
    <3> QED
      BY <1>6, <1>13, <3>1, <3>2
  <2>2. ASSUME Undo(t) \/ Fire(t) \/ ServeCall(t) \/ CallFails(t) \/ \E d \in Docs : Send(t, d) PROVE Goal
    BY <1>6, <2>2, Zenon DEF Undo, Fire, ServeCall, CallFails, Send, OfView
  <2> QED
    BY <1>18, <2>1, <2>2 DEF TaskStep
<1>19. ASSUME NEW t \in Tasks, Ends(t) PROVE Goal
  <2>1. TaskInv(task[t]) /\ task[t].told \in SUBSET task[t].changed
    BY <1>1, TaskFields DEF TasksInv
  <2>2. \/ cache' = Invalidated(Touched(task[t])) /\ confirmed' = Confirmed(task[t], task[t].told)
        \/ UNCHANGED <<cache, confirmed>>
    BY <1>19 DEF Ends, Finish
  <2> QED
    BY <1>6, <1>13, <2>1, <2>2
<1>20. ASSUME NEW k \in Keys, PageFails(k) \/ PageArrives(k) PROVE Goal
  BY <1>9, <1>10, <1>20 DEF PageArrives
<1>21. ASSUME Leave PROVE Goal
  BY <1>6, <1>21 DEF Leave
<1>22. ASSUME OpenApprovals \/ \E d \in Docs : OpenDocument(d) PROVE Goal
  BY <1>12, <1>22, Zenon DEF OpenApprovals, OpenDocument
<1>23. ASSUME OnDesk PROVE Goal
  BY <1>6, <1>23, Zenon DEF OnDesk, OnDocument, EditChain, Compare, ChoosePreview, SaveChain, SetLegalHold, UploadFile,
                     RestoreVersion, ClosePreview, LoadAnswered, LoadFails, CancelEdit, Redraft, OfDesk, OfPage
<1>24. ASSUME UNCHANGED vars PROVE Goal
  BY <1>6, <1>24 DEF vars
<1>25. ASSUME Next PROVE Goal
  BY <1>14, <1>15, <1>16, <1>17, <1>18, <1>19, <1>20, <1>21, <1>22, <1>23, <1>25, Zenon DEF Next
<1>26. Goal
  BY <1>24, <1>25
<1> QED
  BY <1>26 DEF Goal

LEMMA FreshStays ==
    ASSUME ServicesInv, ServicesInv', CacheInv, Grows, NEW k \in Keys, NEW rows, Fresh(k, rows),
           confirmed'[k] = confirmed[k]
    PROVE  Fresh(k, rows)'
<1>1. \A d \in Docs : confirmed[k][d] <= stamp[d] /\ confirmed[k][d] \in Nat /\ stamp[d] \in Nat
  BY DEF CacheInv, ServicesInv
<1>2. CASE k[1] # "history"
  BY <1>2 DEF Fresh
<1>3. CASE k[1] = "history"
  <2>1. PICK d \in Docs : k[2] = d
    BY <1>3, KeyFacts, KeysDiffer
  <2>2. ASSUME NEW e \in past', e.doc = d, e.stamp <= confirmed[k][d] PROVE e \in past
    <3>1. e.stamp \in Nat
      BY <2>2 DEF ServicesInv
    <3>2. CASE e.stamp > stamp[e.doc]
      BY <1>1, <2>2, <3>1, <3>2
    <3> QED
      BY <2>2, <3>2 DEF Grows
  <2> QED
    BY <1>3, <2>1, <2>2 DEF Fresh
<1> QED
  BY <1>2, <1>3

LEMMA CacheStepInv ==
    ASSUME LibraryInv, [Next]_vars
    PROVE  CacheInv'
<1>1. ServicesInv /\ CacheInv /\ Grows /\ ServicesInv' /\ CacheShape
  BY ServicesStep, CacheShapes DEF LibraryInv
<1>2. ASSUME NEW k \in Keys
      PROVE  /\ cache'[k].rows \in {cache[k].rows, cache[k].next}
             /\ cache'[k].next \in {cache[k].next, {}, Answer(k)}
  <2>1. Same(k) \/ Asks(k) \/ Gets(k) \/ Shows(k) \/ Fails(k)
    BY <1>1 DEF CacheShape
  <2> QED
    BY <2>1 DEF Same, Asks, Gets, Shows, Fails, NoQuery
<1>3. \A row \in cache'[ListKey].rows \cup cache'[ListKey].next \cup cache'[QueueKey].rows \cup cache'[QueueKey].next :
         RowInv(row)
  <2>1. \A row \in cache[ListKey].rows \cup cache[ListKey].next \cup cache[QueueKey].rows \cup cache[QueueKey].next :
           RowInv(row)
    BY <1>1 DEF CacheInv, list
  <2>2. \A row \in Answer(ListKey) \cup Answer(QueueKey) : RowInv(row)
    BY <1>1, Answers
  <2>3. ASSUME NEW k \in {ListKey, QueueKey}, NEW row \in cache'[k].rows \cup cache'[k].next PROVE RowInv(row)
    <3>1. k \in Keys
      BY KeyFacts
    <3>2. row \in cache[k].rows \cup cache[k].next \cup Answer(k)
      BY <1>2, <3>1
    <3> QED
      BY <2>1, <2>2, <3>2
  <2> QED
    BY <2>3
<1>4. ASSUME NEW d \in Docs
      PROVE  /\ \A x \in cache'[DetailKey(d)].rows \cup cache'[DetailKey(d)].next : DetailInv(d, x)'
             /\ \A x, y \in cache'[DetailKey(d)].rows : x = y
             /\ \A x, y \in cache'[DetailKey(d)].next : x = y
             /\ \A e \in cache'[HistoryKey(d)].rows \cup cache'[HistoryKey(d)].next : e \in past' /\ e.doc = d
  <2>1. /\ \A x \in cache[DetailKey(d)].rows \cup cache[DetailKey(d)].next : DetailInv(d, x)
        /\ \A x, y \in cache[DetailKey(d)].rows : x = y
        /\ \A x, y \in cache[DetailKey(d)].next : x = y
        /\ \A e \in cache[HistoryKey(d)].rows \cup cache[HistoryKey(d)].next : e \in past /\ e.doc = d
    BY <1>1 DEF CacheInv
  <2>2. /\ Answer(DetailKey(d)) = {Detail(d)} /\ DetailInv(d, Detail(d))
        /\ \A e \in Answer(HistoryKey(d)) : e \in past /\ e.doc = d
    BY <1>1, Answers
  <2>3. DetailKey(d) \in Keys /\ HistoryKey(d) \in Keys
    BY KeyFacts
  <2>4. ASSUME NEW x \in cache'[DetailKey(d)].rows \cup cache'[DetailKey(d)].next PROVE DetailInv(d, x)'
    <3>1. PICK z : z = x
      OBVIOUS
    <3>2. z \in cache[DetailKey(d)].rows \cup cache[DetailKey(d)].next \cup {Detail(d)}
      BY <1>2, <2>2, <2>3, <3>1
    <3>3. DetailInv(d, z)
      BY <2>1, <2>2, <3>2
    <3>4. DetailInv(d, z)'
      BY <1>1, <3>3, DetailStays
    <3> QED
      BY <3>1, <3>4
  <2>5. ASSUME NEW e \in cache'[HistoryKey(d)].rows \cup cache'[HistoryKey(d)].next PROVE e \in past' /\ e.doc = d
    <3>1. e \in cache[HistoryKey(d)].rows \cup cache[HistoryKey(d)].next \cup Answer(HistoryKey(d))
      BY <1>2, <2>3
    <3> QED
      BY <1>1, <2>1, <2>2, <3>1 DEF Grows
  <2>6. \A x, y \in cache'[DetailKey(d)].rows : x = y
    BY <1>2, <2>1, <2>3
  <2>7. \A x, y \in cache'[DetailKey(d)].next : x = y
    BY <1>2, <2>1, <2>2, <2>3
  <2> QED
    BY <2>4, <2>5, <2>6, <2>7
<1>5. ASSUME NEW k \in Keys, NEW rows, Fresh(k, rows), ~Asks(k) PROVE Fresh(k, rows)'
  <2>1. confirmed'[k] = confirmed[k]
    BY <1>1, <1>5 DEF CacheShape
  <2> QED
    BY <1>1, <1>5, <2>1, FreshStays
<1>6. ASSUME NEW k \in Keys
      PROVE  /\ cache'[k].fetch = "served" => Fresh(k, cache[k].next)'
             /\ cache'[k].fetch = "none" /\ cache'[k].known /\ ~cache'[k].error => Fresh(k, cache[k].rows)'
  <2>1. /\ cache[k].fetch = "served" => Fresh(k, cache[k].next)
        /\ cache[k].fetch = "none" /\ cache[k].known /\ ~cache[k].error => Fresh(k, cache[k].rows)
    BY <1>1 DEF CacheInv
  <2>2. Fresh(k, Answer(k))
    BY <1>1, Answers
  <2>3. PICK rows, next : rows = cache'[k].rows /\ next = cache'[k].next
    OBVIOUS
  <2>4. Asks(k) => cache'[k].fetch = "asked"
    BY DEF Asks
  <2>5. cache'[k].fetch = "served" => Fresh(k, next)
    <3>1. CASE Same(k)
      BY <2>1, <2>3, <3>1 DEF Same
    <3>2. CASE Asks(k) \/ Shows(k) \/ Fails(k)
      BY <3>2 DEF Asks, Shows, Fails, NoQuery
    <3>3. CASE Gets(k)
      BY <2>2, <2>3, <3>3 DEF Gets
    <3> QED
      BY <1>1, <3>1, <3>2, <3>3 DEF CacheShape
  <2>6. cache'[k].fetch = "none" /\ cache'[k].known /\ ~cache'[k].error => Fresh(k, rows)
    <3>1. CASE Same(k)
      BY <2>1, <2>3, <3>1 DEF Same
    <3>2. CASE Asks(k) \/ Gets(k) \/ Fails(k)
      BY <3>2 DEF Asks, Gets, Fails
    <3>3. CASE Shows(k)
      BY <2>1, <2>3, <3>3 DEF Shows, NoQuery
    <3> QED
      BY <1>1, <3>1, <3>2, <3>3 DEF CacheShape
  <2>7. cache'[k].fetch = "served" => Fresh(k, next)'
    BY <1>5, <2>4, <2>5
  <2>8. cache'[k].fetch = "none" /\ cache'[k].known /\ ~cache'[k].error => Fresh(k, rows)'
    BY <1>5, <2>4, <2>6
  <2> QED
    BY <2>3, <2>7, <2>8
<1>7. ASSUME NEW d \in Docs, cache'[DetailKey(d)].fetch = "served",
             NEW x \in cache'[DetailKey(d)].rows, NEW y \in cache'[DetailKey(d)].next
      PROVE  Len(x.versions) <= Len(y.versions)
  <2> DEFINE k == DetailKey(d)
  <2>1. k \in Keys /\ Answer(k) = {Detail(d)} /\ Detail(d).versions = files[d]
    BY <1>1, KeyFacts, Answers, RowFacts
  <2>2. CASE Same(k)
    BY <1>1, <1>7, <2>2 DEF CacheInv, Same
  <2>3. CASE Gets(k)
    <3>1. x \in cache[k].rows /\ y = Detail(d)
      BY <1>7, <2>1, <2>3 DEF Gets
    <3>2. DetailInv(d, x)
      BY <1>1, <3>1 DEF CacheInv
    <3> QED
      BY <2>1, <3>1, <3>2 DEF DetailInv
  <2>4. CASE Asks(k) \/ Shows(k) \/ Fails(k)
    BY <1>7, <2>4 DEF Asks, Shows, Fails, NoQuery
  <2> QED
    BY <1>1, <2>1, <2>2, <2>3, <2>4 DEF CacheShape
<1>9. ASSUME NEW d \in Docs, cache'[DetailKey(d)].fetch = "served" PROVE cache'[DetailKey(d)].next # {}
  <2> DEFINE k == DetailKey(d)
  <2>1. k \in Keys /\ Answer(k) = {Detail(d)}
    BY <1>1, KeyFacts, Answers
  <2>2. CASE Same(k)
    BY <1>1, <1>9, <2>2 DEF CacheInv, Same
  <2>3. CASE Gets(k)
    BY <1>9, <2>1, <2>3 DEF Gets
  <2>4. CASE Asks(k) \/ Shows(k) \/ Fails(k)
    BY <1>9, <2>4 DEF Asks, Shows, Fails, NoQuery
  <2> QED
    BY <1>1, <2>1, <2>2, <2>3, <2>4 DEF CacheShape
<1>8. /\ cache' = [k \in Keys |-> cache'[k]] /\ \A k \in Keys : Query(cache'[k])
      /\ confirmed' \in [Keys -> [Docs -> Nat]] /\ \A k \in Keys, d \in Docs : confirmed'[k][d] <= stamp'[d]
  BY <1>1 DEF CacheShape
<1> QED
  BY <1>3, <1>4, <1>6, <1>7, <1>8, <1>9 DEF CacheInv, list
-----------------------------------------------------------------------------
(* The preview: what changes it leaves it as an answer of the services may    *)
(* find it.                                                                   *)
LEMMA PreviewStays ==
    ASSUME ServicesInv, Grows, NEW d \in Docs, NEW dk, PreviewInv(dk, d)
    PROVE  PreviewInv(dk, d)'
<1>1. /\ files[d] \in Seq(FileType) /\ files'[d] \in Seq(FileType) /\ Len(files[d]) <= Len(files'[d])
      /\ \A i \in 1..Len(files[d]) : files'[d][i] = files[d][i]
  BY DEF ServicesInv, Grows
<1>2. Len(files[d]) \in Nat /\ Len(files'[d]) \in Nat
  BY <1>1
<1>3. \A i \in 1..Len(files[d]) : i \in 1..Len(files'[d])
  BY <1>2, <1>1
<1> QED
  BY <1>1, <1>3 DEF PreviewInv, DeskType, Awaited, LoadType

LEMMA NewPreview == ASSUME NEW d PROVE PreviewInv(NewDesk, d) /\ PreviewInv(NewDesk, d)'
<1>1. NewDesk \in DeskType(<<>>)
  BY DEF NewDesk, DeskType, LoadType
<1>2. NewDesk.loads = <<>> /\ NewDesk.view = "none" /\ NewDesk.chosen = 0 /\ NewDesk.draft = <<>>
  BY DEF NewDesk
<1>3. Len(<<>>) = 0 /\ 1..0 = {}
  OBVIOUS
<1> QED
  BY <1>1, <1>2, <1>3 DEF PreviewInv, Viewers

(* What is edited or compared does not matter to it.                          *)
LEMMA EditPreview ==
    ASSUME NEW d, NEW dk, PreviewInv(dk, d), NEW n, NEW editing \in BOOLEAN, NEW draft, NEW compare \in Seq(Nat),
           n = [dk EXCEPT !.editing = editing, !.draft = draft, !.compare = compare]
    PROVE  PreviewInv(n, d)
<1>1. dk \in DeskType(dk.draft)
  BY DEF PreviewInv
<1>2. n \in DeskType(draft) /\ n.draft = draft /\ n.chosen = dk.chosen /\ n.view = dk.view /\ n.of = dk.of
      /\ n.loads = dk.loads
  BY <1>1 DEF DeskType
<1> QED
  BY <1>2 DEF PreviewInv

LEMMA CancelledLoads ==
    ASSUME NEW loads \in Seq(LoadType)
    PROVE  /\ Cancelled(loads) \in Seq(LoadType) /\ Len(Cancelled(loads)) = Len(loads)
           /\ \A i \in 1..Len(loads) : /\ ~Cancelled(loads)[i].live
                                       /\ Cancelled(loads)[i].version = loads[i].version
<1>1. \A i \in 1..Len(loads) : loads[i] \in LoadType
  OBVIOUS
<1>2. \A i \in 1..Len(loads) : [loads[i] EXCEPT !.live = FALSE] \in LoadType
  BY <1>1 DEF LoadType
<1>3. Cancelled(loads) = [i \in 1..Len(loads) |-> [loads[i] EXCEPT !.live = FALSE]]
  BY DEF Cancelled
<1>4. Len(loads) \in Nat
  OBVIOUS
<1>5. Cancelled(loads) \in Seq(LoadType) /\ Len(Cancelled(loads)) = Len(loads)
  BY <1>2, <1>3, <1>4
<1> QED
  BY <1>1, <1>3, <1>5 DEF LoadType

LEMMA UnloadedPreview ==
    ASSUME NEW d, NEW dk, PreviewInv(dk, d)
    PROVE  PreviewInv(Unloaded(dk), d) /\ PreviewInv([Unloaded(dk) EXCEPT !.chosen = 0], d)
<1>1. dk \in DeskType(dk.draft) /\ dk.loads \in Seq(LoadType)
  BY DEF PreviewInv, DeskType
<1>2. /\ Cancelled(dk.loads) \in Seq(LoadType) /\ Len(Cancelled(dk.loads)) = Len(dk.loads)
      /\ \A i \in 1..Len(dk.loads) : /\ ~Cancelled(dk.loads)[i].live
                                     /\ Cancelled(dk.loads)[i].version = dk.loads[i].version
  BY <1>1, CancelledLoads
<1>3. ASSUME NEW n, NEW chosen \in {dk.chosen, 0},
             n = [dk EXCEPT !.view = "none", !.of = 0, !.loads = Cancelled(dk.loads), !.chosen = chosen]
      PROVE  PreviewInv(n, d)
  <2> DEFINE loads == Cancelled(dk.loads)
  <2>3. chosen \in Nat /\ loads \in Seq(LoadType)
    BY <1>1, <1>2 DEF DeskType
  <2> HIDE DEF loads
  <2>4. n = [dk EXCEPT !.view = "none", !.of = 0, !.loads = loads, !.chosen = chosen]
    BY <1>3 DEF loads
  <2>5. /\ n \in DeskType(dk.draft) /\ n.draft = dk.draft /\ n.chosen = chosen /\ n.view = "none"
        /\ n.loads = loads
    BY <1>1, <2>3, <2>4 DEF DeskType
  <2>1. /\ n \in DeskType(dk.draft) /\ n.draft = dk.draft /\ n.chosen = chosen /\ n.view = "none"
        /\ n.loads = Cancelled(dk.loads)
    BY <2>5 DEF loads
  <2>2. "none" \notin Viewers
    BY DEF Viewers
  <2> QED
    BY <1>2, <2>1, <2>2 DEF PreviewInv, Awaited
<1>4. Unloaded(dk) = [dk EXCEPT !.view = "none", !.of = 0, !.loads = Cancelled(dk.loads), !.chosen = dk.chosen]
  BY <1>1 DEF Unloaded, DeskType
<1>5. [Unloaded(dk) EXCEPT !.chosen = 0] =
         [dk EXCEPT !.view = "none", !.of = 0, !.loads = Cancelled(dk.loads), !.chosen = 0]
  BY DEF Unloaded
<1> QED
  BY <1>3, <1>4, <1>5

LEMMA LoadingPreview ==
    ASSUME NEW d \in Docs, ServicesInv, NEW dk, PreviewInv(dk, d),
           NEW v \in 1..Len(files[d]), PreviewSupported(files[d][v])
    PROVE  PreviewInv(Loading(dk, v), d)
<1> DEFINE load == [version |-> v, live |-> TRUE, done |-> FALSE]
           loads == Append(Cancelled(dk.loads), load)
           n == [dk EXCEPT !.chosen = v, !.view = "loading", !.of = 0, !.loads = loads]
<1>1. dk \in DeskType(dk.draft) /\ dk.loads \in Seq(LoadType) /\ v \in Nat /\ v # 0
  BY DEF PreviewInv, DeskType, ServicesInv
<1>2. /\ Cancelled(dk.loads) \in Seq(LoadType) /\ Len(Cancelled(dk.loads)) = Len(dk.loads)
      /\ \A i \in 1..Len(dk.loads) : /\ ~Cancelled(dk.loads)[i].live
                                     /\ Cancelled(dk.loads)[i].version = dk.loads[i].version
  BY <1>1, CancelledLoads
<1>3. load \in LoadType
  BY <1>1 DEF LoadType
<1>4. /\ loads \in Seq(LoadType) /\ Len(loads) = Len(dk.loads) + 1 /\ loads[Len(loads)] = load
      /\ \A i \in 1..Len(dk.loads) : loads[i] = Cancelled(dk.loads)[i]
      /\ Len(dk.loads) \in Nat
  BY <1>1, <1>2, <1>3
<1> HIDE DEF loads
<1>5. n \in DeskType(dk.draft)
  BY <1>1, <1>4 DEF DeskType
<1>6. /\ n.draft = dk.draft /\ n.chosen = v /\ n.view = "loading" /\ n.loads = loads
  BY <1>1 DEF DeskType
<1>7. n = Loading(dk, v)
  BY DEF Loading, loads
<1> HIDE DEF n
<1>8. "loading" \notin Viewers /\ "loading" # "unsupported"
  BY DEF Viewers
<1>9. ASSUME NEW i \in 1..Len(loads)
      PROVE  /\ loads[i].version \in 1..Len(files[d])
             /\ loads[i].live => i = Len(loads) /\ loads[i].version = v
  <2>1. CASE i = Len(loads)
    BY <1>4, <2>1
  <2>2. CASE i \in 1..Len(dk.loads)
    BY <1>2, <1>4, <2>2 DEF PreviewInv
  <2> QED
    BY <1>4, <2>1, <2>2
<1>10. Len(loads) \in 1..Len(loads) /\ Awaited(loads[Len(loads)])
  BY <1>4 DEF Awaited
<1>11. PreviewInv(n, d)
  BY <1>5, <1>6, <1>8, <1>9, <1>10 DEF PreviewInv
<1> QED
  BY <1>7, <1>11

LEMMA LandedPreview ==
    ASSUME NEW d \in Docs, ServicesInv, PreviewInv(desk, d), NEW i \in 1..Len(desk.loads), ~desk.loads[i].done,
           NEW view \in Viewers \cup {"error"}, desk.loads[i].live /\ view = "unsupported" => files[d][desk.loads[i].version].large
    PROVE  PreviewInv(Landed(i, view), d)
<1> DEFINE load == desk.loads[i]
           loads == [desk.loads EXCEPT ![i] = [load EXCEPT !.done = TRUE]]
           n == [desk EXCEPT !.loads = loads, !.view = view, !.of = load.version]
           m == [desk EXCEPT !.loads = loads]
<1>1. desk \in DeskType(desk.draft) /\ desk.loads \in Seq(LoadType) /\ load \in LoadType
  BY DEF PreviewInv, DeskType
<1>2. [load EXCEPT !.done = TRUE] \in LoadType /\ [load EXCEPT !.done = TRUE].version = load.version
      /\ [load EXCEPT !.done = TRUE].live = load.live /\ [load EXCEPT !.done = TRUE].done
  BY <1>1 DEF LoadType
<1>3. /\ loads \in Seq(LoadType) /\ Len(loads) = Len(desk.loads)
      /\ \A k \in 1..Len(desk.loads) : /\ loads[k].version = desk.loads[k].version
                                       /\ loads[k].live = desk.loads[k].live
                                       /\ k # i => loads[k] = desk.loads[k]
      /\ loads[i].done
  BY <1>1, <1>2
<1>4. /\ load.version \in 1..Len(files[d])
      /\ load.live => i = Len(desk.loads) /\ load.version = desk.chosen
  BY DEF PreviewInv
<1>5. load.version \in Nat /\ load.version # 0 /\ view \in Viewers \cup {"none", "loading", "error"}
  BY <1>4 DEF ServicesInv
<1> HIDE DEF loads
<1>6. /\ n \in DeskType(desk.draft) /\ n.draft = desk.draft /\ n.chosen = desk.chosen /\ n.view = view
      /\ n.of = load.version /\ n.loads = loads
  BY <1>1, <1>3, <1>5 DEF DeskType
<1>7. /\ m \in DeskType(desk.draft) /\ m.draft = desk.draft /\ m.chosen = desk.chosen /\ m.view = desk.view
      /\ m.of = desk.of /\ m.loads = loads
  BY <1>1, <1>3 DEF DeskType
<1>8. CASE load.live
  <2>1. n = Landed(i, view)
    BY <1>1, <1>8 DEF Landed, loads, DeskType
  <2>2. view # "loading"
    BY DEF Viewers
  <2>3. \A k \in 1..Len(loads) : ~Awaited(loads[k])
    BY <1>3, <1>4, <1>8 DEF PreviewInv, Awaited
  <2>4. PreviewInv(n, d)
    <3> HIDE DEF n
    <3> QED
      BY <1>3, <1>4, <1>5, <1>6, <1>8, <2>2, <2>3 DEF PreviewInv
  <2> QED
    BY <2>1, <2>4
<1>9. CASE ~load.live
  <2>1. m = Landed(i, view)
    BY <1>1, <1>9 DEF Landed, loads, DeskType
  <2>2. \A k \in 1..Len(loads) : Awaited(loads[k]) <=> Awaited(desk.loads[k])
    BY <1>3, <1>9 DEF Awaited
  <2>3. PreviewInv(m, d)
    <3> HIDE DEF m
    <3> QED
      BY <1>3, <1>7, <2>2 DEF PreviewInv
  <2> QED
    BY <2>1, <2>3
<1> QED
  BY <1>8, <1>9

(* A version that was announced as supported has a viewer, unless it is large. *)
LEMMA ViewerFacts ==
    ASSUME NEW file
    PROVE  /\ Viewer(file) \in Viewers
           /\ PreviewSupported(file) /\ Viewer(file) = "unsupported" => file.large
BY DEF Viewer, PreviewSupported, ContentType, Viewers

-----------------------------------------------------------------------------
(* The comparison.                                                            *)
LEMMA CompareStays ==
    ASSUME LibraryInv, [Next]_vars, NEW d \in Docs, NEW compare, CompareInv(compare, d),
           Fails(DetailKey(d)) => compare = <<>>
    PROVE  CompareInv(compare, d)'
<1> DEFINE k == DetailKey(d)
<1>1. ServicesInv /\ CacheInv /\ CacheShape /\ k \in Keys
  BY CacheShapes, KeyFacts DEF LibraryInv
<1>2. CASE compare = <<>>
  BY <1>2 DEF CompareInv
<1>3. ASSUME compare # <<>>
      PROVE  /\ cache'[k].known /\ ~cache'[k].error
             /\ \E x \in cache'[k].rows : \A i \in 1..Len(compare) : compare[i] \in 1..Len(x.versions)
  <2>1. PICK x \in cache[k].rows : \A i \in 1..Len(compare) : compare[i] \in 1..Len(x.versions)
    BY <1>3 DEF CompareInv
  <2>2. cache[k].known /\ ~cache[k].error
    BY <1>3 DEF CompareInv, Usable
  <2>3. CASE Same(k) \/ Asks(k) \/ Gets(k)
    BY <2>1, <2>2, <2>3 DEF Same, Asks, Gets
  <2>4. CASE Shows(k)
    <3>1. cache[k].fetch = "served" /\ cache'[k].rows = cache[k].next /\ cache'[k].known /\ ~cache'[k].error
      BY <2>4 DEF Shows, NoQuery
    <3>2. cache[k].next # {} /\ \A y \in cache[k].next : Len(x.versions) <= Len(y.versions)
      BY <1>1, <2>1, <3>1 DEF CacheInv
    <3>3. PICK y \in cache[k].next : Len(x.versions) <= Len(y.versions)
      BY <3>2
    <3>4. Len(x.versions) \in Nat /\ Len(y.versions) \in Nat
      BY <1>1, <2>1, <3>3 DEF CacheInv, DetailInv
    <3>5. \A i \in 1..Len(compare) : compare[i] \in 1..Len(y.versions)
      BY <2>1, <3>3, <3>4
    <3> QED
      BY <3>1, <3>3, <3>5
  <2>5. ~Fails(k)
    BY <1>3
  <2> QED
    BY <1>1, <2>3, <2>4, <2>5 DEF CacheShape
<1> QED
  BY <1>2, <1>3 DEF CompareInv, Usable

LEMMA Toggled ==
    ASSUME NEW selected \in Seq(Nat), NEW n \in Nat, Len(selected) <= 2,
           \A i \in 1..Len(selected) : selected[i] \in 1..n, NEW v \in 1..n
    PROVE  /\ ToggleCompare(selected, v) \in Seq(Nat) /\ Len(ToggleCompare(selected, v)) <= 2
           /\ \A i \in 1..Len(ToggleCompare(selected, v)) : ToggleCompare(selected, v)[i] \in 1..n
<1> DEFINE Goal(s) == s \in Seq(Nat) /\ Len(s) <= 2 /\ \A i \in 1..Len(s) : s[i] \in 1..n
<1>1. ASSUME NEW s \in Seq(1..n), Len(s) <= 2 PROVE Goal(s)
  <2>1. \A i \in 1..Len(s) : s[i] \in 1..n /\ s[i] \in Nat
    BY <1>1
  <2>2. s \in Seq(Nat)
    BY <1>1, <2>1
  <2> QED
    BY <1>1, <2>1, <2>2
<1>2. selected \in Seq(1..n) /\ Len(selected) \in Nat
  OBVIOUS
<1>3. CASE Seqs!Contains(selected, v)
  <2> DEFINE k == CHOOSE i \in DOMAIN selected : selected[i] = v
             before == SubSeq(selected, 1, k - 1)
             after == SubSeq(selected, k + 1, Len(selected))
  <2>1. k \in 1..Len(selected)
    BY <1>3 DEF Seqs!Contains
  <2>2. ToggleCompare(selected, v) = before \o after
    BY <1>3 DEF ToggleCompare, Seqs!RemoveAt
  <2> HIDE DEF k
  <2>3. before \in Seq(1..n) /\ Len(before) = k - 1
    BY <1>2, <2>1, SubSeqProperties
  <2>4. after \in Seq(1..n) /\ Len(after) = Len(selected) - k
    BY <1>2, <2>1, SubSeqProperties
  <2> HIDE DEF before, after
  <2>5. before \o after \in Seq(1..n) /\ Len(before \o after) = Len(selected) - 1
    BY <1>2, <2>1, <2>3, <2>4, ConcatProperties
  <2> QED
    BY <1>1, <1>2, <2>2, <2>5, SMTT(30)
<1>4. CASE ~Seqs!Contains(selected, v) /\ Len(selected) = 2
  <2>1. ToggleCompare(selected, v) = <<selected[2], v>> /\ selected[2] \in 1..n
    BY <1>4 DEF ToggleCompare
  <2>2. <<selected[2], v>> \in Seq(1..n) /\ Len(<<selected[2], v>>) = 2
    BY <2>1
  <2> QED
    BY <1>1, <2>1, <2>2
<1>5. CASE ~Seqs!Contains(selected, v) /\ Len(selected) # 2
  <2>1. ToggleCompare(selected, v) = Append(selected, v)
    BY <1>5 DEF ToggleCompare
  <2>2. Append(selected, v) \in Seq(1..n) /\ Len(Append(selected, v)) = Len(selected) + 1
    BY <1>2, AppendProperties
  <2>4. Len(selected) # 2
    BY <1>5
  <2>3. Len(selected) <= 1
    <3>1. PICK l \in Nat : l = Len(selected)
      BY <1>2
    <3>2. l <= 2 /\ l # 2
      BY <2>4, <3>1
    <3> QED
      BY <3>1, <3>2
  <2> QED
    BY <1>1, <1>2, <2>1, <2>2, <2>3
<1> QED
  BY <1>3, <1>4, <1>5

-----------------------------------------------------------------------------
(* The desk: a step leaves the page, or stays on it and leaves a desk that is *)
(* right for it.                                                              *)
LEMMA StaysOrLeaves ==
    ASSUME LibraryInv, [Next]_vars
    PROVE  \/ desk' = NewDesk
           \/ page'.open = page.open /\ page'.doc = page.doc
<1> DEFINE Goal == desk' = NewDesk \/ (page'.open = page.open /\ page'.doc = page.doc)
<1>1. /\ \E filters, number, dialog, drawer :
            page \in [open : ListPages \cup {"closed", "document", "approvals"}, doc : Docs, filters : {filters},
                      number : {number}, dialog : {dialog}, drawer : {drawer}]
      /\ page.open = "closed" => desk = NewDesk
  BY DEF LibraryInv, PageInv, DeskInv
<1>2. ASSUME NEW p, \/ p = page
                    \/ \E filters, number : p = [page EXCEPT !.filters = filters, !.number = number]
                    \/ \E number : p = [page EXCEPT !.number = number]
                    \/ \E dialog : p = [page EXCEPT !.dialog = dialog]
                    \/ \E busy : p = [page EXCEPT !.dialog.busy = busy]
                    \/ \E drawer : p = [page EXCEPT !.drawer = drawer]
                    \/ \E number, dialog, drawer :
                          p = [page EXCEPT !.number = number, !.dialog = dialog, !.drawer = drawer]
      PROVE  p.open = page.open /\ p.doc = page.doc
  BY <1>1, <1>2, Zenon
<1>3. ASSUME UNCHANGED page PROVE Goal
  BY <1>3
<1>4. ASSUME page.open = "closed", UNCHANGED desk PROVE Goal
  BY <1>1, <1>4
<1>5. ASSUME OthersStep PROVE Goal
  BY <1>3, <1>5 DEF OthersStep, OtherActs
<1>6. ASSUME PageStep PROVE Goal
  <2>1. ASSUME NEW filters, ChangeFilters(filters) PROVE Goal
    BY <1>2, <2>1, Zenon DEF ChangeFilters
  <2>2. ASSUME NEW number, TurnPage(number) PROVE Goal
    BY <1>2, <2>2, Zenon DEF TurnPage
  <2>3. ASSUME NEW row, NEW a, OpenDialog(row, a) PROVE Goal
    BY <1>2, <2>3, Zenon DEF OpenDialog
  <2>4. ASSUME CancelDialog PROVE Goal
    BY <1>2, <2>4, Zenon DEF CancelDialog
  <2>5. ASSUME NEW t, Confirm(t) PROVE Goal
    BY <1>2, <2>5, Zenon DEF Confirm
  <2>6. ASSUME NEW t, NEW a, NEW rows, Bulk(t, a, rows) PROVE Goal
    BY <1>3, <2>6 DEF Bulk
  <2> QED
    BY <1>6, <2>1, <2>2, <2>3, <2>4, <2>5, <2>6 DEF PageStep
<1>7. ASSUME CacheStep, UNCHANGED desk PROVE Goal
  <2>1. ASSUME NEW k, Serve(k) \/ Refetch(k) PROVE Goal
    BY <1>3, <2>1 DEF Serve, Refetch, OfCache
  <2>2. ASSUME NEW where, Open(where) PROVE Goal
    BY <1>4, <1>7, <2>2 DEF Open
  <2> QED
    BY <1>7, <2>1, <2>2 DEF CacheStep
<1>8. ASSUME OnApprovals PROVE Goal
  <2>1. ASSUME NEW row, OpenDrawer(row) PROVE Goal
    BY <1>2, <2>1, Zenon DEF OpenDrawer
  <2>2. ASSUME CloseDrawer PROVE Goal
    BY <1>2, <2>2, Zenon DEF CloseDrawer
  <2>3. ASSUME NEW row, NEW a, Decide(row, a) PROVE Goal
    BY <1>2, <2>3, Zenon DEF Decide
  <2> QED
    BY <1>8, <2>1, <2>2, <2>3 DEF OnApprovals
<1>9. ASSUME NEW t \in Tasks, TaskStep(t) PROVE Goal
  BY <1>3, <1>9, Zenon DEF TaskStep, Undo, Fire, ServeCall, CallAnswered, CallFails, Send, OfView
<1>10. ASSUME NEW t, Ends(t) PROVE Goal
  <2>1. \E n, dialog, drawer : page' \in {page, [page EXCEPT !.number = n, !.dialog = dialog, !.drawer = drawer]}
    BY <1>10, Zenon DEF Ends, Finish
  <2> QED
    BY <1>2, <2>1, Zenon
<1>11. ASSUME NEW k, PageFails(k) PROVE Goal
  <2>1. page' \in {page, [page EXCEPT !.dialog = NoDialog]}
    BY <1>11 DEF PageFails, FailFetch
  <2> QED
    BY <1>2, <2>1, Zenon
<1>12. ASSUME NEW k, PageArrives(k) PROVE Goal
  BY <1>3, <1>12 DEF PageArrives, Arrive, OfCache
<1>13. ASSUME OpenApprovals \/ \E d \in Docs : OpenDocument(d), UNCHANGED desk PROVE Goal
  BY <1>4, <1>13, Zenon DEF OpenApprovals, OpenDocument
<1>14. ASSUME OnDesk PROVE UNCHANGED page
  <2>1. ASSUME NEW x, OnDocument(x) PROVE UNCHANGED page
    BY <2>1 DEF OnDocument, EditChain, Compare, ChoosePreview, SaveChain, SetLegalHold, UploadFile, RestoreVersion,
                OfDesk, OfPage
  <2>2. ASSUME NEW i, LoadAnswered(i) \/ LoadFails(i) PROVE UNCHANGED page
    BY <2>2 DEF LoadAnswered, LoadFails, OfDesk
  <2>3. ASSUME ClosePreview \/ CancelEdit \/ \E draft : Redraft(draft) PROVE UNCHANGED page
    BY <2>3 DEF ClosePreview, CancelEdit, Redraft, OfDesk
  <2> QED
    BY <1>14, <2>1, <2>2, <2>3 DEF OnDesk
<1>15. ASSUME UNCHANGED vars PROVE Goal
  BY <1>3, <1>15 DEF vars
<1>17. ASSUME desk' = NewDesk PROVE Goal
  BY <1>17
<1> HIDE DEF Goal
<1>16. Goal
  BY <1>3, <1>17, <1>5, <1>6, <1>7, <1>8, <1>9, <1>10, <1>11, <1>12, <1>13, <1>14, <1>15 DEF Next
<1> QED
  BY <1>16 DEF Goal

LEMMA DeskStep ==
    ASSUME LibraryInv, [Next]_vars, page.open = "document"
    PROVE  \E dk :
              /\ desk' = dk /\ PreviewInv(dk, page.doc)
              /\ CompareInv(dk.compare, page.doc) /\ (Fails(DetailKey(page.doc)) => dk.compare = <<>>)
<1> DEFINE d == page.doc
           GoodDesk(dk) == PreviewInv(dk, d) /\ CompareInv(dk.compare, d)
           Goal == \E dk : desk' = dk /\ GoodDesk(dk) /\ (Fails(DetailKey(d)) => dk.compare = <<>>)
<1>1. /\ ServicesInv /\ CacheInv /\ PreviewInv(desk, d) /\ CompareInv(desk.compare, d) /\ d \in Docs
      /\ desk \in DeskType(desk.draft) /\ Main = DetailKey(d)
  BY DEF LibraryInv, DeskInv, PageInv, PreviewInv, Main, ListPages
<1>2. CompareInv(<<>>, d)
  BY DEF CompareInv
<1>3. Fails(DetailKey(d)) => desk'.compare = <<>>
  <2>1. ASSUME PageFails(DetailKey(d)) PROVE desk' = Blanked(desk)
    BY <1>1, <2>1 DEF PageFails
  <2>2. Blanked(desk).compare = <<>>
    BY <1>1 DEF Blanked, Unloaded, Unedited, DeskType
  <2> QED
    BY <2>1, <2>2 DEF Fails
<1>4. ASSUME NEW dk, desk' = dk, GoodDesk(dk) PROVE Goal
  BY <1>3, <1>4
<1>5. GoodDesk(desk)
  BY <1>1
<1>6. ASSUME NEW dk, PreviewInv(dk, d), dk.compare = desk.compare PROVE GoodDesk(dk)
  BY <1>1, <1>6
<1>7. ASSUME NEW dk, PreviewInv(dk, d), dk.compare = <<>> PROVE GoodDesk(dk)
  BY <1>2, <1>7
<1> HIDE DEF GoodDesk, Goal
<1>8. ASSUME UNCHANGED desk PROVE Goal
  BY <1>4, <1>5, <1>8
<1>9. ASSUME NEW editing \in BOOLEAN, NEW draft PROVE GoodDesk([desk EXCEPT !.editing = editing, !.draft = draft])
  <2>1. PICK n : n = [desk EXCEPT !.editing = editing, !.draft = draft]
    OBVIOUS
  <2>2. n = [desk EXCEPT !.editing = editing, !.draft = draft, !.compare = desk.compare] /\ desk.compare \in Seq(Nat)
    BY <1>1, <2>1 DEF DeskType
  <2>3. PreviewInv(n, d)
    BY <1>1, <2>2, EditPreview, Zenon
  <2>4. n.compare = desk.compare
    BY <1>1, <2>1 DEF DeskType
  <2> QED
    BY <1>6, <2>1, <2>3, <2>4
<1>10. GoodDesk(Unedited(desk))
  BY <1>9, Zenon DEF Unedited
<1>11. ASSUME NEW t, Ends(t) PROVE Goal
  BY <1>4, <1>5, <1>10, <1>11 DEF Ends
<1>12. ASSUME NEW v \in 1..Len(files[d]), PreviewSupported(files[d][v]), desk' = Loading(desk, v) PROVE Goal
  <2>1. PreviewInv(Loading(desk, v), d)
    BY <1>1, <1>12, LoadingPreview
  <2>2. Loading(desk, v).compare = desk.compare
    BY <1>1 DEF Loading, DeskType
  <2> QED
    BY <1>4, <1>6, <1>12, <2>1, <2>2
<1>13. GoodDesk(Blanked(desk))
  <2>1. PICK n : n = Unedited(desk)
    OBVIOUS
  <2>2. PreviewInv(n, d) /\ n \in DeskType(n.draft)
    BY <1>10, <2>1 DEF GoodDesk, PreviewInv
  <2>3. PICK m : m = Unloaded(n)
    OBVIOUS
  <2>9. PreviewInv(m, d)
    BY <2>2, <2>3, UnloadedPreview
  <2>4. m \in DeskType(m.draft)
    BY <2>9 DEF PreviewInv
  <2>5. PICK k : k = [m EXCEPT !.compare = <<>>]
    OBVIOUS
  <2>6. m.editing \in BOOLEAN /\ <<>> \in Seq(Nat)
        /\ k = [m EXCEPT !.editing = m.editing, !.draft = m.draft, !.compare = <<>>] /\ k.compare = <<>>
    <3>1. m \in [editing : BOOLEAN, draft : {m.draft}, compare : Seq(Nat), chosen : Nat,
                 view : Viewers \cup {"none", "loading", "error"}, of : Nat, loads : Seq(LoadType)]
      BY <2>4 DEF DeskType
    <3>2. k = [m EXCEPT !.editing = m.editing, !.draft = m.draft, !.compare = <<>>] /\ k.compare = <<>>
      BY <2>5, <3>1
    <3> QED
      BY <3>1, <3>2
  <2>7. PreviewInv(k, d)
    BY <2>6, <2>9, EditPreview, Zenon
  <2>8. k = Blanked(desk)
    BY <2>1, <2>3, <2>5 DEF Blanked
  <2> QED
    BY <1>7, <2>6, <2>7, <2>8
<1>14. ASSUME NEW k, PageFails(k) PROVE Goal
  BY <1>4, <1>5, <1>13, <1>14 DEF PageFails
<1>15. ASSUME NEW k, PageArrives(k) PROVE Goal
  <2>1. CASE desk.chosen # 0 /\ desk' = Loading(desk, desk.chosen)
    <3>1. desk.chosen \in 1..Len(files[d]) /\ PreviewSupported(files[d][desk.chosen])
      BY <1>1, <2>1 DEF PreviewInv
    <3> QED
      BY <1>12, <2>1, <3>1
  <2> QED
    BY <1>8, <1>15, <2>1 DEF PageArrives
<1>16. ASSUME Leave, desk' = NewDesk PROVE Goal
  <2>1. NewDesk.compare = <<>> /\ PreviewInv(NewDesk, d)
    BY NewPreview DEF NewDesk
  <2> QED
    BY <1>4, <1>7, <1>16, <2>1
<1>17. ASSUME NEW x \in OnPage PROVE DetailInv(d, x) /\ Usable(DetailKey(d)) /\ x \in cache[DetailKey(d)].rows
  BY <1>1, <1>17 DEF OnPage, CacheInv
<1>18. ASSUME NEW x \in OnPage, NEW v \in DOMAIN x.versions PROVE v \in 1..Len(files[d]) /\ x.versions[v] = files[d][v]
  <2>1. DetailInv(d, x) /\ files[d] \in Seq(FileType)
    BY <1>1, <1>17 DEF ServicesInv
  <2> QED
    BY <1>18, <2>1 DEF DetailInv
<1>19. ASSUME NEW x \in OnPage, NEW v \in DOMAIN x.versions, Compare(x, v) PROVE Goal
  <2>1. PICK compare : compare = ToggleCompare(desk.compare, v)
    OBVIOUS
  <2>2. x.versions \in Seq(FileType) /\ v \in 1..Len(x.versions) /\ Len(x.versions) \in Nat
    BY <1>17, <1>19 DEF DetailInv
  <2>3. desk.compare \in Seq(Nat) /\ Len(desk.compare) <= 2
        /\ \A i \in 1..Len(desk.compare) : desk.compare[i] \in 1..Len(x.versions)
    <3>1. desk.compare \in Seq(Nat) /\ Len(desk.compare) <= 2
      BY <1>1 DEF DeskType, CompareInv
    <3>2. CASE desk.compare # <<>>
      <4>1. PICK y \in cache[DetailKey(d)].rows : \A i \in 1..Len(desk.compare) : desk.compare[i] \in 1..Len(y.versions)
        BY <1>1, <3>2 DEF CompareInv
      <4>2. y = x
        BY <1>1, <1>17, <4>1, ZenonT(60) DEF CacheInv
      <4> QED
        BY <3>1, <4>1, <4>2
    <3> QED
      BY <3>1, <3>2
  <2>4. /\ compare \in Seq(Nat) /\ Len(compare) <= 2
        /\ \A i \in 1..Len(compare) : compare[i] \in 1..Len(x.versions)
    BY <2>1, <2>2, <2>3, Toggled
  <2>5. CompareInv(compare, d)
    BY <1>17, <2>4 DEF CompareInv
  <2>6. PICK n : n = [desk EXCEPT !.compare = compare]
    OBVIOUS
  <2>7. /\ n = [desk EXCEPT !.editing = desk.editing, !.draft = desk.draft, !.compare = compare]
        /\ desk.editing \in BOOLEAN /\ n.compare = compare
    BY <1>1, <2>6 DEF DeskType
  <2>8. PreviewInv(n, d)
    BY <1>1, <2>4, <2>7, EditPreview, Zenon
  <2>9. desk' = n
    BY <1>19, <2>1, <2>6 DEF Compare
  <2>10. GoodDesk(n)
    BY <2>5, <2>7, <2>8 DEF GoodDesk
  <2> QED
    BY <1>4, <2>9, <2>10
<1>20. ASSUME NEW x \in OnPage, NEW v \in DOMAIN x.versions, ChoosePreview(x, v) PROVE Goal
  <2>1. PreviewSupported(x.versions[v]) /\ desk' = Loading(desk, v)
    BY <1>20 DEF ChoosePreview, Posture
  <2> QED
    BY <1>12, <1>18, <2>1
<1>21. ASSUME NEW x \in OnPage, OnDocument(x) PROVE Goal
  <2>1. ASSUME EditChain(x) PROVE Goal
    BY <1>4, <1>9, <2>1, Zenon DEF EditChain
  <2>2. ASSUME NEW t, SaveChain(t, x) \/ (\E change : SetLegalHold(t, x, change))
                      \/ (\E file : UploadFile(t, x, file)) \/ \E v : RestoreVersion(t, x, v)
        PROVE  Goal
    BY <1>8, <2>2 DEF SaveChain, SetLegalHold, UploadFile, RestoreVersion
  <2> QED
    BY <1>19, <1>20, <1>21, <2>1, <2>2 DEF OnDocument
<1>22. ASSUME ClosePreview PROVE Goal
  <2>1. PreviewInv([Unloaded(desk) EXCEPT !.chosen = 0], d)
    BY <1>1, UnloadedPreview
  <2>2. [Unloaded(desk) EXCEPT !.chosen = 0].compare = desk.compare
    BY <1>1 DEF Unloaded, DeskType
  <2> QED
    BY <1>4, <1>6, <1>22, <2>1, <2>2 DEF ClosePreview
<1>23. ASSUME NEW i \in DOMAIN desk.loads, ~desk.loads[i].done, NEW view \in Viewers \cup {"error"},
              desk.loads[i].live /\ view = "unsupported" => files[d][desk.loads[i].version].large,
              desk' = Landed(i, view)
       PROVE  Goal
  <2>1. i \in 1..Len(desk.loads)
    BY <1>1 DEF DeskType
  <2>2. PreviewInv(Landed(i, view), d)
    BY <1>1, <1>23, <2>1, LandedPreview
  <2>3. Landed(i, view).compare = desk.compare
    BY <1>1 DEF Landed, DeskType
  <2> QED
    BY <1>4, <1>6, <1>23, <2>2, <2>3
<1>24. ASSUME NEW i \in DOMAIN desk.loads, LoadFails(i) PROVE Goal
  BY <1>23, <1>24 DEF LoadFails, Viewers
<1>25. ASSUME NEW i \in DOMAIN desk.loads, LoadAnswered(i) PROVE Goal
  <2> DEFINE file == files[d][desk.loads[i].version]
             view == IF MayList(me, page.doc) /\ MayPreview(me, Detail(page.doc)) THEN Viewer(file) ELSE "error"
  <2>1. i \in 1..Len(desk.loads) /\ ~desk.loads[i].done /\ desk' = Landed(i, view)
    BY <1>1, <1>25 DEF DeskType, LoadAnswered
  <2>2. view \in {Viewer(file), "error"}
    OBVIOUS
  <2> HIDE DEF view
  <2>3. desk.loads[i].live => PreviewSupported(file)
    <3>1. desk.loads[i].version \in 1..Len(files[d]) /\ (desk.loads[i].live => desk.loads[i].version = desk.chosen)
      BY <1>1, <2>1 DEF PreviewInv
    <3>2. desk.loads[i].live => desk.chosen # 0
      BY <1>1, <3>1 DEF ServicesInv
    <3> QED
      BY <1>1, <3>1, <3>2 DEF PreviewInv
  <2>4. Viewer(file) \in Viewers /\ (PreviewSupported(file) /\ Viewer(file) = "unsupported" => file.large)
    BY ViewerFacts
  <2>5. view \in Viewers \cup {"error"} /\ (desk.loads[i].live /\ view = "unsupported" => file.large)
    BY <2>2, <2>3, <2>4 DEF Viewers
  <2> QED
    BY <1>23, <1>25, <2>1, <2>5
<1>26. ASSUME CancelEdit PROVE Goal
  BY <1>4, <1>10, <1>26 DEF CancelEdit
<1>27. ASSUME NEW draft, Redraft(draft) PROVE Goal
  <2>1. desk.editing \in BOOLEAN
    BY <1>1 DEF DeskType
  <2>2. [desk EXCEPT !.draft = draft] = [desk EXCEPT !.editing = desk.editing, !.draft = draft]
    BY <1>1 DEF DeskType
  <2> QED
    BY <1>4, <1>9, <1>27, <2>1, <2>2, Zenon DEF Redraft
<1>28. ASSUME OnDesk PROVE Goal
  BY <1>21, <1>22, <1>24, <1>25, <1>26, <1>27, <1>28 DEF OnDesk
<1>29. ASSUME OpenApprovals \/ \E c \in Docs : OpenDocument(c) PROVE Goal
  BY <1>29 DEF OpenApprovals, OpenDocument
<1>30. ASSUME UNCHANGED vars PROVE Goal
  BY <1>8, <1>30 DEF vars
<1>31. Goal
  BY <1>8, <1>11, <1>14, <1>15, <1>16, <1>28, <1>29, <1>30 DEF Next
<1> QED
  BY <1>31 DEF Goal, GoodDesk

(* Off the page of a document the desk stays empty.                           *)
LEMMA NoDesk ==
    ASSUME LibraryInv, [Next]_vars, page.open # "document"
    PROVE  desk' = NewDesk
<1>1. desk = NewDesk /\ OnPage = {} /\ desk.loads = <<>>
  BY DEF LibraryInv, DeskInv, OnPage, NewDesk
<1>7. DOMAIN desk.loads = {} /\ desk.chosen = 0
  BY <1>1 DEF NewDesk
<1>8. Unedited(NewDesk) = NewDesk
  <2>1. ASSUME NEW draft, NEW dk \in DeskType(draft), dk.editing = FALSE, dk.draft = <<>> PROVE Unedited(dk) = dk
    BY <2>1 DEF DeskType, Unedited
  <2>2. NewDesk \in DeskType(<<>>) /\ NewDesk.editing = FALSE /\ NewDesk.draft = <<>>
    BY DEF NewDesk, DeskType, LoadType
  <2> QED
    BY <2>1, <2>2
<1>2. DOMAIN desk.loads = {} /\ desk.chosen = 0 /\ Unedited(desk) = desk
  BY <1>1, <1>7, <1>8
<1>3. ASSUME NEW t, Ends(t) PROVE desk' = NewDesk
  BY <1>1, <1>2, <1>3 DEF Ends
<1>4. ASSUME NEW k, PageFails(k) \/ PageArrives(k) PROVE desk' = NewDesk
  BY <1>1, <1>4 DEF PageFails, PageArrives
<1>5. ASSUME OnDesk PROVE FALSE
  BY <1>1, <1>2, <1>5 DEF OnDesk, ClosePreview
<1>6. ASSUME UNCHANGED desk PROVE desk' = NewDesk
  BY <1>1, <1>6
<1> QED
  BY <1>3, <1>4, <1>5, <1>6 DEF Next, vars

LEMMA DeskStepInv ==
    ASSUME LibraryInv, [Next]_vars
    PROVE  DeskInv'
<1>1. /\ ServicesInv /\ Grows /\ page.doc \in Docs /\ PageInv'
  BY ServicesStep, PageStepInv DEF LibraryInv, PageInv
<1>2. CASE desk' = NewDesk
  <2>1. PICK d \in Docs : d = page'.doc
    BY <1>1 DEF PageInv
  <2>2. PreviewInv(NewDesk, d)'
    BY NewPreview
  <2>3. NewDesk.compare = <<>> /\ CompareInv(<<>>, d)'
    BY DEF NewDesk, CompareInv
  <2> QED
    BY <1>2, <2>1, <2>2, <2>3 DEF DeskInv
<1>3. CASE desk' # NewDesk
  <2>1. page.open = "document" /\ page'.open = "document" /\ page'.doc = page.doc
    BY <1>3, NoDesk, StaysOrLeaves
  <2>2. PICK d \in Docs : d = page.doc
    BY <1>1
  <2>3. PICK dk : /\ desk' = dk /\ PreviewInv(dk, d)
                  /\ CompareInv(dk.compare, d) /\ (Fails(DetailKey(d)) => dk.compare = <<>>)
    BY <2>1, <2>2, DeskStep
  <2>4. PreviewInv(dk, d)'
    BY <1>1, <2>3, PreviewStays
  <2>5. PICK compare : compare = dk.compare
    OBVIOUS
  <2>6. CompareInv(compare, d)'
    BY <2>3, <2>5, CompareStays
  <2> QED
    BY <2>1, <2>2, <2>3, <2>4, <2>5, <2>6 DEF DeskInv
<1> QED
  BY <1>2, <1>3

-----------------------------------------------------------------------------
(* The beginning.                                                             *)
LEMMA LibraryInit ==
    ASSUME Init
    PROVE  LibraryInv
<1>1. PICK s \in Scenarios :
         /\ me \in s.users /\ doc \in s.docs /\ meta \in s.metas /\ files \in s.files /\ budget = s.budget
         /\ page = [open |-> s.open, doc |-> 1, filters |-> DEFAULT_DOCUMENT_FILTERS, number |-> 1,
                    dialog |-> NoDialog, drawer |-> {}]
  BY Zenon DEF Init
<1>2. /\ 1 \in Docs
      /\ s.users \subseteq Users /\ s.docs \subseteq [Docs -> DocRow]
      /\ s.metas \subseteq [Docs -> MetaType] /\ s.files \subseteq [Docs -> Seq(FileType)]
      /\ s.open \in ListPages \cup {"document", "approvals"}
      /\ DOMAIN s.budget = Counters \cup {"pages", "visited", "approvals", "filters", "changing", "chains", "files"}
      /\ s.budget.visited \subseteq Docs /\ s.budget.files \subseteq FileType
  BY ScenarioAssumption
<1>3. past = {} /\ stamp = [d \in Docs |-> d] /\ now = Cardinality(Docs) /\ desk = NewDesk
      /\ task = [t \in Tasks |-> NoTask] /\ confirmed = [k \in Keys |-> [d \in Docs |-> 0]]
      /\ cache = [k \in Keys |-> IF k \in Shown \cup {ListKey} THEN [NoQuery EXCEPT !.rows = Answer(k), !.known = TRUE]
                                 ELSE NoQuery]
  BY Zenon DEF Init
<1>4. ServicesInv
  <2>1. Cardinality(Docs) \in Nat /\ Docs = 1..Cardinality(Docs)
    BY PageAssumption, FS_CardinalityType
  <2>6. \A d \in Docs : d \in Nat /\ d <= Cardinality(Docs)
    BY <2>1
  <2>2. now \in Nat /\ stamp \in [Docs -> Nat] /\ \A d \in Docs : stamp[d] <= now
    BY <1>3, <2>1, <2>6, Zenon
  <2>3. doc \in [Docs -> DocRow] /\ me \in Users /\ meta \in [Docs -> MetaType] /\ files \in [Docs -> Seq(FileType)]
    BY <1>1, <1>2
  <2>4. \A d \in Docs : Stored(doc[d])
    BY <2>3 DEF Stored, DocRow
  <2>5. \A d \in Docs : Latest(UpTo(d, stamp[d])) = {}
    BY <1>3, Zenon DEF Latest, UpTo
  <2> QED
    BY <1>1, <1>2, <1>3, <2>2, <2>3, <2>4, <2>5, Zenon DEF ServicesInv
<1>5. PageInv
  BY <1>1, <1>2 DEF PageInv
<1>6. TasksInv
  BY <1>3, FreeTask, Zenon DEF TasksInv
<1>7. DeskInv
  <2>1. PICK d \in Docs : d = page.doc
    BY <1>1, <1>2
  <2>2. PreviewInv(NewDesk, d)
    BY NewPreview
  <2>3. NewDesk.compare = <<>> /\ CompareInv(<<>>, d)
    BY DEF NewDesk, CompareInv
  <2> QED
    BY <1>3, <2>1, <2>2, <2>3, Zenon DEF DeskInv
<1>8. CacheInv
  <2>1. ASSUME NEW k \in Keys
        PROVE  /\ Query(cache[k]) /\ cache[k].fetch = "none" /\ cache[k].next = {} /\ cache[k].rows \in {{}, Answer(k)}
               /\ \A d \in Docs : confirmed[k][d] = 0
    BY <1>3, <2>1, Zenon DEF Query, NoQuery
  <2>2. confirmed \in [Keys -> [Docs -> Nat]] /\ \A k \in Keys, d \in Docs : confirmed[k][d] <= stamp[d]
    <3>1. stamp \in [Docs -> Nat]
      BY <1>4 DEF ServicesInv
    <3>2. [d \in Docs |-> 0] \in [Docs -> Nat]
      OBVIOUS
    <3>3. confirmed \in [Keys -> [Docs -> Nat]]
      BY <1>3, <3>2, Zenon
    <3>4. \A k \in Keys, d \in Docs : confirmed[k][d] = 0
      BY <1>3, Zenon
    <3> QED
      BY <3>1, <3>3, <3>4
  <2>3. /\ \A row \in Answer(ListKey) \cup Answer(QueueKey) : RowInv(row)
        /\ \A d \in Docs : Answer(DetailKey(d)) = {Detail(d)} /\ DetailInv(d, Detail(d))
        /\ \A d \in Docs : \A e \in Answer(HistoryKey(d)) : e \in past /\ e.doc = d
        /\ \A k \in Keys : Fresh(k, Answer(k))
    BY <1>4, <2>2, AnswersNow
  <2>4. \A k \in Keys : Fresh(k, {})
    BY <1>3, Zenon DEF Fresh
  <2>5. cache = [k \in Keys |-> cache[k]]
    BY <1>3, Zenon
  <2>6. \A k \in Keys : Fresh(k, cache[k].rows)
    BY <2>1, <2>3, <2>4
  <2>7. \A row \in list.rows \cup list.next \cup cache[QueueKey].rows \cup cache[QueueKey].next : RowInv(row)
    BY <2>1, <2>3, KeyFacts DEF list
  <2>8. ASSUME NEW d \in Docs
        PROVE  /\ \A x \in cache[DetailKey(d)].rows \cup cache[DetailKey(d)].next : DetailInv(d, x)
               /\ \A x, y \in cache[DetailKey(d)].rows : x = y
               /\ \A x, y \in cache[DetailKey(d)].next : x = y
               /\ \A e \in cache[HistoryKey(d)].rows \cup cache[HistoryKey(d)].next : e \in past /\ e.doc = d
               /\ cache[DetailKey(d)].fetch = "none"
    BY <2>1, <2>3, KeyFacts
  <2> QED
    BY <2>1, <2>2, <2>5, <2>6, <2>7, <2>8 DEF CacheInv
<1> QED
  BY <1>4, <1>5, <1>6, <1>7, <1>8 DEF LibraryInv

(* What is stored, cached, shown, under way and on the desk belongs together: *)
(* an answer tells of a moment that was and has what was confirmed to it, a   *)
(* task counts the documents it is done with, and only the last load of a     *)
(* preview is waited for.                                                     *)
THEOREM LibraryInvariant == Spec => []LibraryInv
<1>1. LibraryInv /\ [Next]_vars => LibraryInv'
  <2>1. SUFFICES ASSUME LibraryInv, [Next]_vars PROVE LibraryInv'
    OBVIOUS
  <2>2. ServicesInv'
    BY <2>1, ServicesStep DEF LibraryInv
  <2> QED
    BY <2>1, <2>2, PageStepInv, CacheStepInv, TasksStep, DeskStepInv DEF LibraryInv
<1> QED
  BY <1>1, LibraryInit, PTL DEF Spec

-----------------------------------------------------------------------------
(* A bulk action that was undone has changed nothing, and one that has ended  *)
(* has an outcome for every document, among them no success that was none     *)
(* (deferred-action.ts:47, documents/page.tsx:251).                           *)
THEOREM BulkAccountedHolds == Spec => []BulkAccounted
<1>1. LibraryInv => BulkAccounted
  <2>1. SUFFICES ASSUME LibraryInv, NEW t \in Tasks, NEW r, r = task[t]
                 PROVE  /\ r.undone => r.changed = {}
                        /\ r.pc = "done" /\ ~r.undone =>
                              /\ r.ok + r.fail = Cardinality(r.chosen)
                              /\ r.ok <= Cardinality(DocsOf(r.changed)) /\ DocsOf(r.changed) \subseteq r.chosen
    BY DEF BulkAccounted, DocsOf
  <2>2. TaskInv(r)
    BY <2>1 DEF LibraryInv, TasksInv
  <2>3. r.undone => r.changed = {}
    BY <2>2 DEF TaskInv
  <2>4. ASSUME r.pc = "done", ~r.undone
        PROVE  /\ r.ok + r.fail = Cardinality(r.chosen)
               /\ r.ok <= Cardinality(DocsOf(r.changed)) /\ DocsOf(r.changed) \subseteq r.chosen
    <3>1. r.todo = {} /\ r.ok + r.fail = Cardinality(r.chosen \ r.todo) /\ r.ok <= Cardinality(DocsOf(r.changed) \ r.todo)
      BY <2>2, <2>4 DEF TaskInv
    <3>2. r.chosen \ {} = r.chosen /\ DocsOf(r.changed) \ {} = DocsOf(r.changed)
      OBVIOUS
    <3>3. DocsOf(r.changed) \subseteq r.chosen
      BY <2>2, TaskFields
    <3> QED
      BY <3>1, <3>2, <3>3
  <2> QED
    BY <2>3, <2>4
<1> QED
  BY <1>1, LibraryInvariant, PTL

(* What is waited for is one load at most.                                    *)
LEMMA AtMostOne ==
    ASSUME NEW W, \A i, k \in W : i = k
    PROVE  Cardinality(W) <= 1
<1>1. CASE W = {}
  BY <1>1, FS_EmptySet
<1>2. CASE W # {}
  <2>1. PICK i \in W : W = {i}
    BY <1>2
  <2> QED
    BY <2>1, FS_Singleton
<1> QED
  BY <1>1, <1>2

(* The preview shows the version that is chosen, whatever loads are still     *)
(* under way, and waits for one of them at most; a version that was announced *)
(* is shown unless it is too large; versions that are compared are there, and *)
(* a restored one differs from its source in who made it                      *)
(* (document-preview-dialog.tsx:163, document-versions-card.tsx:65).          *)
THEOREM PreviewShownHolds == Spec => []PreviewShown
<1>1. LibraryInv => PreviewShown
  <2> SUFFICES ASSUME LibraryInv PROVE PreviewShown
    OBVIOUS
  <2> DEFINE waiting == {i \in DOMAIN desk.loads : desk.loads[i].live /\ ~desk.loads[i].done}
  <2>1. /\ ServicesInv /\ CacheInv /\ PageInv /\ TasksInv
        /\ PreviewInv(desk, page.doc) /\ CompareInv(desk.compare, page.doc) /\ page.doc \in Docs
    BY DEF LibraryInv, DeskInv, PageInv
  <2>2. DOMAIN desk.loads = 1..Len(desk.loads) /\ desk.compare \in Seq(Nat)
    BY <2>1 DEF PreviewInv, DeskType
  <2>3. desk.view \in Viewers =>
           /\ desk.chosen # 0 /\ desk.of = desk.chosen
           /\ desk.view = "unsupported" => files[page.doc][desk.chosen].large
    BY <2>1 DEF PreviewInv
  <2>4. desk.view = "loading" <=> waiting # {}
    BY <2>1, <2>2 DEF PreviewInv, Awaited
  <2>5. Cardinality(waiting) <= 1
    <3>1. \A i, k \in waiting : i = k
      BY <2>1, <2>2 DEF PreviewInv
    <3> QED
      BY <3>1, AtMostOne
  <2>6. ASSUME NEW t \in Tasks, NEW c \in task[t].changed, task[t].action = "RESTORE"
        PROVE  \E w \in DOMAIN files[c.doc] :
                  w > task[t].arg /\ VersionDiff(files[c.doc][task[t].arg], files[c.doc][w]) \subseteq {"by"}
    <3>1. TaskInv(task[t])
      BY <2>1 DEF TasksInv
    <3>2. c.doc \in Docs
      BY <3>1, <2>6, TaskFields DEF DocsOf
    <3>3. PICK w \in 1..Len(files[c.doc]) :
             task[t].arg \in 1..w - 1 /\ VersionDiff(files[c.doc][task[t].arg], files[c.doc][w]) \subseteq {"by"}
      BY <2>6, <3>1 DEF TaskInv
    <3>4. files[c.doc] \in Seq(FileType) /\ DOMAIN files[c.doc] = 1..Len(files[c.doc]) /\ Len(files[c.doc]) \in Nat
      BY <2>1, <3>2 DEF ServicesInv
    <3>5. w > task[t].arg
      BY <3>3, <3>4
    <3> QED
      BY <3>3, <3>4, <3>5
  <2>7. ASSUME NEW x \in OnPage
        PROVE  Seqs!ToSet(desk.compare) \subseteq DOMAIN x.versions /\ Len(desk.compare) <= 2
    <3>1. x \in cache[DetailKey(page.doc)].rows
      BY <2>1, <2>7 DEF OnPage, Main, ListPages
    <3>2. DOMAIN x.versions = 1..Len(x.versions)
      BY <2>1, <3>1 DEF CacheInv, DetailInv
    <3>3. \A i \in 1..Len(desk.compare) : desk.compare[i] \in 1..Len(x.versions)
      <4>1. CASE desk.compare = <<>>
        BY <4>1
      <4>2. CASE desk.compare # <<>>
        <5>1. PICK y \in cache[DetailKey(page.doc)].rows :
                 \A i \in 1..Len(desk.compare) : desk.compare[i] \in 1..Len(y.versions)
          BY <2>1, <4>2 DEF CompareInv
        <5>2. y = x
          BY <2>1, <3>1, <5>1 DEF CacheInv
        <5> QED
          BY <5>1, <5>2
      <4> QED
        BY <4>1, <4>2
    <3> QED
      BY <2>1, <2>2, <3>2, <3>3 DEF Seqs!ToSet, CompareInv
  <2> QED
    BY <2>3, <2>4, <2>5, <2>6, <2>7 DEF PreviewShown, Viewers
<1> QED
  BY <1>1, LibraryInvariant, PTL

(* The stage that a document is in shows the last change of it, if that change *)
(* led to its status.                                                         *)
LEMMA StageShown ==
    ASSUME NEW x, NEW shown, NEW stage, NEW last, last = Latest(shown), last # {},
           \A e \in shown : e.stamp \in Nat, \A e \in last : e.to = x.status, stage = StageOf(x.status)
    PROVE  StageEvidence(x, shown, stage) = last
<1> DEFINE into == {e \in shown : StageOf(e.to) = stage}
           top == {e \in into : \A other \in into : other.stamp <= e.stamp}
<1>1. PICK l \in shown : l \in last
  BY DEF Latest
<1>2. last \subseteq into /\ \A other \in shown : other.stamp <= l.stamp
  BY <1>1 DEF Latest
<1>3. ASSUME NEW e \in last PROVE e \in top
  BY <1>2, <1>3 DEF Latest
<1>4. ASSUME NEW e \in top PROVE e \in last
  <2>1. l.stamp <= e.stamp
    BY <1>1, <1>2
  <2>2. \A other \in shown : other.stamp <= e.stamp
    BY <1>2, <2>1
  <2> QED
    BY <2>2 DEF Latest
<1>5. top = last
  BY <1>3, <1>4
<1>6. StageEvidence(x, shown, stage) = top
  BY <1>1, <1>2 DEF StageEvidence
<1> QED
  BY <1>5, <1>6

LEMMA CurrentStage ==
    ASSUME NEW x, x.status \in Statuses, NEW i \in 1..4, StageState(x, i) = "current"
    PROVE  Stages[i] = StageOf(x.status)
<1>1. Len(Stages) = 4 /\ \E k \in 1..4 : Stages[k] = StageOf(x.status)
  BY DEF Stages, StageOf, Statuses
<1>2. i = CHOOSE k \in 1..4 : Stages[k] = StageOf(x.status)
  BY <1>1 DEF StageState
<1> QED
  BY <1>1, <1>2

LEMMA ShownKeys ==
    ASSUME PageInv, NEW k \in Shown
    PROVE  k \in Keys
BY KeyFacts DEF PageInv, Shown, DocKeys

(* What the open page shows, when it waits for nothing, is no older than what *)
(* the user did and was told of while it was shown, whatever answers were on  *)
(* their way at that time; and the current stage of the timeline shows the    *)
(* change that led to it (workflow.hooks.ts:20, documents/page.tsx:268,       *)
(* document-detail-presentation.ts:202).                                      *)
THEOREM OwnActionsShownHolds == Spec => []OwnActionsShown
<1>1. LibraryInv => OwnActionsShown
  <2> SUFFICES ASSUME LibraryInv, NEW k \in ShownNow
               PROVE  /\ \A row \in Rowed(k) : row.stamp >= confirmed[k][row.id]
                      /\ k[1] = "history" =>
                            /\ \A e \in past : e.doc = k[2] /\ e.stamp <= confirmed[k][k[2]] => e \in cache[k].rows
                            /\ \A x \in OnPage :
                                  LET shown == {e \in cache[k].rows : e.stamp <= x.stamp}
                                      stages == Timeline(x, shown)
                                      last == {e \in shown : \A other \in shown : other.stamp <= e.stamp}
                                  IN \A i \in DOMAIN stages :
                                       stages[i].state = "current" /\ last # {}
                                         /\ {e \in past : e.doc = x.id /\ e.stamp <= x.stamp} = shown
                                          => stages[i].evidence = last
    BY Zenon DEF OwnActionsShown
  <2>1. /\ ServicesInv /\ CacheInv /\ PageInv /\ page.doc \in Docs
        /\ k \in Shown /\ cache[k].known /\ cache[k].fetch = "none" /\ ~cache[k].error
    BY DEF LibraryInv, PageInv, ShownNow
  <2>2. k \in Keys
    BY <2>1, ShownKeys
  <2>3. Fresh(k, cache[k].rows)
    BY <2>1, <2>2 DEF CacheInv
  <2>4. \A row \in Rowed(k) : row.stamp >= confirmed[k][row.id]
    BY <2>3 DEF Fresh, Rowed
  <2>5. k[1] = "history" => \A e \in past : e.doc = k[2] /\ e.stamp <= confirmed[k][k[2]] => e \in cache[k].rows
    BY <2>3 DEF Fresh
  <2>6. ASSUME NEW x \in OnPage, NEW shown, NEW last, NEW i \in DOMAIN Timeline(x, shown),
               last = Latest(shown), Timeline(x, shown)[i].state = "current", last # {},
               shown = UpTo(x.id, x.stamp)
        PROVE  Timeline(x, shown)[i].evidence = last
    <3>1. DetailInv(page.doc, x)
      BY <2>1, <2>6 DEF OnPage, Main, ListPages, CacheInv
    <3>2. \A e \in last : e.to = x.status
      BY <2>6, <3>1 DEF DetailInv
    <3>3. \A e \in shown : e.stamp \in Nat /\ e.to \in Statuses
      BY <2>1, <2>6 DEF UpTo, ServicesInv
    <3>4. x.status \in Statuses
      BY <2>6, <3>2, <3>3 DEF Latest
    <3>5. Len(Stages) = 4
      BY DEF Stages
    <3>6. i \in 1..4 /\ StageState(x, i) = "current"
          /\ Timeline(x, shown)[i].evidence = StageEvidence(x, shown, Stages[i])
      BY <2>6, <3>5 DEF Timeline
    <3>7. Stages[i] = StageOf(x.status)
      BY <3>4, <3>6, CurrentStage
    <3> QED
      BY <2>6, <3>2, <3>3, <3>6, <3>7, StageShown
  <2>7. ASSUME NEW x \in OnPage
        PROVE  LET shown == {e \in cache[k].rows : e.stamp <= x.stamp}
                   stages == Timeline(x, shown)
                   last == {e \in shown : \A other \in shown : other.stamp <= e.stamp}
               IN \A i \in DOMAIN stages :
                    stages[i].state = "current" /\ last # {}
                      /\ {e \in past : e.doc = x.id /\ e.stamp <= x.stamp} = shown
                       => stages[i].evidence = last
    BY <2>6, Zenon DEF Latest, UpTo
  <2> QED
    BY <2>4, <2>5, <2>7
<1> QED
  BY <1>1, LibraryInvariant, PTL

-----------------------------------------------------------------------------
(* Where a row is of now, it is the document: that and what is known of       *)
(* chains make an offer what the services grant.                              *)
Drafts == Seq(Users \cup {Blank})

(* A row of a moment that is not over says what is stored.                    *)
Told(row) == row.stamp <= stamp[row.id] /\ (row.stamp = stamp[row.id] => row = Row(row.id))

DetailTold(d, x) == x.chain \in Seq(Users) /\ (x.stamp = stamp[d] => x = Detail(d))

OffersInv ==
    /\ \A d \in Docs : doc[d].chain \in Seq(Users)
    /\ budget.chains \subseteq Drafts
    /\ \A t \in Tasks : task[t].action = "CHAIN" => task[t].arg \in Drafts
    /\ desk.draft \in Drafts
    /\ \A row \in list.rows \cup list.next : Told(row)
    /\ \A d \in Docs : \A x \in cache[DetailKey(d)].rows \cup cache[DetailKey(d)].next : DetailTold(d, x)
-----------------------------------------------------------------------------
(* Every set of numbers has a least one.                                      *)
LEMMA LeastNumber ==
    ASSUME NEW T, T \subseteq Nat, T # {}
    PROVE  \E m \in T : \A j \in T : ~(j < m)
<1>1. PICK R : IsWellFoundedOn(R, Nat) /\ \A i, j \in Nat : i < j => <<i, j>> \in R
  BY NatLessThanWellFounded DEF OpToRel
<1>2. \E m \in T : \A j \in T : ~(<<j, m>> \in R)
  <2>1. IsWellFoundedOn(R, Nat)
    BY <1>1
  <2> QED
    BY <2>1, WFMin, Zenon
<1> QED
  BY <1>1, <1>2

(* Among the places of a draft there is one that n of them do not come after. *)
LEMMA PlaceOf ==
    ASSUME NEW m \in Nat, NEW K \in SUBSET (1..m), NEW n \in 1..Cardinality(K)
    PROVE  \E i \in K : Cardinality({k \in K : k <= i}) = n
<1> DEFINE Upto(i) == {k \in K : k <= i}
           T == {i \in Nat : n <= Cardinality(Upto(i))}
<1>1. IsFiniteSet(K) /\ \A i : IsFiniteSet(Upto(i)) /\ Cardinality(Upto(i)) \in Nat
  <2>1. IsFiniteSet(K)
    <3>1. IsFiniteSet(1..m)
      BY FS_Interval
    <3> QED
      BY <3>1, FS_Subset
  <2>2. ASSUME NEW i PROVE IsFiniteSet(Upto(i))
    BY <2>1, FS_Subset
  <2> QED
    BY <2>1, <2>2, FS_CardinalityType
<1>0. \A k \in K : k \in Nat /\ 1 <= k /\ k <= m
  OBVIOUS
<1>2. Upto(m) = K /\ Upto(0) = {}
  <2>1. \A k \in K : k <= m /\ ~(k <= 0)
    BY <1>0
  <2> QED
    BY <2>1
<1>3. n \in Nat /\ n # 0
  BY <1>1, FS_CardinalityType
<1>4. n <= Cardinality(Upto(m)) /\ Cardinality(Upto(0)) = 0
  <2>1. n \in 1..Cardinality(K) /\ Cardinality(K) \in Nat
    BY <1>1, FS_CardinalityType
  <2>2. n <= Cardinality(K)
    BY <2>1
  <2> QED
    BY <1>2, <2>2, FS_EmptySet
<1> HIDE DEF Upto
<1>5. PICK i \in T : \A j \in T : ~(j < i)
  BY <1>4, LeastNumber
<1>6. i \in Nat /\ i # 0 /\ n <= Cardinality(Upto(i)) /\ ~(n <= Cardinality(Upto(i - 1)))
  <2>1. i \in Nat /\ n <= Cardinality(Upto(i))
    BY <1>5
  <2>2. i # 0
    BY <1>3, <1>4, <2>1
  <2>3. i - 1 \in Nat /\ i - 1 < i
    BY <2>1, <2>2
  <2> QED
    BY <1>5, <2>1, <2>2, <2>3
<1>7. Upto(i) = IF i \in K THEN Upto(i - 1) \cup {i} ELSE Upto(i - 1)
  <2>1. \A k \in K : k <= i <=> k <= i - 1 \/ k = i
    BY <1>0, <1>6
  <2>2. \A k : k \in Upto(i) <=> k \in K /\ (k <= i - 1 \/ k = i)
    BY <2>1 DEF Upto
  <2>3. \A k : k \in Upto(i - 1) <=> k \in K /\ k <= i - 1
    BY DEF Upto
  <2>4. \A k : k \in Upto(i) <=> k \in Upto(i - 1) \/ (k = i /\ i \in K)
    BY <2>2, <2>3
  <2> QED
    BY <2>4
<1>8. i \in K
  BY <1>6, <1>7
<1>9. i \notin Upto(i - 1)
  <2>1. ~(i <= i - 1)
    BY <1>6
  <2> QED
    BY <2>1 DEF Upto
<1>10. Cardinality(Upto(i)) = Cardinality(Upto(i - 1)) + 1
  BY <1>1, <1>7, <1>8, <1>9, FS_AddElement
<1>11. Cardinality(Upto(i)) = n
  BY <1>1, <1>3, <1>6, <1>10
<1> QED
  BY <1>8, <1>11 DEF Upto

LEMMA NormalizedUsers ==
    ASSUME NEW draft \in Drafts
    PROVE  /\ Normalized(draft) \in Seq(Users)
           /\ Len(Normalized(draft)) = Cardinality({i \in DOMAIN draft : draft[i] # Blank})
<1> DEFINE named == {i \in DOMAIN draft : draft[i] # Blank}
           upto(i) == {k \in named : k <= i}
           size == Cardinality(named)
<1>1. draft \in Seq(Users \cup {Blank}) /\ Len(draft) \in Nat /\ DOMAIN draft = 1..Len(draft)
  BY DEF Drafts
<1>2. named \in SUBSET (1..Len(draft))
  BY <1>1
<1>3. size \in Nat
  <2>1. IsFiniteSet(1..Len(draft))
    BY <1>1, FS_Interval
  <2> QED
    BY <1>2, <2>1, FS_Subset, FS_CardinalityType
<1>4. Normalized(draft) = [n \in 1..size |-> draft[CHOOSE i \in named : Cardinality(upto(i)) = n]]
  BY Zenon DEF Normalized
<1>5. \A i \in named : draft[i] \in Users
  BY <1>1, <1>2
<1>6. \A n \in 1..size : \E i \in named : Cardinality(upto(i)) = n
  BY <1>1, <1>2, PlaceOf
<1> HIDE DEF upto, named, size
<1>7. \A n \in 1..size : (CHOOSE i \in named : Cardinality(upto(i)) = n) \in named
  BY <1>6
<1>8. Normalized(draft) \in [1..size -> Users]
  BY <1>4, <1>5, <1>7
<1>9. Normalized(draft) \in Seq(Users) /\ Len(Normalized(draft)) = size
  BY <1>3, <1>8
<1> QED
  BY <1>9 DEF named, size

LEMMA OneName ==
    ASSUME NEW u \in Users
    PROVE  CanSave(<<u>>)
<1>1. <<u>> \in Drafts /\ u # Blank
  BY PageAssumption DEF Drafts
<1>2. {i \in DOMAIN <<u>> : <<u>>[i] # Blank} = {1}
  BY <1>1
<1>3. Normalized(<<u>>) \in Seq(Users) /\ Len(Normalized(<<u>>)) = 1
  BY <1>1, <1>2, NormalizedUsers, FS_Singleton
<1>4. Normalized(<<u>>) # <<>> /\ DOMAIN Normalized(<<u>>) = {1}
  BY <1>3
<1> QED
  BY <1>4 DEF CanSave, HasDuplicates, Seqs!IsInjective

LEMMA ChainDrafts ==
    ASSUME NEW chain \in Seq(Users)
    PROVE  ChainDraft(chain) \in Drafts
<1>1. chain \in Drafts
  BY DEF Drafts
<1>2. Normalized(chain) \in Seq(Users)
  BY <1>1, NormalizedUsers
<1>3. Normalized(chain) \in Drafts /\ <<Blank>> \in Drafts
  BY <1>2 DEF Drafts
<1> QED
  BY <1>3 DEF ChainDraft

LEMMA RedraftsAre ==
    ASSUME NEW draft \in Drafts, NEW next \in Redrafts(draft, Approvers)
    PROVE  next \in Drafts
<1>1. draft \in Seq(Users \cup {Blank}) /\ DOMAIN draft = 1..Len(draft) /\ Len(draft) \in Nat
  BY DEF Drafts
<1>2. CASE next = Append(draft, Blank)
  BY <1>1, <1>2 DEF Drafts
<1>3. ASSUME NEW i \in DOMAIN draft, NEW v \in Approvers \cup {Blank}, next = [draft EXCEPT ![i] = v]
      PROVE  next \in Drafts
  BY <1>1, <1>3, PageAssumption DEF Drafts
<1>4. ASSUME NEW i \in DOMAIN draft, next = Seqs!RemoveAt(draft, i) PROVE next \in Drafts
  <2>1. SubSeq(draft, 1, i - 1) \in Seq(Users \cup {Blank}) /\ SubSeq(draft, i + 1, Len(draft)) \in Seq(Users \cup {Blank})
    BY <1>1, <1>4
  <2> QED
    BY <1>4, <2>1 DEF Seqs!RemoveAt, Drafts
<1>5. ASSUME NEW i \in DOMAIN draft, NEW by \in {-1, 1}, next = MovedBy(draft, i, by) PROVE next \in Drafts
  <2>1. CASE i + by \in DOMAIN draft
    <3>1. \A a, b \in Users \cup {Blank}, j \in DOMAIN draft :
             [draft EXCEPT ![i] = a, ![j] = b] \in Seq(Users \cup {Blank})
      BY <1>1
    <3>2. next = [draft EXCEPT ![i] = draft[i + by], ![i + by] = draft[i]]
      BY <1>5, <2>1 DEF MovedBy
    <3>3. draft[i] \in Users \cup {Blank} /\ draft[i + by] \in Users \cup {Blank}
      BY <1>1, <2>1
    <3> QED
      BY <2>1, <3>1, <3>2, <3>3 DEF Drafts
  <2>2. CASE i + by \notin DOMAIN draft
    BY <1>5, <2>2 DEF MovedBy
  <2> QED
    BY <2>1, <2>2
<1> QED
  BY <1>2, <1>3, <1>4, <1>5 DEF Redrafts

(* A document whose updatedAt stays was not written.                          *)
LEMMA Unwritten ==
    ASSUME ServicesInv, TasksInv, [Next]_vars, NEW d \in Docs, stamp'[d] = stamp[d]
    PROVE  doc'[d] = doc[d] /\ Row(d)' = Row(d) /\ Detail(d)' = Detail(d)
<1>1. doc'[d] = doc[d] /\ meta'[d] = meta[d] /\ files'[d] = files[d]
  <2>1. Call \/ UNCHANGED services
    BY StepKeeps
  <2>2. CASE UNCHANGED services
    BY <2>2 DEF services
  <2>3. CASE Call
    <3>0. PICK u \in Users, c \in Docs : \E a, arg : Perform(u, c, a, arg)
      BY <2>3, Zenon DEF Call
    <3>1. PICK a, arg : Perform(u, c, a, arg)
      BY <3>0
    <3>2. /\ now \in Nat /\ stamp \in [Docs -> Nat] /\ stamp[d] <= now
          /\ doc = [e \in Docs |-> doc[e]] /\ meta \in [Docs -> MetaType] /\ files \in [Docs -> Seq(FileType)]
      BY DEF ServicesInv
    <3>3. stamp' = [stamp EXCEPT ![c] = now + 1]
      BY <3>1 DEF Perform
    <3>4. c # d
      BY <3>2, <3>3
    <3>5. PICK row, fs, m : /\ doc' = [doc EXCEPT ![c] = row] /\ files' = [files EXCEPT ![c] = fs]
                            /\ meta' = [meta EXCEPT ![c] = m]
      BY <3>1 DEF Perform
    <3> QED
      BY <3>2, <3>4, <3>5
  <2> QED
    BY <2>1, <2>2, <2>3
<1> QED
  BY <1>1 DEF Row, Detail

LEMMA RowStays ==
    ASSUME LibraryInv, [Next]_vars, NEW row, RowInv(row), Told(row)
    PROVE  Told(row)'
<1>1. ServicesInv /\ TasksInv /\ Grows
  BY ServicesStep DEF LibraryInv
<1>2. row.id \in Docs /\ row.stamp \in Nat /\ row.stamp <= stamp[row.id]
  BY DEF RowInv, Told
<1>3. stamp[row.id] \in Nat /\ stamp'[row.id] \in Nat /\ stamp[row.id] <= stamp'[row.id]
  BY <1>1, <1>2 DEF ServicesInv, Grows
<1>4. row.stamp <= stamp'[row.id]
  BY <1>2, <1>3
<1>5. ASSUME row.stamp = stamp'[row.id] PROVE row = Row(row.id)'
  <2>1. stamp'[row.id] = stamp[row.id]
    BY <1>2, <1>3, <1>5
  <2> QED
    BY <1>1, <1>2, <1>5, <2>1, Unwritten DEF Told
<1> QED
  BY <1>4, <1>5 DEF Told

LEMMA DetailToldStays ==
    ASSUME LibraryInv, [Next]_vars, NEW d \in Docs, NEW x, DetailInv(d, x), DetailTold(d, x)
    PROVE  DetailTold(d, x)'
<1>1. ServicesInv /\ TasksInv /\ Grows
  BY ServicesStep DEF LibraryInv
<1>2. x.stamp \in Nat /\ x.stamp <= stamp[d]
  BY DEF DetailInv
<1>3. stamp[d] \in Nat /\ stamp'[d] \in Nat /\ stamp[d] <= stamp'[d]
  BY <1>1 DEF ServicesInv, Grows
<1>4. ASSUME x.stamp = stamp'[d] PROVE x = Detail(d)'
  <2>1. stamp'[d] = stamp[d]
    BY <1>2, <1>3, <1>4
  <2> QED
    BY <1>1, <1>4, <2>1, Unwritten DEF DetailTold
<1> QED
  BY <1>4 DEF DetailTold

(* What is in an answer after a step was in it, or was answered now.          *)
LEMMA Sources ==
    ASSUME CacheShape, NEW k \in Keys
    PROVE  cache'[k].rows \cup cache'[k].next \subseteq cache[k].rows \cup cache[k].next \cup Answer(k)
<1>1. Same(k) \/ Asks(k) \/ Gets(k) \/ Shows(k) \/ Fails(k)
  BY DEF CacheShape
<1>2. CASE Same(k)
  BY <1>2 DEF Same
<1>3. CASE Asks(k)
  BY <1>3 DEF Asks
<1>4. CASE Gets(k)
  BY <1>4 DEF Gets
<1>5. CASE Shows(k)
  BY <1>5 DEF Shows, NoQuery
<1>6. CASE Fails(k)
  BY <1>6 DEF Fails
<1> QED
  BY <1>1, <1>2, <1>3, <1>4, <1>5, <1>6

(* A chain that is stored was configured: by others, or from a draft.         *)
LEMMA ChainsStep ==
    ASSUME LibraryInv, OffersInv, [Next]_vars
    PROVE  \A d \in Docs : doc'[d].chain \in Seq(Users)
<1>1. ServicesInv /\ TasksInv /\ (Call \/ UNCHANGED services)
  BY StepKeeps DEF LibraryInv
<1>2. doc = [d \in Docs |-> doc[d]] /\ \A d \in Docs : Stored(doc[d])
  BY <1>1 DEF ServicesInv
<1>3. \A d \in Docs : doc[d].chain \in Seq(Users)
  BY DEF OffersInv
<1>4. CASE UNCHANGED services
  BY <1>3, <1>4 DEF services
<1>5. CASE Call
  <2>0. PICK u \in Users, d \in Docs : \E a, arg :
           /\ a = "CHAIN" => arg \in budget.chains \/ \E t \in Tasks : task[t].action = "CHAIN" /\ arg = task[t].arg
           /\ Perform(u, d, a, arg)
    BY <1>5, Zenon DEF Call
  <2>1. PICK a, arg :
           /\ a = "CHAIN" => arg \in budget.chains \/ \E t \in Tasks : task[t].action = "CHAIN" /\ arg = task[t].arg
           /\ Perform(u, d, a, arg)
    BY <2>0
  <2>2. a = "CHAIN" => arg \in Drafts
    BY <2>1 DEF OffersInv
  <2> DEFINE row == IF a \in L!Actions THEN Acted(u, d, a) ELSE Changed(d, a, arg)
  <2>3. doc' = [doc EXCEPT ![d] = row]
    BY <2>1 DEF Perform
  <2>4. row.chain \in Seq(Users)
    <3>0. PICK c \in Seq(Users) :
             doc[d] \in [status : Statuses \cup {"NONE", "PURGED"}, chain : {c}, step : Nat, hold : BOOLEAN,
                         publishedAt : Nat, archivedAt : Nat, deletedAt : Nat]
      BY <1>2, <1>3 DEF Stored
    <3>1. CASE a \in L!Actions
      <4>1. [doc[d] EXCEPT !.step = @ + 1].chain = c
        BY <3>0
      <4>2. L!Moved(doc[d], a, 1).chain = c
        BY <3>0 DEF L!Moved
      <4> QED
        BY <3>1, <4>1, <4>2 DEF Acted
    <3>2. CASE a \notin L!Actions
      <4>1. [doc[d] EXCEPT !.hold = TRUE].chain = c /\ [doc[d] EXCEPT !.hold = FALSE].chain = c /\ doc[d].chain = c
        BY <3>0
      <4>2. \A n : [doc[d] EXCEPT !.chain = n, !.step = 0].chain = n
        BY <3>0
      <4>3. CASE a = "CHAIN"
        <5>1. Changed(d, a, arg).chain = Normalized(arg)
          BY <4>2, <4>3 DEF Changed
        <5> QED
          BY <2>2, <3>2, <4>3, <5>1, NormalizedUsers
      <4>4. CASE a # "CHAIN"
        <5>1. Changed(d, a, arg).chain = c
          BY <4>1, <4>4, Zenon DEF Changed
        <5> QED
          BY <3>2, <5>1
      <4> QED
        BY <4>3, <4>4
    <3> QED
      BY <3>1, <3>2
  <2> HIDE DEF row
  <2> QED
    BY <1>2, <1>3, <2>3, <2>4
<1> QED
  BY <1>1, <1>4, <1>5

(* What a task was begun with, it keeps; a chain is begun from the editor.    *)
LEMMA TaskChainsStep ==
    ASSUME LibraryInv, OffersInv, [Next]_vars
    PROVE  \A t \in Tasks : task'[t].action = "CHAIN" => task'[t].arg \in Drafts
<1> DEFINE Good(r) == r.action = "CHAIN" => r.arg \in Drafts
           Keeps(r, n) == n.action = r.action /\ n.arg = r.arg
           Goal == \A t \in Tasks : Good(task'[t])
<1>1. CacheInv /\ PageInv
  BY DEF LibraryInv
<1>2. task = [t \in Tasks |-> task[t]] /\ \A t \in Tasks : TaskInv(task[t]) /\ Good(task[t])
  BY DEF LibraryInv, TasksInv, OffersInv
<1>3. ASSUME NEW r, TaskInv(r)
      PROVE  /\ \A here : Keeps(r, [r EXCEPT !.here = here])
             /\ Keeps(r, [r EXCEPT !.undone = TRUE, !.pc = "done"])
             /\ \A pc : Keeps(r, [r EXCEPT !.pc = pc])
             /\ \A pc, d : Keeps(r, [r EXCEPT !.pc = pc, !.doc = d])
             /\ \A pc, g : Keeps(r, [r EXCEPT !.pc = pc, !.granted = g])
             /\ \A pc, g, c : Keeps(r, [r EXCEPT !.pc = pc, !.granted = g, !.changed = c])
             /\ \A pc, f, todo : Keeps(r, [r EXCEPT !.pc = pc, !.fail = f, !.todo = todo])
             /\ \A pc, ok, todo, told : Keeps(r, [r EXCEPT !.pc = pc, !.ok = ok, !.todo = todo, !.told = told])
  BY <1>3 DEF TaskInv, TaskType
<1>4. ASSUME UNCHANGED task PROVE Goal
  BY <1>2, <1>4
<1>5. ASSUME NEW t \in Tasks, NEW n, task' = [task EXCEPT ![t] = n], Good(n) PROVE Goal
  <2> HIDE DEF Good
  <2>1. task'[t] = n /\ \A s \in Tasks : s # t => task'[s] = task[s]
    BY <1>2, <1>5
  <2> QED
    BY <1>2, <1>5, <2>1
<1>6. ASSUME NEW t \in Tasks, NEW n, Step(t, n), Keeps(task[t], n) PROVE Goal
  <2>1. Good(n)
    BY <1>2, <1>6
  <2> HIDE DEF Good, Goal
  <2> QED
    BY <1>5, <1>6, <2>1 DEF Step
<1>7. ASSUME NEW t \in Tasks, NEW kind, NEW pc, NEW a, NEW arg, NEW chosen,
             Begin(t, kind, pc, a, arg, chosen), a = "CHAIN" => arg \in Drafts
      PROVE  Goal
  <2> DEFINE n == [NoTask EXCEPT !.kind = kind, !.pc = pc, !.action = a, !.arg = arg,
                                 !.chosen = chosen, !.todo = chosen, !.here = TRUE]
  <2>1. n.action = a /\ n.arg = arg
    BY DEF NoTask
  <2>2. task' = [task EXCEPT ![t] = n]
    BY <1>7 DEF Begin
  <2> HIDE DEF n
  <2>3. Good(n)
    BY <1>7, <2>1
  <2> HIDE DEF Good, Goal
  <2> QED
    BY <1>5, <2>2, <2>3
<1>8. ASSUME NEW here, task' = [t \in Tasks |-> [task[t] EXCEPT !.here = here[t]]] PROVE Goal
  <2>1. ASSUME NEW t \in Tasks PROVE Good(task'[t])
    <3>1. task'[t] = [task[t] EXCEPT !.here = here[t]]
      BY <1>8
    <3>2. Keeps(task[t], task'[t])
      BY <1>2, <1>3, <3>1
    <3> QED
      BY <1>2, <3>2
  <2> QED
    BY <2>1
<1> HIDE DEF Good, Goal
<1>9. ASSUME OthersStep PROVE Goal
  BY <1>4, <1>9 DEF OthersStep, OtherActs
<1>10. "CHAIN" \notin L!Actions \cup Holds \cup {"UPLOAD", "RESTORE"}
  BY ActionFacts DEF Holds
<1>11. ASSUME NEW t \in Tasks, Confirm(t) PROVE Goal
  <2>1. page.dialog \in [doc : Docs, action : L!Actions, busy : BOOLEAN]
    BY <1>1, <1>11 DEF Confirm, PageInv
  <2>2. page.dialog.action # "CHAIN"
    BY <1>10, <2>1
  <2> QED
    BY <1>7, <1>11, <2>2 DEF Confirm
<1>12. ASSUME NEW t \in Tasks, NEW a \in L!Actions, NEW rows, Bulk(t, a, rows) PROVE Goal
  BY <1>7, <1>10, <1>12 DEF Bulk
<1>13. ASSUME PageStep PROVE Goal
  BY <1>4, <1>11, <1>12, <1>13, Zenon DEF PageStep, ChangeFilters, TurnPage, OpenDialog, CancelDialog
<1>14. ASSUME CacheStep PROVE Goal
  BY <1>4, <1>14, Zenon DEF CacheStep, Serve, Refetch, Open, OfCache
<1>15. ASSUME OnApprovals PROVE Goal
  BY <1>4, <1>15 DEF OnApprovals, OpenDrawer, CloseDrawer, Decide
<1>16. ASSUME NEW t \in Tasks, TaskStep(t) PROVE Goal
  <2>1. PICK r : r = task[t] /\ TaskInv(r)
    BY <1>2
  <2>2. ASSUME NEW n, Step(t, n), Keeps(r, n) PROVE Goal
    BY <1>6, <2>1, <2>2, SMTT(30)
  <2> HIDE DEF Keeps
  <2>3. ASSUME Undo(t) PROVE Goal
    BY <1>3, <2>1, <2>2, <2>3, ZenonT(60) DEF Undo
  <2>4. ASSUME Fire(t) PROVE Goal
    BY <1>3, <2>1, <2>2, <2>4, ZenonT(60) DEF Fire
  <2>5. ASSUME NEW d, Send(t, d) PROVE Goal
    <3>1. Keeps(r, [r EXCEPT !.pc = "sent", !.doc = d])
      BY <1>3, <2>1, Zenon
    <3>2. Step(t, [r EXCEPT !.pc = "sent", !.doc = d])
      BY <2>1, <2>5, SMTT(30) DEF Send
    <3> QED
      BY <2>2, <3>1, <3>2
  <2>6. Keeps(r, AfterFailure(r))
    BY <1>3, <2>1, Zenon DEF AfterFailure
  <2>7. ASSUME CallFails(t) PROVE Goal
    BY <2>1, <2>2, <2>6, <2>7 DEF CallFails
  <2>8. ASSUME CallAnswered(t) PROVE Goal
    <3> DEFINE n == [r EXCEPT !.pc = "running", !.ok = @ + 1, !.todo = @ \ {r.doc}, !.told = @ \cup OfDoc(r)]
    <3>1. Step(t, n) \/ Step(t, AfterFailure(r))
      BY <2>1, <2>8 DEF CallAnswered
    <3>2. PICK ok, todo, told : n = [r EXCEPT !.pc = "running", !.ok = ok, !.todo = todo, !.told = told]
      BY ZenonT(60)
    <3>3. Keeps(r, [r EXCEPT !.pc = "running", !.ok = ok, !.todo = todo, !.told = told])
      BY <1>3, <2>1, Zenon
    <3> HIDE DEF n
    <3> QED
      BY <2>2, <2>6, <3>1, <3>2, <3>3
  <2>9. ASSUME ServeCall(t) PROVE Goal
    <3> DEFINE n == [r EXCEPT !.pc = "served", !.granted = TRUE,
                              !.changed = @ \cup {[doc |-> r.doc, stamp |-> now + 1]}]
               no == [r EXCEPT !.pc = "served", !.granted = FALSE]
    <3>1. Step(t, n) \/ Step(t, no)
      BY <2>1, <2>9 DEF ServeCall
    <3>2. PICK c : n = [r EXCEPT !.pc = "served", !.granted = TRUE, !.changed = c]
      BY ZenonT(60)
    <3>3. Keeps(r, [r EXCEPT !.pc = "served", !.granted = TRUE, !.changed = c]) /\ Keeps(r, no)
      BY <1>3, <2>1, Zenon
    <3> HIDE DEF n, no
    <3> QED
      BY <2>2, <3>1, <3>2, <3>3
  <2> QED
    BY <1>16, <2>3, <2>4, <2>5, <2>7, <2>8, <2>9 DEF TaskStep
<1>17. ASSUME NEW t \in Tasks, Ends(t) PROVE Goal
  <2>1. Step(t, [task[t] EXCEPT !.pc = "done"]) /\ TaskInv(task[t])
    BY <1>2, <1>17 DEF Ends, Finish
  <2>2. Keeps(task[t], [task[t] EXCEPT !.pc = "done"])
    BY <1>3, <2>1
  <2> HIDE DEF Keeps
  <2> QED
    BY <1>6, <2>1, <2>2
<1>18. ASSUME NEW k, PageFails(k) PROVE Goal
  <2>1. CASE UNCHANGED task
    BY <1>4, <2>1
  <2>2. CASE task' = [t \in Tasks |-> [task[t] EXCEPT !.here = @ /\ task[t].kind = "drawer"]]
    <3> DEFINE here == [t \in Tasks |-> task[t].here /\ task[t].kind = "drawer"]
    <3>1. \A t \in Tasks : [task[t] EXCEPT !.here = @ /\ task[t].kind = "drawer"] = [task[t] EXCEPT !.here = here[t]]
      BY <1>2 DEF TaskInv, TaskType
    <3>2. task' = [t \in Tasks |-> [task[t] EXCEPT !.here = here[t]]]
      BY <2>2, <3>1
    <3> HIDE DEF here
    <3> QED
      BY <1>8, <3>2
  <2> QED
    BY <1>18, <2>1, <2>2 DEF PageFails, FailFetch
<1>19. ASSUME NEW k, PageArrives(k) PROVE Goal
  BY <1>4, <1>19 DEF PageArrives, Arrive, OfCache
<1>20. ASSUME Leave PROVE Goal
  <2> DEFINE here == [t \in Tasks |-> FALSE]
  <2>1. task' = [t \in Tasks |-> [task[t] EXCEPT !.here = here[t]]]
    BY <1>20 DEF Leave
  <2> HIDE DEF here
  <2> QED
    BY <1>8, <2>1
<1>21. ASSUME OpenApprovals \/ \E d \in Docs : OpenDocument(d) PROVE Goal
  BY <1>4, <1>21, Zenon DEF OpenApprovals, OpenDocument
<1>22. ASSUME NEW x, OnDocument(x) PROVE Goal
  <2>1. ASSUME NEW t \in Tasks, SaveChain(t, x) PROVE Goal
    <3>1. Normalized(desk.draft) \in Seq(Users)
      BY NormalizedUsers DEF OffersInv
    <3>2. Normalized(desk.draft) \in Drafts
      BY <3>1 DEF Drafts
    <3> QED
      BY <1>7, <2>1, <3>2 DEF SaveChain
  <2>2. ASSUME NEW t \in Tasks, NEW change \in Holds, SetLegalHold(t, x, change) PROVE Goal
    BY <1>7, <1>10, <2>2 DEF SetLegalHold
  <2>3. ASSUME NEW t \in Tasks, NEW file, UploadFile(t, x, file) PROVE Goal
    BY <1>7, <2>3 DEF UploadFile
  <2>4. ASSUME NEW t \in Tasks, NEW v, RestoreVersion(t, x, v) PROVE Goal
    BY <1>7, <2>4 DEF RestoreVersion
  <2>5. ASSUME EditChain(x) \/ \E v : Compare(x, v) \/ ChoosePreview(x, v) PROVE Goal
    BY <1>4, <2>5 DEF EditChain, Compare, ChoosePreview, OfDesk
  <2> QED
    BY <1>22, <2>1, <2>2, <2>3, <2>4, <2>5 DEF OnDocument
<1>23. ASSUME OnDesk PROVE Goal
  <2>1. ASSUME ClosePreview \/ CancelEdit \/ \E draft : Redraft(draft) PROVE Goal
    BY <1>4, <2>1 DEF ClosePreview, CancelEdit, Redraft, OfDesk
  <2>2. ASSUME NEW i, LoadAnswered(i) \/ LoadFails(i) PROVE Goal
    BY <1>4, <2>2 DEF LoadAnswered, LoadFails, OfDesk
  <2> QED
    BY <1>22, <1>23, <2>1, <2>2 DEF OnDesk
<1>24. ASSUME UNCHANGED vars PROVE Goal
  BY <1>4, <1>24 DEF vars
<1>25. ASSUME Next PROVE Goal
  BY <1>9, <1>13, <1>14, <1>15, <1>16, <1>17, <1>18, <1>19, <1>20, <1>21, <1>23, <1>25, Zenon DEF Next
<1>26. Goal
  BY <1>24, <1>25
<1> QED
  BY <1>26 DEF Goal, Good

(* The draft: the chain that is shown, as it was edited.                      *)
LEMMA DraftStep ==
    ASSUME LibraryInv, OffersInv, [Next]_vars
    PROVE  desk'.draft \in Drafts
<1> DEFINE Kept(dk) == dk.draft = desk.draft
           Goal == desk'.draft \in Drafts
<1>1. CacheInv /\ PageInv /\ desk \in DeskType(desk.draft) /\ desk.draft \in Drafts
  BY DEF LibraryInv, DeskInv, PreviewInv, OffersInv
<1>2. <<>> \in Drafts
  BY DEF Drafts
<1>3. ASSUME Kept(desk') PROVE Goal
  BY <1>1, <1>3
<1>4. ASSUME UNCHANGED desk PROVE Goal
  BY <1>1, <1>4
<1>5. Unedited(desk).draft = <<>> /\ Blanked(desk).draft = <<>> /\ NewDesk.draft = <<>>
  <2>1. Unedited(desk).draft = <<>>
    BY <1>1 DEF Unedited, DeskType
  <2>2. Blanked(desk).draft = <<>>
    BY <1>1 DEF Blanked, Unloaded, Unedited, DeskType
  <2> QED
    BY <2>1, <2>2 DEF NewDesk
<1>6. \A v : Kept(Loading(desk, v))
  BY <1>1 DEF Loading, DeskType
<1>7. ASSUME NEW i, NEW view PROVE Kept(Landed(i, view))
  <2> DEFINE after == [desk EXCEPT !.loads[i].done = TRUE]
  <2>1. \A l : [desk EXCEPT !.loads = l] \in [DOMAIN desk -> {[desk EXCEPT !.loads = l][f] : f \in DOMAIN desk}]
               /\ [desk EXCEPT !.loads = l].draft = desk.draft
               /\ \A w, o : [[desk EXCEPT !.loads = l] EXCEPT !.view = w, !.of = o].draft = desk.draft
    BY <1>1 DEF DeskType
  <2>2. PICK l : after = [desk EXCEPT !.loads = l]
    BY <1>1 DEF DeskType
  <2>3. after.draft = desk.draft /\ \A w, o : [after EXCEPT !.view = w, !.of = o].draft = desk.draft
    BY <2>1, <2>2
  <2>4. Landed(i, view) = IF desk.loads[i].live THEN [after EXCEPT !.view = view, !.of = desk.loads[i].version] ELSE after
    BY DEF Landed
  <2> HIDE DEF after
  <2> QED
    BY <2>3, <2>4
<1> HIDE DEF Kept, Goal
<1>8. ASSUME NEW x \in OnPage, OnDocument(x) PROVE Goal
  <2>1. ASSUME EditChain(x) PROVE Goal
    <3>1. page.doc \in Docs /\ x \in cache[DetailKey(page.doc)].rows
      BY <1>1, PageRows
    <3>2. x.chain \in Seq(Users)
      BY <3>1 DEF OffersInv, DetailTold
    <3>3. desk'.draft = ChainDraft(x.chain)
      BY <1>1, <2>1 DEF EditChain, DeskType
    <3> QED
      BY <3>2, <3>3, ChainDrafts DEF Goal
  <2>2. ASSUME NEW v, Compare(x, v) PROVE Goal
    <3>1. Kept(desk')
      BY <1>1, <2>2 DEF Compare, DeskType, Kept
    <3> QED
      BY <1>3, <3>1
  <2>3. ASSUME NEW v, ChoosePreview(x, v) PROVE Goal
    BY <1>3, <1>6, <2>3 DEF ChoosePreview
  <2>4. ASSUME NEW t, SaveChain(t, x) PROVE Goal
    BY <1>4, <2>4 DEF SaveChain
  <2>5. ASSUME NEW t, NEW c, SetLegalHold(t, x, c) \/ UploadFile(t, x, c) \/ RestoreVersion(t, x, c) PROVE Goal
    BY <1>4, <2>5 DEF SetLegalHold, UploadFile, RestoreVersion
  <2> QED
    BY <1>8, <2>1, <2>2, <2>3, <2>4, <2>5 DEF OnDocument
<1>9. ASSUME OnDesk PROVE Goal
  <2>1. ASSUME ClosePreview PROVE Goal
    <3>1. Kept([Unloaded(desk) EXCEPT !.chosen = 0])
      BY <1>1 DEF Unloaded, DeskType, Kept
    <3> QED
      BY <1>3, <2>1, <3>1 DEF ClosePreview
  <2>2. ASSUME NEW i, LoadAnswered(i) \/ LoadFails(i) PROVE Goal
    BY <1>3, <1>7, <2>2 DEF LoadAnswered, LoadFails
  <2>3. ASSUME CancelEdit PROVE Goal
    BY <1>2, <1>5, <2>3 DEF CancelEdit, Goal
  <2>4. ASSUME NEW draft \in Redrafts(desk.draft, Approvers), Redraft(draft) PROVE Goal
    <3>1. desk'.draft = draft
      BY <1>1, <2>4 DEF Redraft, DeskType
    <3> QED
      BY <1>1, <3>1, RedraftsAre DEF Goal
  <2> QED
    BY <1>8, <1>9, <2>1, <2>2, <2>3, <2>4 DEF OnDesk
<1>10. ASSUME NEW t, Ends(t) PROVE Goal
  <2>1. desk' = Unedited(desk) \/ desk' = desk
    BY <1>10, Zenon DEF Ends
  <2> QED
    BY <1>2, <1>4, <1>5, <2>1 DEF Goal
<1>11. ASSUME NEW k, PageFails(k) PROVE Goal
  <2>1. desk' = Blanked(desk) \/ desk' = desk
    BY <1>11, Zenon DEF PageFails
  <2> QED
    BY <1>2, <1>4, <1>5, <2>1 DEF Goal
<1>12. ASSUME NEW k, PageArrives(k) PROVE Goal
  <2>1. desk' = Loading(desk, desk.chosen) \/ desk' = desk
    BY <1>12, Zenon DEF PageArrives
  <2> QED
    BY <1>3, <1>4, <1>6, <2>1
<1>13. ASSUME desk' = NewDesk PROVE Goal
  BY <1>2, <1>5, <1>13 DEF Goal
<1>14. ASSUME UNCHANGED vars PROVE Goal
  BY <1>4, <1>14 DEF vars
<1>15. ASSUME Next PROVE Goal
  BY <1>4, <1>9, <1>10, <1>11, <1>12, <1>13, <1>15, Zenon DEF Next
<1>16. Goal
  BY <1>14, <1>15
<1> QED
  BY <1>16 DEF Goal

(* What the service answers tells of now.                                     *)
LEMMA AnswersTold ==
    ASSUME ServicesInv, \A d \in Docs : doc[d].chain \in Seq(Users)
    PROVE  /\ \A row \in Answer(ListKey) : Told(row)
           /\ \A d \in Docs : DetailTold(d, Detail(d))
<1>1. ASSUME NEW row \in Answer(ListKey) PROVE Told(row)
  <2>1. row \in Rows
    BY <1>1, KeysDiffer DEF Answer
  <2>2. PICK d \in Docs : row = Row(d)
    BY <2>1 DEF Rows
  <2>3. row.id = d /\ row.stamp = stamp[d] /\ stamp[d] \in Nat
    BY <2>2, RowFacts DEF ServicesInv
  <2> QED
    BY <2>2, <2>3 DEF Told
<1>2. ASSUME NEW d \in Docs PROVE DetailTold(d, Detail(d))
  BY DEF Detail, DetailTold
<1> QED
  BY <1>1, <1>2

LEMMA OffersStep ==
    ASSUME LibraryInv, LibraryInv', OffersInv, [Next]_vars
    PROVE  OffersInv'
<1>1. /\ ServicesInv /\ CacheInv /\ CacheShape /\ TasksInv
      /\ stamp \in [Docs -> Nat] /\ ListKey \in Keys /\ \A d \in Docs : DetailKey(d) \in Keys
  BY CacheShapes, KeyFacts DEF LibraryInv, ServicesInv
<1>2. budget'.chains \subseteq Drafts
  <2>1. budget'.chains = budget.chains
    BY <1>1, StepKeeps DEF BudgetKept
  <2> QED
    BY <2>1 DEF OffersInv
<1>3. ASSUME NEW row \in cache'[ListKey].rows \cup cache'[ListKey].next PROVE Told(row)'
  <2>1. row \in list.rows \cup list.next \cup Answer(ListKey)
    BY <1>1, <1>3, Sources DEF list
  <2>2. RowInv(row)
    BY <1>1, <2>1, Answers DEF CacheInv
  <2>3. Told(row)
    <3>1. CASE row \in list.rows \cup list.next
      BY <3>1 DEF OffersInv
    <3>2. CASE row \in Answer(ListKey)
      BY <1>1, <3>2, AnswersTold DEF OffersInv
    <3> QED
      BY <2>1, <3>1, <3>2
  <2> QED
    BY <2>2, <2>3, RowStays
<1>4. ASSUME NEW d \in Docs, NEW x \in cache'[DetailKey(d)].rows \cup cache'[DetailKey(d)].next
      PROVE  DetailTold(d, x)'
  <2>1. x \in cache[DetailKey(d)].rows \cup cache[DetailKey(d)].next \cup Answer(DetailKey(d))
    BY <1>1, <1>4, Sources
  <2>2. Answer(DetailKey(d)) = {Detail(d)} /\ DetailInv(d, Detail(d))
    BY <1>1, Answers
  <2>3. DetailInv(d, x)
    BY <1>1, <2>1, <2>2 DEF CacheInv
  <2>4. DetailTold(d, x)
    <3>1. CASE x \in cache[DetailKey(d)].rows \cup cache[DetailKey(d)].next
      BY <3>1 DEF OffersInv
    <3>2. CASE x = Detail(d)
      BY <1>1, <3>2, AnswersTold DEF OffersInv
    <3> QED
      BY <2>1, <2>2, <3>1, <3>2
  <2> QED
    BY <2>3, <2>4, DetailToldStays
<1>5. /\ \A d \in Docs : doc'[d].chain \in Seq(Users)
      /\ \A t \in Tasks : task'[t].action = "CHAIN" => task'[t].arg \in Drafts
      /\ desk'.draft \in Drafts
  BY ChainsStep, TaskChainsStep, DraftStep
<1> QED
  BY <1>2, <1>3, <1>4, <1>5 DEF OffersInv, list

LEMMA OffersInit ==
    ASSUME Init
    PROVE  OffersInv
<1>1. PICK s \in Scenarios : doc \in s.docs /\ budget = s.budget
  BY Zenon DEF Init
<1>2. s.docs \subseteq [Docs -> DocRow] /\ s.budget.chains \subseteq Seq(Users \cup {Blank})
  BY ScenarioAssumption
<1>3. \A d \in Docs : doc[d].chain \in Seq(Users)
  BY <1>1, <1>2 DEF DocRow
<1>4. budget.chains \subseteq Drafts
  BY <1>1, <1>2 DEF Drafts
<1>5. /\ desk = NewDesk /\ task = [t \in Tasks |-> NoTask]
      /\ cache = [k \in Keys |-> IF k \in Shown \cup {ListKey} THEN [NoQuery EXCEPT !.rows = Answer(k), !.known = TRUE]
                                 ELSE NoQuery]
  BY Zenon DEF Init
<1>6. desk.draft \in Drafts /\ \A t \in Tasks : task[t].action # "CHAIN"
  <2>1. desk.draft = <<>>
    BY <1>5, Zenon DEF NewDesk
  <2>2. NoTask.action = "NONE"
    BY DEF NoTask
  <2>3. <<>> \in Drafts
    BY DEF Drafts
  <2>4. \A t \in Tasks : task[t].action = "NONE"
    BY <1>5, <2>2, Zenon
  <2> QED
    BY <2>1, <2>3, <2>4
<1>7. \A k \in Keys : cache[k].next = {} /\ cache[k].rows \in {{}, Answer(k)}
  BY <1>5, Zenon DEF NoQuery
<1>8. ServicesInv
  BY LibraryInit DEF LibraryInv
<1>9. \A row \in list.rows \cup list.next : Told(row)
  BY <1>3, <1>7, <1>8, AnswersTold, KeyFacts DEF list
<1>10. ASSUME NEW d \in Docs, NEW x \in cache[DetailKey(d)].rows \cup cache[DetailKey(d)].next
       PROVE  DetailTold(d, x)
  <2>1. x \in Answer(DetailKey(d))
    BY <1>7, KeyFacts
  <2>2. x = Detail(d)
    BY <2>1, KeysDiffer DEF Answer
  <2> QED
    BY <1>3, <1>8, <2>2, AnswersTold
<1> QED
  BY <1>3, <1>4, <1>6, <1>9, <1>10 DEF OffersInv

(* A row or a detail that is of now is the document that is stored, and a     *)
(* chain names users only, however it was drafted (approval-chain.ts:62).     *)
THEOREM OffersInvariant == Spec => []OffersInv
<1>1. OffersInv /\ LibraryInv /\ LibraryInv' /\ [Next]_vars => OffersInv'
  BY OffersStep
<1> QED
  BY <1>1, OffersInit, LibraryInvariant, PTL DEF Spec

(* What the row and what the services look at is the same.                    *)
LEMMA OfferedIsGranted ==
    ASSUME NEW u, NEW d, NEW row, row.status = doc[d].status, row.owner = Owner[d], NEW a \in L!Actions
    PROVE  /\ MayAct(u, d, a) => Offered(u, row, a)
           /\ Offered(u, row, a) =>
                 MayAct(u, d, a) \/ (a = "APPROVE" /\ L!Bound(u, d) /\ ~L!MyTurn(u, d))
<1>1. a \in {"SUBMIT", "APPROVE", "REJECT", "ARCHIVE", "DELETE"}
  BY ActionFacts DEF WorkflowActions
<1>2. Manages(u, row) <=> L!CanManage(u, d)
  BY DEF Manages, L!CanManage
<1>3. /\ L!TRANSITION_MAP["SUBMIT"].from = "DRAFT" /\ L!TRANSITION_MAP["DELETE"].from = "DRAFT"
      /\ L!TRANSITION_MAP["APPROVE"].from = "PENDING" /\ L!TRANSITION_MAP["REJECT"].from = "PENDING"
      /\ L!TRANSITION_MAP["ARCHIVE"].from = "PUBLISHED"
  BY DEF L!TRANSITION_MAP, L!Edge
<1>4. CASE a \in {"APPROVE", "REJECT"}
  BY <1>3, <1>4 DEF MayAct, Offered, L!MayRequest
<1>5. CASE a = "ARCHIVE"
  BY <1>2, <1>3, <1>5 DEF MayAct, Offered, L!MayRequest
<1>6. CASE a \in {"SUBMIT", "DELETE"}
  BY <1>2, <1>3, <1>6 DEF MayAct, Offered, L!MayRequest
<1> QED
  BY <1>1, <1>4, <1>5, <1>6

LEMMA QueueOffers ==
    ASSUME NEW u, NEW row, NEW rows
    PROVE  /\ QueueLabel(u, row, rows) = "Review decision" => Offered(u, row, "APPROVE")
           /\ QueueLabel(u, row, rows) = "Prepare submission" => Offered(u, row, "SUBMIT")
BY DEF QueueLabel, Offered, Manages

(* The step that the card shows as current is the one whose turn it is.       *)
LEMMA TurnShown ==
    ASSUME NEW d, NEW x, x.status = "PENDING", x.chain \in Seq(Users), x.step \in Nat,
           x.chain = doc[d].chain, x.step = doc[d].step
    PROVE  CurrentApprovers(x) = {u \in Users : L!MyTurn(u, d)}
<1> DEFINE n == x.step + 1
<1>1. DOMAIN x.chain = 1..Len(x.chain) /\ Len(x.chain) \in Nat /\ n \in Nat /\ n # 0
  OBVIOUS
<1>2. \A i \in DOMAIN x.chain : ChainSteps(x)[i] = "current" <=> i = n
  BY <1>1 DEF ChainSteps
<1>3. CurrentApprovers(x) = {x.chain[i] : i \in {i \in DOMAIN x.chain : i = n}}
  BY <1>2, Zenon DEF CurrentApprovers
<1>4. n \in DOMAIN x.chain <=> x.step < Len(x.chain)
  BY <1>1
<1>5. \A u : L!MyTurn(u, d) <=> n \in DOMAIN x.chain /\ x.chain[n] = u
  BY <1>4 DEF L!MyTurn
<1>6. n \in DOMAIN x.chain => x.chain[n] \in Users
  BY <1>1
<1> HIDE DEF n
<1> QED
  BY <1>3, <1>5, <1>6

(* As long as a document has not been written since it was fetched, the pages *)
(* offer on it exactly what the services grant, but for an approver whose     *)
(* turn has not come and for a chain that was begun, and the chain card names *)
(* the approver whose turn it is (permissions.ts:317, workflow.service.ts:65, *)
(* dashboard-model.ts:333, approval-chain.ts:22).                             *)
THEOREM OffersGrantedHolds == Spec => []OffersGranted
<1>1. LibraryInv /\ OffersInv => OffersGranted
  <2> SUFFICES ASSUME LibraryInv, OffersInv PROVE OffersGranted
    OBVIOUS
  <2>1. ServicesInv /\ CacheInv /\ PageInv
    BY DEF LibraryInv
  <2>2. ASSUME NEW x \in OnPage, stamp[x.id] = x.stamp PROVE x.id \in Docs /\ x = Detail(x.id)
    <3>1. page.doc \in Docs /\ x \in cache[DetailKey(page.doc)].rows /\ x.id = page.doc
      BY <2>1, PageRows
    <3> QED
      BY <2>2, <3>1 DEF OffersInv, DetailTold
  <2>3. ASSUME NEW row \in list.rows \cup OnPage, stamp[row.id] = row.stamp
        PROVE  row.status = doc[row.id].status /\ row.owner = Owner[row.id]
    <3>1. CASE row \in list.rows
      <4>1. row = Row(row.id)
        BY <2>3, <3>1 DEF OffersInv, Told
      <4> QED
        BY <4>1 DEF Row
    <3>2. CASE row \in OnPage
      <4>1. row = Detail(row.id)
        BY <2>2, <2>3, <3>2
      <4> QED
        BY <4>1 DEF Detail, Row
    <3> QED
      BY <3>1, <3>2
  <2>4. ASSUME NEW x \in OnPage, stamp[x.id] = x.stamp
        PROVE  /\ \A change \in HoldOffers(me, x) : MayChange(me, x.id, change, None)
               /\ Restorable(me, x) = {v \in DOMAIN files[x.id] : MayChange(me, x.id, "RESTORE", v)}
               /\ \A u \in Approvers : (CanEditChain(me, x) /\ x.step = 0) <=> MayChange(me, x.id, "CHAIN", <<u>>)
               /\ x.status = "PENDING" =>
                     CurrentApprovers(x) = {u \in Users : L!MyTurn(u, x.id)}
    <3>1. PICK d \in Docs : x.id = d /\ x = Detail(d)
      BY <2>2, <2>4
    <3>2. /\ x.status = doc[d].status /\ x.owner = Owner[d] /\ x.chain = doc[d].chain /\ x.step = doc[d].step
          /\ x.versions = files[d] /\ x.hold = doc[d].hold
      BY <3>1 DEF Detail, Row
    <3>3. x.chain \in Seq(Users) /\ x.step \in Nat
      BY <2>1, <3>2 DEF OffersInv, ServicesInv, Stored
    <3>4. Manages(me, x) <=> L!CanManage(me, d)
      BY <3>2 DEF Manages, L!CanManage
    <3>5. \A change \in HoldOffers(me, x) : MayChange(me, d, change, None)
      BY DEF HoldOffers, MayChange
    <3>6. Restorable(me, x) = {v \in DOMAIN files[d] : MayChange(me, d, "RESTORE", v)}
      <4>1. \A v : MayChange(me, d, "RESTORE", v) <=>
                     L!CanManage(me, d) /\ v \in DOMAIN files[d] /\ v # Len(files[d])
        BY DEF MayChange
      <4> QED
        BY <3>2, <3>4, <4>1 DEF Restorable, CurrentVersion
    <3>7. ASSUME NEW u \in Approvers
          PROVE  (CanEditChain(me, x) /\ x.step = 0) <=> MayChange(me, d, "CHAIN", <<u>>)
      <4>1. MayChange(me, d, "CHAIN", <<u>>) <=>
              L!CanManage(me, d) /\ doc[d].status = "PENDING" /\ doc[d].step = 0 /\ CanSave(<<u>>)
        BY DEF MayChange
      <4>2. CanSave(<<u>>)
        BY <3>7, OneName, PageAssumption
      <4> QED
        BY <3>2, <3>4, <4>1, <4>2 DEF CanEditChain
    <3>8. x.status = "PENDING" => CurrentApprovers(x) = {u \in Users : L!MyTurn(u, d)}
      BY <3>2, <3>3, TurnShown
    <3> QED
      BY <3>1, <3>5, <3>6, <3>7, <3>8
  <2>5. ASSUME NEW row \in list.rows \cup OnPage, stamp[row.id] = row.stamp, NEW a \in L!Actions
        PROVE  /\ MayAct(me, row.id, a) => Offered(me, row, a)
               /\ Offered(me, row, a) =>
                     MayAct(me, row.id, a) \/ (a = "APPROVE" /\ L!Bound(me, row.id) /\ ~L!MyTurn(me, row.id))
    BY <2>3, <2>5, OfferedIsGranted
  <2> QED
    BY <2>4, <2>5, QueueOffers, Zenon DEF OffersGranted
<1> QED
  BY <1>1, LibraryInvariant, OffersInvariant, PTL
-----------------------------------------------------------------------------
(* The queue: its rows are in one order, whatever they are compared by.       *)
ListRow == {row \in RowType : row.id \in Docs /\ row.status # "DELETED"}

LEMMA DivFacts ==
    ASSUME NEW n \in Nat, NEW k \in Nat \ {0}
    PROVE  /\ n \div k \in Nat /\ n \div k <= n
           /\ k * (n \div k) <= n /\ n < k * (n \div k) + k
OBVIOUS

LEMMA DivOrdered ==
    ASSUME NEW n \in Nat, NEW m \in Nat, NEW k \in Nat \ {0}, n <= m
    PROVE  n \div k <= m \div k
OBVIOUS

(* What the rows are compared by are numbers.                                 *)
LEMMA Measures ==
    ASSUME NEW waited \in Waits, NEW a \in ListRow
    PROVE  /\ waited[a.id] \in Nat /\ a.id \in Nat /\ Remaining(a, waited) \in Int
           /\ Rank(a, waited) \in 1..3 /\ AssignmentRank(a) \in 1..4
           /\ SlaState(a, waited) \in {"overdue", "due-soon", "on-track"}
           /\ Rank(a, waited) = 3 <=> SlaState(a, waited) = "overdue"
<1>1. waited[a.id] \in Nat /\ a.id \in Nat /\ a.level \in Levels
  BY WaitsAssumption, DocsFacts DEF ListRow, RowType
<1>2. SlaHours(a) \in Nat
  BY <1>1 DEF SlaHours, CLASSIFICATION_SLA_HOURS, Levels
<1>3. Remaining(a, waited) \in Int
  BY <1>1, <1>2 DEF Remaining
<1>4. SlaState(a, waited) \in {"overdue", "due-soon", "on-track"}
  BY Zenon DEF SlaState
<1>5. Rank(a, waited) \in 1..3 /\ (Rank(a, waited) = 3 <=> SlaState(a, waited) = "overdue")
  BY <1>4 DEF Rank
<1>6. AssignmentRank(a) \in 1..4
  BY DEF AssignmentRank
<1> QED
  BY <1>1, <1>3, <1>4, <1>5, <1>6

(* Of two documents of the queue one comes before the other.                  *)
LEMMA BeforeOrders ==
    ASSUME NEW waited \in Waits, NEW sort \in SlaSorts, NEW a \in ListRow, NEW b \in ListRow, NEW c \in ListRow
    PROVE  /\ ~Before(a, a, sort, waited)
           /\ a.id # b.id => Before(a, b, sort, waited) \/ Before(b, a, sort, waited)
           /\ Before(a, b, sort, waited) /\ Before(b, c, sort, waited) => Before(a, c, sort, waited)
<1>1. /\ a.id \in Nat /\ waited[a.id] \in Nat /\ Remaining(a, waited) \in Int
      /\ Rank(a, waited) \in Int /\ AssignmentRank(a) \in Int
  BY Measures
<1>2. /\ b.id \in Nat /\ waited[b.id] \in Nat /\ Remaining(b, waited) \in Int
      /\ Rank(b, waited) \in Int /\ AssignmentRank(b) \in Int
  BY Measures
<1>3. /\ c.id \in Nat /\ waited[c.id] \in Nat /\ Remaining(c, waited) \in Int
      /\ Rank(c, waited) \in Int /\ AssignmentRank(c) \in Int
  BY Measures
<1>4. CASE sort = "queued-time"
  BY <1>1, <1>2, <1>3, <1>4 DEF Before, ComesFirst
<1>5. CASE sort = "due-date"
  BY <1>1, <1>2, <1>3, <1>5 DEF Before, ComesFirst
<1>6. CASE sort = "priority"
  BY <1>1, <1>2, <1>3, <1>6 DEF Before, ComesFirst
<1> QED
  BY <1>4, <1>5, <1>6 DEF SlaSorts

(* The place of a row in what is shown.                                       *)
QueuePlace(row, shown, sort, waited) == Cardinality({other \in shown : Before(other, row, sort, waited)})

LEMMA QueuePlaces ==
    ASSUME NEW waited \in Waits, NEW sort \in SlaSorts, NEW shown \in SUBSET ListRow, IsFiniteSet(shown),
           NEW a \in shown
    PROVE  /\ QueuePlace(a, shown, sort, waited) \in Nat
           /\ QueuePlace(a, shown, sort, waited) < Cardinality(shown)
           /\ \A b \in shown : Before(a, b, sort, waited) =>
                  QueuePlace(a, shown, sort, waited) < QueuePlace(b, shown, sort, waited)
<1> DEFINE Ahead(row) == {other \in shown : Before(other, row, sort, waited)}
<1>0. \A row : IsFiniteSet(Ahead(row)) /\ Cardinality(Ahead(row)) \in Nat
  BY FS_Subset, FS_CardinalityType
<1>1. a \notin Ahead(a)
  BY BeforeOrders
<1>2. ASSUME NEW S, IsFiniteSet(S), a \in S, Ahead(a) \subseteq S PROVE Cardinality(Ahead(a)) < Cardinality(S)
  <2>1. IsFiniteSet(S \ {a}) /\ Cardinality(S \ {a}) = Cardinality(S) - 1
    BY <1>2, FS_RemoveElement
  <2>2. Ahead(a) \in SUBSET (S \ {a})
    BY <1>1, <1>2
  <2>3. Cardinality(Ahead(a)) <= Cardinality(S \ {a})
    BY <2>1, <2>2, FS_Subset
  <2>4. Cardinality(S) \in Nat /\ Cardinality(Ahead(a)) \in Nat
    BY <1>0, <1>2, FS_CardinalityType
  <2> HIDE DEF Ahead
  <2> QED
    BY <2>1, <2>3, <2>4
<1>3. Cardinality(Ahead(a)) < Cardinality(shown)
  BY <1>2
<1>4. ASSUME NEW b \in shown, Before(a, b, sort, waited) PROVE Cardinality(Ahead(a)) < Cardinality(Ahead(b))
  <2>1. a \in Ahead(b)
    BY <1>4
  <2>2. Ahead(a) \subseteq Ahead(b)
    BY <1>4, BeforeOrders
  <2> QED
    BY <1>0, <1>2, <2>1, <2>2
<1> QED
  BY <1>0, <1>3, <1>4 DEF QueuePlace

(* A page has no more rows than a page may have.                              *)
LEMMA PageFull ==
    ASSUME NEW waited \in Waits, NEW sort \in SlaSorts, NEW shown \in SUBSET ListRow, IsFiniteSet(shown),
           \A a, b \in shown : a.id = b.id => a = b, NEW n \in Nat
    PROVE  Cardinality({row \in shown : QueuePlace(row, shown, sort, waited) \div PageSize = n}) <= PageSize
<1> DEFINE S == {row \in shown : QueuePlace(row, shown, sort, waited) \div PageSize = n}
           first == PageSize * n
           T == first..(first + PageSize - 1)
           place == [row \in S |-> QueuePlace(row, shown, sort, waited)]
<1>0. PageSize \in Nat \ {0} /\ first \in Nat
  BY SearchAssumption
<1>1. IsFiniteSet(S) /\ Cardinality(S) \in Nat
  BY FS_Subset, FS_CardinalityType
<1>2. IsFiniteSet(T) /\ Cardinality(T) = PageSize
  <2>1. \A m \in Nat, k \in Nat \ {0} : m \in Int /\ m + k - 1 \in Int /\ ~(m > m + k - 1) /\ m + k - 1 - m + 1 = k
    OBVIOUS
  <2> QED
    BY <1>0, <2>1, FS_Interval
<1>3. ASSUME NEW row \in S PROVE place[row] \in T
  <2>1. row \in shown
    BY <1>3
  <2>2. QueuePlace(row, shown, sort, waited) \in Nat
    BY <2>1, QueuePlaces
  <2>3. QueuePlace(row, shown, sort, waited) \div PageSize = n
    BY <1>3
  <2>4. first <= QueuePlace(row, shown, sort, waited) /\ QueuePlace(row, shown, sort, waited) < first + PageSize
    BY <1>0, <2>2, <2>3, DivFacts
  <2>5. \A k \in Nat, m \in Nat, p \in Nat \ {0} : m <= k /\ k < m + p => k \in m..(m + p - 1)
    OBVIOUS
  <2> QED
    BY <1>0, <1>3, <2>2, <2>4, <2>5
<1>4. ASSUME NEW a \in S, NEW b \in S, a # b PROVE place[a] # place[b]
  <2>1. a \in shown /\ b \in shown /\ a.id # b.id
    BY <1>4
  <2>2. Before(a, b, sort, waited) \/ Before(b, a, sort, waited)
    BY <2>1, BeforeOrders
  <2>3. QueuePlace(a, shown, sort, waited) \in Nat /\ QueuePlace(b, shown, sort, waited) \in Nat
    BY <2>1, QueuePlaces
  <2>4. \/ QueuePlace(a, shown, sort, waited) < QueuePlace(b, shown, sort, waited)
        \/ QueuePlace(b, shown, sort, waited) < QueuePlace(a, shown, sort, waited)
    BY <2>1, <2>2, QueuePlaces
  <2> QED
    BY <2>3, <2>4
<1>5. place \in [S -> T]
  BY <1>3
<1> SUFFICES ASSUME PageSize < Cardinality(S) PROVE FALSE
  BY <1>0, <1>1
<1>6. Cardinality(T) < Cardinality(S)
  BY <1>2
<1> HIDE DEF S, T, place
<1>7. \E a, b \in S : a # b /\ place[a] = place[b]
  BY <1>1, <1>2, <1>5, <1>6, FS_PigeonHole
<1> QED
  BY <1>4, <1>7

(* The pages of the queue show each of its rows once, and the cards count it  *)
(* once; by priority no row that is overdue comes after one that is not.      *)
LEMMA QueueIsOrdered ==
    ASSUME NEW rows \in SUBSET ListRow, IsFiniteSet(rows), \A a, b \in rows : a.id = b.id => a = b,
           NEW waited \in Waits
    PROVE  QueueOrdered(rows, waited)
<1> DEFINE last == 1..Cardinality(rows)
           shows(filter, sort, n) == QueuePage(rows, filter, sort, n, waited)
           summary == SlaSummary(rows, waited)
<1>0. Cardinality(rows) \in Nat /\ PageSize \in Nat \ {0}
  BY FS_CardinalityType, SearchAssumption
<1>1. ASSUME NEW filter PROVE /\ SlaRows(rows, filter, waited) \in SUBSET ListRow
                              /\ IsFiniteSet(SlaRows(rows, filter, waited))
                              /\ Cardinality(SlaRows(rows, filter, waited)) \in Nat
                              /\ Cardinality(SlaRows(rows, filter, waited)) <= Cardinality(rows)
                              /\ SlaRows(rows, filter, waited) \subseteq rows
  <2>1. SlaRows(rows, filter, waited) \in SUBSET rows
    BY DEF SlaRows
  <2> QED
    BY <2>1, FS_Subset, FS_CardinalityType
<1>2. ASSUME NEW filter, NEW sort, NEW n
      PROVE  shows(filter, sort, n) =
               {row \in SlaRows(rows, filter, waited) :
                  QueuePlace(row, SlaRows(rows, filter, waited), sort, waited) \div PageSize = n - 1}
  BY DEF QueuePage, QueuePlace
<1>3. ASSUME NEW filter, NEW sort \in SlaSorts
      PROVE  UNION {shows(filter, sort, n) : n \in last} = SlaRows(rows, filter, waited)
  <2> DEFINE shown == SlaRows(rows, filter, waited)
             number(row) == QueuePlace(row, shown, sort, waited) \div PageSize
  <2>1. ASSUME NEW row \in shown PROVE number(row) + 1 \in last
    <3>1. /\ QueuePlace(row, shown, sort, waited) \in Nat
          /\ QueuePlace(row, shown, sort, waited) < Cardinality(shown)
      BY <1>1, <2>1, QueuePlaces
    <3>2. number(row) \in Nat /\ number(row) <= QueuePlace(row, shown, sort, waited)
      BY <1>0, <3>1, DivFacts
    <3>3. Cardinality(shown) \in Nat /\ Cardinality(shown) <= Cardinality(rows)
      BY <1>1
    <3> HIDE DEF number, shown
    <3> QED
      BY <1>0, <3>1, <3>2, <3>3
  <2>2. ASSUME NEW row \in shown PROVE row \in shows(filter, sort, number(row) + 1)
    <3>1. number(row) \in Nat
      BY <1>0, <1>1, <2>2, QueuePlaces, DivFacts
    <3>2. (number(row) + 1) - 1 = number(row)
      BY <3>1
    <3> QED
      BY <1>2, <2>2, <3>2
  <2>3. ASSUME NEW n \in last PROVE shows(filter, sort, n) \subseteq shown
    BY <1>2
  <2> HIDE DEF number, shown, shows, last
  <2> QED
    BY <2>1, <2>2, <2>3 DEF shown
<1>4. ASSUME NEW filter, NEW sort \in SlaSorts, NEW n \in last
      PROVE  Cardinality(shows(filter, sort, n)) <= PageSize
  <2>1. n - 1 \in Nat
    BY <1>0
  <2>2. \A a, b \in SlaRows(rows, filter, waited) : a.id = b.id => a = b
    BY <1>1
  <2> QED
    BY <1>1, <1>2, <2>1, <2>2, PageFull
<1>5. \A row \in rows : row \in summary.overdue <=> SlaState(row, waited) = "overdue"
  BY DEF SlaSummary
<1>6. ASSUME NEW n \in last, NEW k \in 1..n - 1, NEW o \in shows("all", "priority", n), o \in summary.overdue,
             NEW row \in shows("all", "priority", k), row \notin summary.overdue
      PROVE  FALSE
  <2> DEFINE shown == SlaRows(rows, "all", waited)
             place(r) == QueuePlace(r, shown, "priority", waited)
  <2>1. /\ o \in shown /\ row \in shown /\ "priority" \in SlaSorts
        /\ place(o) \div PageSize = n - 1 /\ place(row) \div PageSize = k - 1
    BY <1>2, <1>6 DEF SlaSorts
  <2>2. /\ o \in rows /\ row \in rows /\ o \in ListRow /\ row \in ListRow
        /\ SlaState(o, waited) = "overdue" /\ SlaState(row, waited) # "overdue"
    BY <1>1, <1>5, <1>6, <2>1
  <2>3. /\ Rank(o, waited) = 3 /\ Rank(row, waited) \in 1..3 /\ Rank(row, waited) # 3
    BY <2>2, Measures
  <2>4. Rank(o, waited) > Rank(row, waited)
    BY <2>3
  <2>5. Before(o, row, "priority", waited)
    BY <2>4 DEF Before, ComesFirst
  <2>6. place(o) \in Nat /\ place(row) \in Nat /\ place(o) < place(row)
    BY <1>1, <2>1, <2>5, QueuePlaces
  <2>7. place(o) \div PageSize <= place(row) \div PageSize
    BY <1>0, <2>6, DivOrdered
  <2> HIDE DEF place, shown
  <2> QED
    BY <1>0, <2>1, <2>7
<1>7. Cardinality(summary.overdue) + Cardinality(summary.due_soon) + Cardinality(summary.on_track) = Cardinality(rows)
  <2> DEFINE A == summary.overdue  B == summary.due_soon  C == summary.on_track
  <2>1. A \in SUBSET rows /\ B \in SUBSET rows /\ C \in SUBSET rows
    BY DEF SlaSummary
  <2>2. \A row \in rows : SlaState(row, waited) \in {"overdue", "due-soon", "on-track"}
    BY Measures
  <2>3. (A \cup B) \cup C = rows /\ A \cap B = {} /\ (A \cup B) \cap C = {}
    BY <2>2 DEF SlaSummary
  <2> HIDE DEF A, B, C
  <2>4. IsFiniteSet(A) /\ IsFiniteSet(B) /\ IsFiniteSet(C)
    BY <2>1, FS_Subset
  <2>5. IsFiniteSet(A \cup B) /\ Cardinality(A \cup B) = Cardinality(A) + Cardinality(B) - 0
    BY <2>3, <2>4, FS_Union, FS_EmptySet
  <2>6. Cardinality(rows) = Cardinality(A \cup B) + Cardinality(C) - 0
    BY <2>3, <2>4, <2>5, FS_Union, FS_EmptySet
  <2>7. Cardinality(A) \in Nat /\ Cardinality(B) \in Nat /\ Cardinality(C) \in Nat
    BY <2>4, FS_CardinalityType
  <2> QED
    BY <2>5, <2>6, <2>7 DEF A, B, C
<1> HIDE DEF shows, summary, last
<1> QED
  BY <1>3, <1>4, <1>6, <1>7, Zenon DEF QueueOrdered, shows, summary, last

-----------------------------------------------------------------------------
(* The numbers of the list pages: a link leads to the filters it was made of. *)
LEMMA FieldFacts ==
    /\ Fields = {"view", "search", "status", "level", "folder", "owner", "tag", "sort", "dir"}
    /\ DEFAULT_DOCUMENT_FILTERS = [k \in Fields |-> DEFAULT_DOCUMENT_FILTERS[k]]
    /\ DOMAIN Choices = {"view", "status", "level", "dir", "sort"} /\ DOMAIN Choices \subseteq Fields
BY DEF Fields, DEFAULT_DOCUMENT_FILTERS, Choices

LEMMA ParseSerialize ==
    ASSUME NEW f, f = [k \in Fields |-> f[k]],
           \A k \in DOMAIN Choices : f[k] \in Choices[k] \/ f[k] = DEFAULT_DOCUMENT_FILTERS[k]
    PROVE  Parse(Serialize(f)) = f
<1>1. \A k \in DOMAIN Serialize(f) : Serialize(f)[k] = f[k]
  BY DEF Serialize
<1>2. \A k \in Fields : k \in DOMAIN Serialize(f) <=> f[k] # DEFAULT_DOCUMENT_FILTERS[k]
  BY DEF Serialize
<1>3. ASSUME NEW k \in Fields PROVE Parse(Serialize(f))[k] = f[k]
  <2>1. CASE f[k] = DEFAULT_DOCUMENT_FILTERS[k]
    BY <1>2, <1>3, <2>1 DEF Parse
  <2>2. CASE f[k] # DEFAULT_DOCUMENT_FILTERS[k]
    BY <1>1, <1>2, <1>3, <2>2 DEF Parse
  <2> QED
    BY <2>1, <2>2
<1>4. Parse(Serialize(f)) = [k \in Fields |-> Parse(Serialize(f))[k]]
  BY Zenon DEF Parse
<1> QED
  BY <1>3, <1>4

(* Filters that were normalized are the filters of their link.                *)
LEMMA NormalIsNormal ==
    ASSUME NEW f
    PROVE  /\ Normal(f) = [k \in Fields |-> Normal(f)[k]]
           /\ Normal(Normal(f)) = Normal(f)
<1>1. Normal(f) = [k \in Fields |-> Normal(f)[k]]
  BY Zenon DEF Normal, Parse
<1>2. ASSUME NEW k \in DOMAIN Choices PROVE Normal(f)[k] \in Choices[k] \/ Normal(f)[k] = DEFAULT_DOCUMENT_FILTERS[k]
  BY <1>2, FieldFacts DEF Normal, Parse
<1>3. Parse(Serialize(Normal(f))) = Normal(f)
  BY <1>1, <1>2, ParseSerialize
<1> QED
  BY <1>1, <1>3 DEF Normal

(* Links that are the same lead to the same filters.                          *)
LEMMA SameLink ==
    ASSUME NEW f, NEW g, f = [k \in Fields |-> f[k]], g = [k \in Fields |-> g[k]], Serialize(f) = Serialize(g)
    PROVE  f = g
<1>1. \A h : /\ \A k \in DOMAIN Serialize(h) : Serialize(h)[k] = h[k]
             /\ \A k \in Fields : k \in DOMAIN Serialize(h) <=> h[k] # DEFAULT_DOCUMENT_FILTERS[k]
  BY DEF Serialize
<1>2. ASSUME NEW k \in Fields PROVE f[k] = g[k]
  BY <1>1, <1>2
<1> QED
  BY <1>2

(* What one filter lists.                                                     *)
LEMMA FilterFacts ==
    /\ Filters("view", "all") = DEFAULT_DOCUMENT_FILTERS
    /\ \A k \in Fields : \A v : /\ Filters(k, v)[k] = v
                                /\ Filters(k, v) = [j \in Fields |-> Filters(k, v)[j]]
                                /\ \A j \in Fields \ {k} : Filters(k, v)[j] = DEFAULT_DOCUMENT_FILTERS[j]
<1>1. Filters("view", "all") = DEFAULT_DOCUMENT_FILTERS
  BY DEF Filters, DEFAULT_DOCUMENT_FILTERS
<1>2. ASSUME NEW k \in Fields, NEW v
      PROVE  /\ Filters(k, v)[k] = v
             /\ Filters(k, v) = [j \in Fields |-> Filters(k, v)[j]]
             /\ \A j \in Fields \ {k} : Filters(k, v)[j] = DEFAULT_DOCUMENT_FILTERS[j]
  <2> DEFINE f == Filters(k, v)
  <2>1. f = [DEFAULT_DOCUMENT_FILTERS EXCEPT ![k] = v]
    BY DEF Filters
  <2>2. DEFAULT_DOCUMENT_FILTERS = [j \in Fields |-> DEFAULT_DOCUMENT_FILTERS[j]]
    BY FieldFacts
  <2> QED
    BY <2>1, <2>2, <1>2
<1> QED
  BY <1>1, <1>2

LEMMA Links ==
    /\ \A v \in Views : Parse(Serialize(Filters("view", v))) = Filters("view", v)
    /\ \A s \in Statuses : Parse(Serialize(Filters("status", s))) = Filters("status", s)
    /\ \A l \in Levels : Parse(Serialize(Filters("level", l))) = Filters("level", l)
    /\ \A key, text : Parse(Serialize(Searched(key, text))) = Searched(key, text)
<1> DEFINE OK(f) == \A k \in DOMAIN Choices : f[k] \in Choices[k] \/ f[k] = DEFAULT_DOCUMENT_FILTERS[k]
<1>1. /\ Choices["view"] = Views /\ Choices["status"] = Statuses /\ Choices["level"] = Levels
      /\ "search" \notin DOMAIN Choices /\ {"view", "status", "level", "search"} \subseteq Fields
  BY FieldFacts DEF Choices
<1>2. ASSUME NEW v \in Views PROVE OK(Filters("view", v))
  BY <1>1, <1>2, FieldFacts, FilterFacts
<1>3. ASSUME NEW v \in Statuses PROVE OK(Filters("status", v))
  BY <1>1, <1>3, FieldFacts, FilterFacts
<1>4. ASSUME NEW v \in Levels PROVE OK(Filters("level", v))
  BY <1>1, <1>4, FieldFacts, FilterFacts
<1>5. ASSUME NEW v PROVE OK(Filters("search", v))
  BY <1>1, FieldFacts, FilterFacts
<1>6. \A k \in {"view", "status", "level", "search"} : \A v : OK(Filters(k, v)) => Parse(Serialize(Filters(k, v))) = Filters(k, v)
  BY <1>1, FilterFacts, ParseSerialize
<1> HIDE DEF OK
<1> QED
  BY <1>2, <1>3, <1>4, <1>5, <1>6 DEF Searched

LEMMA Passes ==
    ASSUME NEW row
    PROVE  /\ \A v : Matches(row, Filters("view", v)) <=> InView(row, v)
           /\ \A s : Matches(row, Filters("status", s)) <=> s \in {NoChoice, row.status}
           /\ \A l : Matches(row, Filters("level", l)) <=> l \in {NoChoice, row.level}
           /\ \A x : Matches(row, Filters("folder", x)) <=> x = NoChoice \/ InFolder(row, x)
           /\ \A term : Matches(row, Filters("search", {term})) <=> MatchesTerm(row, term)
<1> DEFINE D == DEFAULT_DOCUMENT_FILTERS
<1>1. /\ D.view = "all" /\ D.search = {} /\ D.status = NoChoice /\ D.level = NoChoice /\ D.folder = NoChoice
      /\ D.owner = NoChoice /\ D.tag = NoChoice
  BY DEF DEFAULT_DOCUMENT_FILTERS
<1>2. InView(row, "all")
  BY DEF InView
<1>3. \A k \in Fields : \A v : /\ Filters(k, v)[k] = v
                               /\ \A j \in Fields \ {k} : Filters(k, v)[j] = D[j]
  BY FilterFacts
<1> HIDE DEF D
<1>4. ASSUME NEW v PROVE Matches(row, Filters("view", v)) <=> InView(row, v)
  <2>1. Filters("view", v).view = v /\ \A j \in Fields \ {"view"} : Filters("view", v)[j] = D[j]
    BY <1>3, FieldFacts
  <2> QED
    BY <1>1, <2>1, FieldFacts DEF Matches
<1>5. ASSUME NEW v PROVE Matches(row, Filters("status", v)) <=> v \in {NoChoice, row.status}
  <2>1. Filters("status", v).status = v /\ \A j \in Fields \ {"status"} : Filters("status", v)[j] = D[j]
    BY <1>3, FieldFacts
  <2> QED
    BY <1>1, <1>2, <2>1, FieldFacts DEF Matches
<1>6. ASSUME NEW v PROVE Matches(row, Filters("level", v)) <=> v \in {NoChoice, row.level}
  <2>1. Filters("level", v).level = v /\ \A j \in Fields \ {"level"} : Filters("level", v)[j] = D[j]
    BY <1>3, FieldFacts
  <2> QED
    BY <1>1, <1>2, <2>1, FieldFacts DEF Matches
<1>7. ASSUME NEW v PROVE Matches(row, Filters("folder", v)) <=> v = NoChoice \/ InFolder(row, v)
  <2>1. Filters("folder", v).folder = v /\ \A j \in Fields \ {"folder"} : Filters("folder", v)[j] = D[j]
    BY <1>3, FieldFacts
  <2> QED
    BY <1>1, <1>2, <2>1, FieldFacts DEF Matches
<1>8. ASSUME NEW term PROVE Matches(row, Filters("search", {term})) <=> MatchesTerm(row, term)
  <2>1. Filters("search", {term}).search = {term} /\ \A j \in Fields \ {"search"} : Filters("search", {term})[j] = D[j]
    BY <1>3, FieldFacts
  <2> QED
    BY <1>1, <1>2, <2>1, FieldFacts DEF Matches
<1> QED
  BY <1>4, <1>5, <1>6, <1>7, <1>8

(* A name answers to a search for it.                                         *)
LEMMA TermFacts ==
    ASSUME NEW row \in ListRow
    PROVE  /\ MatchesTerm(row, Term("status", row.status)) /\ MatchesTerm(row, Term("class", row.level))
           /\ MatchesTerm(row, Term("owner", row.owner)) /\ MatchesTerm(row, Term("dlp", row.dlp))
           /\ \A t \in row.tags : MatchesTerm(row, Term("tag", t))
           /\ HasFile(row) => MatchesTerm(row, Term("file", row.file)) /\ MatchesTerm(row, Term("has", "file"))
           /\ MatchesTerm(row, Term("retention", "due-soon")) <=> row.retention = "soon"
           /\ MatchesTerm(row, Term("dlp", "DETECTED")) <=> row.dlp = "DETECTED"
<1>1. /\ row.status \in Statuses /\ row.level \in Levels /\ row.owner \in Names /\ row.dlp \in DlpStates
      /\ row.tags \subseteq Tags /\ row.file \in Names \cup {NoFile}
  BY DEF ListRow, RowType
<1>2. \A n \in Names : n \in Spells[n]
  BY SearchAssumption
<1>3. Statuses \subseteq Names /\ Levels \subseteq Names /\ DlpStates \subseteq Names /\ Tags \subseteq Names
  BY SearchAssumption DEF Tags
<1>4. \A n \in Names : \A names : n \in names => Contains(names, n)
  BY <1>2 DEF Contains
<1>5. \A key, text : Term(key, text).key = key /\ Term(key, text).text = text
  BY DEF Term
<1>6. MatchesTerm(row, Term("status", row.status)) /\ MatchesTerm(row, Term("class", row.level))
  BY <1>1, <1>3, <1>4, <1>5 DEF MatchesTerm
<1>7. MatchesTerm(row, Term("owner", row.owner)) /\ MatchesTerm(row, Term("dlp", row.dlp))
  BY <1>1, <1>3, <1>4, <1>5 DEF MatchesTerm
<1>8. ASSUME NEW t \in row.tags PROVE MatchesTerm(row, Term("tag", t))
  BY <1>1, <1>3, <1>4, <1>5, <1>8 DEF MatchesTerm
<1>9. HasFile(row) => MatchesTerm(row, Term("file", row.file)) /\ MatchesTerm(row, Term("has", "file"))
  BY <1>1, <1>4, <1>5 DEF MatchesTerm, HasFile, Presence
<1>10. MatchesTerm(row, Term("retention", "due-soon")) <=> row.retention = "soon"
  BY <1>5 DEF MatchesTerm, Retention, MatchesDueSoon
<1>11. MatchesTerm(row, Term("dlp", "DETECTED")) <=> row.dlp = "DETECTED"
  <2>1. "DETECTED" \in DlpStates /\ Spells["DETECTED"] \cap DlpStates = {"DETECTED"}
    BY SearchAssumption DEF DlpStates
  <2> QED
    BY <1>1, <1>5, <2>1 DEF MatchesTerm, Contains
<1> QED
  BY <1>6, <1>7, <1>8, <1>9, <1>10, <1>11

(* What the links of the command center list.                                 *)
LEMMA ListedRows ==
    ASSUME NEW rows \in SUBSET ListRow
    PROVE  /\ Listed(rows, DEFAULT_DOCUMENT_FILTERS) = rows
           /\ \A v : Listed(rows, Filters("view", v)) = {row \in rows : InView(row, v)}
           /\ Listed(rows, Filters("view", "pending-review")) = WithStatus(rows, "PENDING")
           /\ Listed(rows, Filters("view", "drafts")) = WithStatus(rows, "DRAFT")
           /\ Listed(rows, Filters("view", "sensitive")) = Sensitive(rows)
           /\ \A s \in Statuses : Listed(rows, Filters("status", s)) = WithStatus(rows, s)
           /\ \A l \in Levels : Listed(rows, Filters("level", l)) = WithLevel(rows, l)
           /\ Listed(rows, Searched("dlp", "DETECTED")) = Detected(rows)
           /\ {row \in Listed(rows, Searched("retention", "due-soon")) : row.status # "ARCHIVED"} = DueSoon(rows)
           /\ DashboardDueSoon(rows) = DueSoon(rows)
<1>1. \A v : Listed(rows, Filters("view", v)) = {row \in rows : InView(row, v)}
  BY Passes DEF Listed
<1>2. \A row : /\ InView(row, "all")
               /\ InView(row, "pending-review") <=> row.status = "PENDING"
               /\ InView(row, "drafts") <=> row.status = "DRAFT"
               /\ InView(row, "sensitive") <=> row.level \in {"CONFIDENTIAL", "SECRET"} \/ row.dlp = "DETECTED"
  BY DEF InView
<1>3. Listed(rows, DEFAULT_DOCUMENT_FILTERS) = rows
  <2>1. Listed(rows, Filters("view", "all")) = {row \in rows : InView(row, "all")}
    BY <1>1
  <2> QED
    BY <1>2, <2>1, FilterFacts
<1>4. /\ Listed(rows, Filters("view", "pending-review")) = WithStatus(rows, "PENDING")
      /\ Listed(rows, Filters("view", "drafts")) = WithStatus(rows, "DRAFT")
      /\ Listed(rows, Filters("view", "sensitive")) = Sensitive(rows)
  <2>1. /\ Listed(rows, Filters("view", "pending-review")) = {row \in rows : InView(row, "pending-review")}
        /\ Listed(rows, Filters("view", "drafts")) = {row \in rows : InView(row, "drafts")}
        /\ Listed(rows, Filters("view", "sensitive")) = {row \in rows : InView(row, "sensitive")}
    BY <1>1
  <2> QED
    BY <1>2, <2>1 DEF WithStatus, Sensitive
<1>5. \A s \in Statuses : Listed(rows, Filters("status", s)) = WithStatus(rows, s)
  <2>1. ASSUME NEW s \in Statuses PROVE \A row : Matches(row, Filters("status", s)) <=> row.status = s
    BY <2>1, Passes, Zenon DEF Statuses, NoChoice
  <2> QED
    BY <2>1 DEF Listed, WithStatus
<1>6. \A l \in Levels : Listed(rows, Filters("level", l)) = WithLevel(rows, l)
  <2>1. ASSUME NEW l \in Levels PROVE \A row : Matches(row, Filters("level", l)) <=> row.level = l
    BY <2>1, Passes, Zenon DEF Levels, NoChoice
  <2> QED
    BY <2>1 DEF Listed, WithLevel
<1>7. \A row \in rows : /\ Matches(row, Searched("dlp", "DETECTED")) <=> row.dlp = "DETECTED"
                        /\ Matches(row, Searched("retention", "due-soon")) <=> row.retention = "soon"
  BY Passes, TermFacts DEF Searched
<1>8. Listed(rows, Searched("dlp", "DETECTED")) = Detected(rows)
  BY <1>7 DEF Listed, Detected
<1>9. \A row \in rows : row.status # "DELETED"
  BY DEF ListRow
<1>10. {row \in Listed(rows, Searched("retention", "due-soon")) : row.status # "ARCHIVED"} = DueSoon(rows)
  BY <1>7, <1>9 DEF Listed, DueSoon
<1>11. DashboardDueSoon(rows) = DueSoon(rows)
  BY <1>9 DEF DashboardDueSoon, DueSoon
<1> QED
  BY <1>1, <1>3, <1>4, <1>5, <1>6, <1>8, <1>10, <1>11

(* The views that are built in are as they are when they were linked to.      *)
LEMMA BuiltInViews ==
    \A v \in BUILT_IN_DOCUMENT_SAVED_VIEWS :
        /\ Parse(Serialize(v.filters)) = v.filters
        /\ v.filters = [k \in Fields |-> v.filters[k]]
        /\ v.id \notin {"total-documents", "dlp-detected", "retention-due-soon", "draft-handoff",
                        "pending-approvals", "published-documents", "legal-hold"}
<1> DEFINE Linked(f) == f = [k \in Fields |-> f[k]] /\ \A k \in DOMAIN Choices :
                            f[k] \in Choices[k] \/ f[k] = DEFAULT_DOCUMENT_FILTERS[k]
<1>0. Linked(DEFAULT_DOCUMENT_FILTERS)
  BY FieldFacts
<1>3. ASSUME NEW f, Linked(f), NEW k \in Fields, NEW v, k \in DOMAIN Choices => v \in Choices[k]
      PROVE  Linked([f EXCEPT ![k] = v])
  BY <1>3, FieldFacts
<1>4. /\ Choices["view"] = Views /\ Choices["level"] = Levels
      /\ "title" \in Choices["sort"] /\ "asc" \in Choices["dir"]
  BY DEF Choices
<1> DEFINE D == DEFAULT_DOCUMENT_FILTERS
           Library == [[[D EXCEPT !["level"] = "CONFIDENTIAL"] EXCEPT !["sort"] = "title"] EXCEPT !["dir"] = "asc"]
           Triage == [[D EXCEPT !["view"] = "pending-review"] EXCEPT !["search"] = {Term("tag", "security")}]
<1>5. \A w \in Views : Linked([D EXCEPT !["view"] = w])
  <2>1. ASSUME NEW w \in Views PROVE "view" \in Fields /\ ("view" \in DOMAIN Choices => w \in Choices["view"])
    BY <1>4, <2>1, FieldFacts
  <2> HIDE DEF Linked, D
  <2> QED
    BY <1>0, <1>3, <2>1 DEF D
<1>6. Linked(Library)
  <2>1. /\ {"level", "sort", "dir"} \subseteq Fields
        /\ "CONFIDENTIAL" \in Choices["level"] /\ "title" \in Choices["sort"] /\ "asc" \in Choices["dir"]
    BY <1>4, FieldFacts DEF Levels
  <2> DEFINE one == [D EXCEPT !["level"] = "CONFIDENTIAL"]
             two == [one EXCEPT !["sort"] = "title"]
  <2>2. Linked(one)
    <3> HIDE DEF Linked
    <3> QED
      BY <1>0, <1>3, <2>1
  <2>3. Linked(two)
    <3> HIDE DEF Linked, one
    <3> QED
      BY <1>3, <2>1, <2>2
  <2> HIDE DEF Linked, two
  <2>4. Linked([two EXCEPT !["dir"] = "asc"])
    BY <1>3, <2>1, <2>3
  <2> QED
    BY <2>4 DEF two
<1>7. Linked(Triage)
  <2>1. "pending-review" \in Views /\ "search" \in Fields /\ "search" \notin DOMAIN Choices
    BY FieldFacts DEF Views
  <2> DEFINE one == [D EXCEPT !["view"] = "pending-review"]
  <2>2. Linked(one)
    BY <1>5, <2>1
  <2> HIDE DEF Linked, one
  <2>3. Linked([one EXCEPT !["search"] = {Term("tag", "security")}])
    BY <1>3, <2>1, <2>2
  <2> QED
    BY <2>3 DEF one
<1>8. \A v \in BUILT_IN_DOCUMENT_SAVED_VIEWS :
         \/ \E w \in Views : v.filters = [D EXCEPT !["view"] = w]
         \/ v.filters = Triage \/ v.filters = Library
  <2>1. [D EXCEPT !.view = "pending-review", !.search = {Term("tag", "security")}] = Triage
    BY DEF DEFAULT_DOCUMENT_FILTERS
  <2>2. [D EXCEPT !.level = "CONFIDENTIAL", !.sort = "title", !.dir = "asc"] = Library
    BY DEF DEFAULT_DOCUMENT_FILTERS
  <2>3. \A v \in BUILT_IN_DOCUMENT_SAVED_VIEWS :
           \/ \E w \in Views : v.filters = [D EXCEPT !.view = w]
           \/ v.filters = [D EXCEPT !.view = "pending-review", !.search = {Term("tag", "security")}]
           \/ v.filters = [D EXCEPT !.level = "CONFIDENTIAL", !.sort = "title", !.dir = "asc"]
    <3> HIDE DEF D
    <3> QED
      BY DEF BUILT_IN_DOCUMENT_SAVED_VIEWS, SavedView, Views, D
  <2> QED
    BY <2>1, <2>2, <2>3
<1>1. \A v \in BUILT_IN_DOCUMENT_SAVED_VIEWS : Linked(v.filters)
  <2> HIDE DEF Linked
  <2> QED
    BY <1>5, <1>6, <1>7, <1>8, ZenonT(60)
<1>2. \A v \in BUILT_IN_DOCUMENT_SAVED_VIEWS :
        v.id \notin {"total-documents", "dlp-detected", "retention-due-soon", "draft-handoff",
                     "pending-approvals", "published-documents", "legal-hold"}
  BY DEF BUILT_IN_DOCUMENT_SAVED_VIEWS, SavedView
<1> QED
  BY <1>1, <1>2, ParseSerialize, Zenon

(* A tile counts what its link lists, and what the dashboard counts.          *)
Counted(tile, rows) ==
    /\ \/ tile.key = "legal-hold"
       \/ tile.key = "retention-due-soon"
            /\ tile.rows = {row \in Listed(rows, Parse(tile.link)) : row.status # "ARCHIVED"}
       \/ tile.rows = Listed(rows, Parse(tile.link))
    /\ tile.key \notin {"pending-approvals", "published-documents"}
    /\ tile.key = "total-documents" => tile.rows = rows
    /\ tile.key = "dlp-detected" => tile.rows = Detected(rows)
    /\ tile.key = "retention-due-soon" => tile.rows = DueSoon(rows)
    /\ tile.key = "draft-handoff" => tile.rows = WithStatus(rows, "DRAFT")

LEMMA CountedTile ==
    ASSUME NEW rows, NEW key, NEW set, NEW f, Parse(Serialize(f)) = f, set = Listed(rows, f),
           key \notin {"pending-approvals", "published-documents", "retention-due-soon"},
           key = "total-documents" => set = rows,
           key = "dlp-detected" => set = Detected(rows),
           key = "draft-handoff" => set = WithStatus(rows, "DRAFT")
    PROVE  Counted(Tile(key, set, f), rows)
<1>1. Tile(key, set, f).key = key /\ Tile(key, set, f).rows = set /\ Tile(key, set, f).link = Serialize(f)
  BY DEF Tile
<1> QED
  BY <1>1 DEF Counted

LEMMA CountedTiles ==
    ASSUME NEW rows \in SUBSET ListRow, NEW see
    PROVE  \A tile \in CommandCenter(rows, BUILT_IN_DOCUMENT_SAVED_VIEWS, see) : Counted(tile, rows)
<1>1. /\ \A v \in Views : Parse(Serialize(Filters("view", v))) = Filters("view", v)
      /\ \A s \in Statuses : Parse(Serialize(Filters("status", s))) = Filters("status", s)
      /\ \A l \in Levels : Parse(Serialize(Filters("level", l))) = Filters("level", l)
      /\ \A key, text : Parse(Serialize(Searched(key, text))) = Searched(key, text)
      /\ {"all", "pending-review", "drafts", "sensitive"} \subseteq Views
  BY Links DEF Views
<1>2. /\ Listed(rows, DEFAULT_DOCUMENT_FILTERS) = rows
      /\ \A v : Listed(rows, Filters("view", v)) = {row \in rows : InView(row, v)}
      /\ Listed(rows, Filters("view", "pending-review")) = WithStatus(rows, "PENDING")
      /\ Listed(rows, Filters("view", "drafts")) = WithStatus(rows, "DRAFT")
      /\ Listed(rows, Filters("view", "sensitive")) = Sensitive(rows)
      /\ \A s \in Statuses : Listed(rows, Filters("status", s)) = WithStatus(rows, s)
      /\ \A l \in Levels : Listed(rows, Filters("level", l)) = WithLevel(rows, l)
      /\ Listed(rows, Searched("dlp", "DETECTED")) = Detected(rows)
      /\ {row \in Listed(rows, Searched("retention", "due-soon")) : row.status # "ARCHIVED"} = DueSoon(rows)
  BY ListedRows
<1>3. Parse(Serialize(DEFAULT_DOCUMENT_FILTERS)) = DEFAULT_DOCUMENT_FILTERS
  BY <1>1, FilterFacts
<1>4. Counted(Tile("total-documents", rows, DEFAULT_DOCUMENT_FILTERS), rows)
  BY <1>2, <1>3, CountedTile
<1>5. Counted(Tile("pending-review", WithStatus(rows, "PENDING"), Filters("view", "pending-review")), rows)
  BY <1>1, <1>2, CountedTile
<1>6. Counted(Tile("sensitive-documents", Sensitive(rows), Filters("view", "sensitive")), rows)
  BY <1>1, <1>2, CountedTile
<1>7. Counted(Tile("retention-due-soon", DueSoon(rows), Searched("retention", "due-soon")), rows)
  BY <1>1, <1>2 DEF Counted, Tile
<1>8. ASSUME NEW s \in Statuses PROVE Counted(Tile(s, WithStatus(rows, s), Filters("status", s)), rows)
  <2>1. s \notin {"pending-approvals", "published-documents", "retention-due-soon", "total-documents",
                  "dlp-detected", "draft-handoff"}
    BY <1>8 DEF Statuses
  <2> QED
    BY <1>1, <1>2, <1>8, <2>1, CountedTile
<1>9. ASSUME NEW l \in Levels PROVE Counted(Tile(l, WithLevel(rows, l), Filters("level", l)), rows)
  <2>1. l \notin {"pending-approvals", "published-documents", "retention-due-soon", "total-documents",
                  "dlp-detected", "draft-handoff"}
    BY <1>9 DEF Levels
  <2> QED
    BY <1>1, <1>2, <1>9, <2>1, CountedTile
<1>10. Counted(Tile("dlp-detected", Detected(rows), Searched("dlp", "DETECTED")), rows)
  BY <1>1, <1>2, CountedTile
<1>11. Counted(Tile("legal-hold", Held(rows), Searched("has", "legal-hold")), rows)
  BY DEF Counted, Tile
<1>12. Counted(Tile("draft-handoff", WithStatus(rows, "DRAFT"), Filters("view", "drafts")), rows)
  BY <1>1, <1>2, CountedTile
<1>13. ASSUME NEW v \in BUILT_IN_DOCUMENT_SAVED_VIEWS
       PROVE  Counted(SavedViewTile(v, rows), rows)
  BY <1>13, BuiltInViews, CountedTile DEF SavedViewTile
<1>14. ASSUME NEW v \in Views
       PROVE  Counted(Tile(v, {row \in rows : InView(row, v)}, Filters("view", v)), rows)
  <2>1. v \notin {"pending-approvals", "published-documents", "retention-due-soon", "total-documents",
                  "dlp-detected", "draft-handoff"}
    BY <1>14 DEF Views
  <2> QED
    BY <1>1, <1>2, <1>14, <2>1, CountedTile
<1>15. \A tile \in Metrics(rows, see) : Counted(tile, rows)
  BY <1>4, <1>5, <1>6, <1>7, Zenon DEF Metrics
<1>16. \A tile \in LifecycleSegments(rows) : Counted(tile, rows)
  BY <1>8, Zenon DEF LifecycleSegments
<1>17. \A tile \in ClassificationSegments(rows, see) : Counted(tile, rows)
  BY <1>9, Zenon DEF ClassificationSegments
<1>18. \A tile \in AttentionSegments(rows, see) : Counted(tile, rows)
  BY <1>5, <1>7, <1>10, <1>11, <1>12, Zenon DEF AttentionSegments
<1>19. \A tile \in SavedViewSegments(rows, BUILT_IN_DOCUMENT_SAVED_VIEWS, see) : Counted(tile, rows)
  BY <1>13, Zenon DEF SavedViewSegments
<1>20. \A tile \in QuickViews(rows, see) : Counted(tile, rows)
  BY <1>14, Zenon DEF QuickViews
<1> QED
  BY <1>15, <1>16, <1>17, <1>18, <1>19, <1>20, Zenon DEF CommandCenter

LEMMA WidgetCounts ==
    ASSUME NEW rows \in SUBSET ListRow, NEW see, NEW tile, Counted(tile, rows),
           NEW widget \in OperationalWidgets(rows, see), widget.key = tile.key
    PROVE  widget.rows = tile.rows
<1>1. \A key, set : Widget(key, set).key = key /\ Widget(key, set).rows = set
  BY DEF Widget
<1>2. widget \in {Widget("pending-approvals", WithStatus(rows, "PENDING")), Widget("total-documents", rows),
                  Widget("dlp-detected", Detected(rows)),
                  Widget("published-documents", WithStatus(rows, "PUBLISHED")),
                  Widget("retention-due-soon", DueSoon(rows)), Widget("draft-handoff", WithStatus(rows, "DRAFT"))}
  BY ListedRows DEF OperationalWidgets
<1> QED
  BY <1>1, <1>2 DEF Counted

LEMMA ViewsListed ==
    ASSUME NEW rows, NEW filters, filters = Normal(filters),
           NEW v \in ActiveSavedViews(BUILT_IN_DOCUMENT_SAVED_VIEWS, filters)
    PROVE  Listed(rows, v.filters) = Listed(rows, filters)
<1>1. v \in BUILT_IN_DOCUMENT_SAVED_VIEWS /\ Serialize(Normal(v.filters)) = Serialize(Normal(filters))
  BY DEF ActiveSavedViews
<1>2. Normal(v.filters) = v.filters /\ v.filters = [k \in Fields |-> v.filters[k]]
  BY <1>1, BuiltInViews DEF Normal
<1>3. filters = [k \in Fields |-> filters[k]]
  <2>1. Normal(filters) = [k \in Fields |-> Normal(filters)[k]]
    BY NormalIsNormal
  <2> QED
    BY <2>1
<1>4. v.filters = filters
  <2>1. Serialize(v.filters) = Serialize(filters)
    BY <1>1, <1>2
  <2> QED
    BY <1>2, <1>3, <2>1, SameLink
<1> QED
  BY <1>4

(* A tag without empty segments is the path that is counted.                  *)
LEMMA FiledListed ==
    ASSUME NEW rows, NEW folder
    PROVE  {row \in FolderNode(rows, folder) : Filed(row)} \subseteq Listed(rows, Filters("folder", folder))
BY Passes DEF FolderNode, Listed, InFolder, Filed

(* What is suggested finds the row that it was suggested for.                 *)
LEMMA SuggestionsFind ==
    ASSUME NEW rows \in SUBSET ListRow, NEW term \in SuggestedTerms(rows), term # Term("has", "legal-hold")
    PROVE  Listed(rows, Filters("search", {term})) # {}
<1> DEFINE Found(t) == \E row \in rows : MatchesTerm(row, t)
<1>1. ASSUME NEW t \in SuggestedTags(rows) PROVE \E row \in rows : t \in row.tags
  BY <1>1 DEF SuggestedTags
<1>2. \A s \in {"PENDING"} \cap {row.status : row \in rows} : Found(Term("status", s))
  BY TermFacts
<1>3. \A l \in {"CONFIDENTIAL"} \cap {row.level : row \in rows} : Found(Term("class", l))
  BY TermFacts
<1>4. \A t \in SuggestedTags(rows) : Found(Term("tag", t))
  BY <1>1, TermFacts
<1>5. \A f \in {row.file : row \in rows} \ {NoFile} : Found(Term("file", f))
  BY TermFacts DEF HasFile
<1>6. \A row \in {r \in rows : HasFile(r)} : Found(Term("has", "file"))
  BY TermFacts
<1>7. \A s \in {"DETECTED"} \cap {row.dlp : row \in rows} : Found(Term("dlp", s))
  BY TermFacts
<1>8. \A row \in {r \in rows : MatchesDueSoon(r)} : Found(Term("retention", "due-soon"))
  BY TermFacts DEF MatchesDueSoon
<1>9. \A row \in rows : Found(Term("owner", row.owner))
  BY TermFacts
<1> HIDE DEF Found
<1>10. Found(term)
  BY <1>2, <1>3, <1>4, <1>5, <1>6, <1>7, <1>8, <1>9, Zenon DEF SuggestedTerms
<1> USE DEF Found
<1>11. PICK row \in rows : MatchesTerm(row, term)
  BY <1>10
<1>12. row \in Listed(rows, Filters("search", {term}))
  BY <1>11, Passes DEF Listed
<1> QED
  BY <1>12

(* The gauge takes away the rows of the cues; each of them has one severity.  *)
LEMMA GaugeIsAttention ==
    ASSUME NEW rows, NEW see
    PROVE  GaugeRows(rows, see) = UNION {tile.rows : tile \in AttentionSegments(rows, see)}
<1> DEFINE A == AttentionSegments(rows, see)
           G == GaugeRows(rows, see)
<1>1. \A key, set, f : Tile(key, set, f).rows = set
  BY DEF Tile
<1>2. ASSUME NEW tile \in A PROVE tile.rows \subseteq G
  <2>1. \/ "security" \in see /\ tile = Tile("dlp-detected", Detected(rows), Searched("dlp", "DETECTED"))
        \/ "approval" \in see
             /\ tile = Tile("pending-review", WithStatus(rows, "PENDING"), Filters("view", "pending-review"))
        \/ "retention" \in see
             /\ tile = Tile("retention-due-soon", DueSoon(rows), Searched("retention", "due-soon"))
        \/ "sensitive" \in see /\ tile = Tile("legal-hold", Held(rows), Searched("has", "legal-hold"))
        \/ tile = Tile("draft-handoff", WithStatus(rows, "DRAFT"), Filters("view", "drafts"))
    BY <1>2, Zenon DEF AttentionSegments
  <2>2. \/ "security" \in see /\ tile.rows = Detected(rows)
        \/ "approval" \in see /\ tile.rows = WithStatus(rows, "PENDING")
        \/ "retention" \in see /\ tile.rows = DueSoon(rows)
        \/ "sensitive" \in see /\ tile.rows = Held(rows)
        \/ tile.rows = WithStatus(rows, "DRAFT")
    BY <1>1, <2>1
  <2> QED
    BY <2>2 DEF GaugeRows, Detected, WithStatus, DueSoon, Held
<1>3. /\ "security" \in see => \E tile \in A : tile.rows = Detected(rows)
      /\ "approval" \in see => \E tile \in A : tile.rows = WithStatus(rows, "PENDING")
      /\ "retention" \in see => \E tile \in A : tile.rows = DueSoon(rows)
      /\ "sensitive" \in see => \E tile \in A : tile.rows = Held(rows)
      /\ \E tile \in A : tile.rows = WithStatus(rows, "DRAFT")
  <2>1. /\ "security" \in see => Tile("dlp-detected", Detected(rows), Searched("dlp", "DETECTED")) \in A
        /\ "approval" \in see
             => Tile("pending-review", WithStatus(rows, "PENDING"), Filters("view", "pending-review")) \in A
        /\ "retention" \in see
             => Tile("retention-due-soon", DueSoon(rows), Searched("retention", "due-soon")) \in A
        /\ "sensitive" \in see => Tile("legal-hold", Held(rows), Searched("has", "legal-hold")) \in A
        /\ Tile("draft-handoff", WithStatus(rows, "DRAFT"), Filters("view", "drafts")) \in A
    BY DEF AttentionSegments
  <2> HIDE DEF A
  <2> QED
    BY <1>1, <2>1
<1>4. ASSUME NEW row \in G PROVE \E tile \in A : row \in tile.rows
  <2>1. \/ row \in WithStatus(rows, "DRAFT")
        \/ "approval" \in see /\ row \in WithStatus(rows, "PENDING")
        \/ "security" \in see /\ row \in Detected(rows)
        \/ "sensitive" \in see /\ row \in Held(rows)
        \/ "retention" \in see /\ row \in DueSoon(rows)
    BY <1>4 DEF GaugeRows, Detected, WithStatus, Held
  <2> HIDE DEF A, G
  <2> QED
    BY <1>3, <2>1
<1> QED
  <2> HIDE DEF A, G
  <2>1. G = UNION {tile.rows : tile \in A}
    BY <1>2, <1>4
  <2> QED
    BY <2>1 DEF A, G

LEMMA GaugeIsDashboard ==
    ASSUME NEW rows \in SUBSET ListRow, NEW see
    PROVE  GaugeRows(rows, see \ {"sensitive"}) = UNION {w.rows : w \in DashboardAttention(rows, see)}
<1> DEFINE W == DashboardAttention(rows, see)
           G == GaugeRows(rows, see \ {"sensitive"})
           cues == {"warning", "info"} \cup {c \in {"critical"} : "security" \in see}
           At(s) == {row \in rows : Severity(row, rows, see) = s}
<1>1. \A row \in rows : row \in G <=> Severity(row, rows, see) \in cues
  <2>1. DashboardDueSoon(rows) = DueSoon(rows)
    BY ListedRows
  <2> QED
    BY <2>1 DEF GaugeRows, Severity
<1>2. W = {Widget(s, At(s)) : s \in cues}
  BY Zenon DEF DashboardAttention
<1>3. \A s : Widget(s, At(s)).rows = At(s)
  BY DEF Widget
<1>4. G \subseteq rows
  BY DEF GaugeRows
<1>5. ASSUME NEW w \in W PROVE w.rows \subseteq G
  BY <1>1, <1>2, <1>3, <1>5, ZenonT(60)
<1>6. ASSUME NEW row \in G PROVE \E w \in W : row \in w.rows
  <2>1. row \in At(Severity(row, rows, see)) /\ Severity(row, rows, see) \in cues
    BY <1>1, <1>4, <1>6
  <2> HIDE DEF At, cues, W, G
  <2> QED
    BY <1>2, <1>3, <2>1
<1> HIDE DEF W, G
<1>7. G = UNION {w.rows : w \in W}
  BY <1>5, <1>6
<1> QED
  BY <1>7 DEF W, G

(* A number on the page counts the rows that its link lists.                  *)
LEMMA NumbersDoAgree ==
    ASSUME list.rows \subseteq ListRow, page.filters = Normal(page.filters)
    PROVE  NumbersAgree
<1> DEFINE rows == list.rows
           see == Sees(me)
<1>1. ASSUME NEW tile \in CommandCenter(rows, BUILT_IN_DOCUMENT_SAVED_VIEWS, see)
      PROVE  /\ \/ tile.key = "legal-hold"
                \/ tile.key = "retention-due-soon"
                     /\ tile.rows = {row \in Listed(rows, Parse(tile.link)) : row.status # "ARCHIVED"}
                \/ tile.rows = Listed(rows, Parse(tile.link))
             /\ \A widget \in OperationalWidgets(rows, see) : widget.key = tile.key => widget.rows = tile.rows
  <2>1. Counted(tile, rows)
    BY <1>1, CountedTiles
  <2>2. \A widget \in OperationalWidgets(rows, see) : widget.key = tile.key => widget.rows = tile.rows
    BY <2>1, WidgetCounts
  <2> QED
    BY <2>1, <2>2, Zenon DEF Counted
<1>2. \A v \in ActiveSavedViews(BUILT_IN_DOCUMENT_SAVED_VIEWS, page.filters) :
         Listed(rows, v.filters) = Listed(rows, page.filters)
  BY ViewsListed
<1>3. \A folder \in FolderTree(rows) :
         {row \in FolderNode(rows, folder) : Filed(row)} \subseteq Listed(rows, Filters("folder", folder))
  BY FiledListed
<1>4. \A term \in Suggestions(rows, see) \ {Term("has", "legal-hold")} :
         Listed(rows, Filters("search", {term})) # {}
  BY SuggestionsFind DEF Suggestions
<1>5. /\ GaugeRows(rows, see) = UNION {tile.rows : tile \in AttentionSegments(rows, see)}
      /\ GaugeRows(rows, see \ {"sensitive"}) = UNION {w.rows : w \in DashboardAttention(rows, see)}
  BY GaugeIsAttention, GaugeIsDashboard
<1> HIDE DEF rows, see
<1> QED
  BY <1>1, <1>2, <1>3, <1>4, <1>5, Zenon DEF NumbersAgree, rows, see

-----------------------------------------------------------------------------
(* The cards of one document.                                                 *)
LEMMA LastOfSome ==
    ASSUME NEW events, events # {}, NEW n \in Nat, \A e \in events : e.stamp \in Nat /\ e.stamp <= n
    PROVE  {e \in events : \A other \in events : other.stamp <= e.stamp} # {}
<1> DEFINE ages == {n - e.stamp : e \in events}
<1>1. ages \subseteq Nat /\ ages # {}
  OBVIOUS
<1> HIDE DEF ages
<1>2. PICK m \in ages : \A j \in ages : ~(j < m)
  BY <1>1, LeastNumber
<1> USE DEF ages
<1>3. PICK e \in events : m = n - e.stamp
  OBVIOUS
<1>4. ASSUME NEW other \in events PROVE other.stamp <= e.stamp
  <2>1. n - other.stamp \in ages
    OBVIOUS
  <2>2. ~(n - other.stamp < n - e.stamp)
    BY <1>2, <1>3, <2>1
  <2> QED
    BY <2>2
<1> QED
  BY <1>4

LEMMA CardsDoAgree ==
    ASSUME NEW x, x.versions \in Seq(FileType), HasFile(x) => x.versions # <<>>,
           NEW history, NEW n \in Nat, \A e \in history : e.stamp \in Nat /\ e.stamp <= n
    PROVE  CardsAgree(x, history)
<1> DEFINE ready == Readiness(x)
<1>1. {FindingsCard(x).suggested # "none", "security" \in EvidenceLinks(x), "dlp" \in PostureRows(x)}
        = {x.dlp = "DETECTED"}
  <2>1. /\ FindingsCard(x).suggested # "none" <=> x.dlp = "DETECTED"
        /\ "security" \in EvidenceLinks(x) <=> x.dlp = "DETECTED"
        /\ "dlp" \in PostureRows(x) <=> x.dlp = "DETECTED"
    BY DEF FindingsCard, EvidenceLinks, PostureRows
  <2> QED
    BY <2>1
<1>2. {"retention" \in EvidenceLinks(x), "retention" \in PostureRows(x), ready.retention = "complete"}
        = {x.retention # "unset"}
  <2>1. /\ "retention" \in EvidenceLinks(x) <=> x.retention # "unset"
        /\ "retention" \in PostureRows(x) <=> x.retention # "unset"
        /\ ready.retention = "complete" <=> x.retention # "unset"
    BY DEF EvidenceLinks, PostureRows, Readiness, State
  <2> QED
    BY <2>1
<1>3. Len(x.versions) \in Nat /\ (x.versions # <<>> => Len(x.versions) > 0)
  OBVIOUS
<1>4. ReadinessStatus(x) = "ready" => EvidenceLinks(x) \cap {"security"} = {} /\ CurrentVersion(x) > 0
  <2>1. /\ DOMAIN Readiness(x) = {"file", "metadata", "classification", "tags", "dlp", "retention", "submission"}
        /\ Readiness(x)["dlp"] = State(x.dlp = "CLEAR", "warning")
        /\ Readiness(x)["file"] = State(x.versions # <<>> \/ HasFile(x), "blocked")
    BY DEF Readiness
  <2>2. ReadinessStatus(x) = "ready" => Readiness(x)["dlp"] # "warning" /\ Readiness(x)["file"] # "blocked"
    BY <2>1 DEF ReadinessStatus
  <2>3. ReadinessStatus(x) = "ready" => x.dlp = "CLEAR" /\ x.versions # <<>>
    BY <2>1, <2>2 DEF State
  <2> QED
    BY <1>3, <2>3 DEF EvidenceLinks, CurrentVersion
<1>5. MetadataSummary(x).date = "Published" => StageEvidence(x, history, "PUBLISHED") # {}
  <2>1. MetadataSummary(x).date = "Published" => x.published
    BY DEF MetadataSummary
  <2>2. ASSUME x.published PROVE StageEvidence(x, history, "PUBLISHED") # {}
    <3> DEFINE into == {e \in history : StageOf(e.to) = "PUBLISHED"}
    <3>1. CASE into # {}
      <4>1. {e \in into : \A other \in into : other.stamp <= e.stamp} # {}
        BY <3>1, LastOfSome
      <4> QED
        BY <3>1, <4>1 DEF StageEvidence
    <3>2. CASE into = {}
      BY <2>2, <3>2 DEF StageEvidence
    <3> QED
      BY <3>1, <3>2
  <2> QED
    BY <2>1, <2>2
<1>6. CurrentVersion(x) > 0 => MetadataSummary(x).checksum = x.versions[CurrentVersion(x)].sum
  BY DEF MetadataSummary, CurrentVersion, Seqs!Last
<1>7. OpensNext(me, x) /\ NextAction(x) \in {"security", "retention", "evidence"} =>
         /\ "evidence-links" \in Cards(me, x)
         /\ NextAction(x) = "security" => "security" \in EvidenceLinks(x)
  <2>1. OpensNext(me, x) /\ NextAction(x) \in {"security", "retention", "evidence"} => Audits(me)
    BY DEF OpensNext
  <2>2. NextAction(x) = "security" => x.dlp = "DETECTED"
    BY Zenon DEF NextAction
  <2> QED
    BY <2>1, <2>2 DEF Cards, EvidenceLinks
<1> HIDE DEF ready
<1> QED
  BY <1>1, <1>2, <1>4, <1>5, <1>6, <1>7, Zenon DEF CardsAgree, ready

-----------------------------------------------------------------------------
(* What the numbers and the cards are computed from: rows of documents that   *)
(* can be listed, of which the queue has each once, a file only where there   *)
(* is a version, and filters that were made of a link.                        *)
Once(rows) == \A a, b \in rows : a.id = b.id => a = b

Versioned(x) == HasFile(x) => x.versions # <<>>

CountsInv ==
    /\ \A k \in {ListKey, QueueKey} : cache[k].rows \cup cache[k].next \subseteq ListRow
    /\ Once(cache[QueueKey].rows) /\ Once(cache[QueueKey].next)
    /\ \A d \in Docs : \A x \in cache[DetailKey(d)].rows \cup cache[DetailKey(d)].next : Versioned(x)
    /\ page.filters = Normal(page.filters)

LEMMA AnswersCount ==
    ASSUME ServicesInv
    PROVE  /\ Answer(ListKey) \subseteq ListRow /\ Answer(QueueKey) \subseteq ListRow
           /\ Once(Answer(QueueKey))
           /\ \A d \in Docs : Versioned(Detail(d))
<1>1. Rows \subseteq ListRow
  <2>1. ASSUME NEW d \in Docs, MayList(me, d) PROVE Row(d) \in ListRow
    <3>1. /\ meta[d] \in MetaType /\ stamp[d] \in Nat /\ d \in Nat /\ Owner[d] \in Names
          /\ doc[d].hold \in BOOLEAN /\ doc[d].status \in Statuses \cup {"NONE", "PURGED"}
      BY DocsFacts, PageAssumption DEF ServicesInv, Stored
    <3>2. doc[d].status \in Statuses /\ doc[d].status # "DELETED"
      BY <2>1, <3>1 DEF MayList, L!Exists
    <3>3. (IF files[d] = <<>> THEN NoFile ELSE meta[d].file) \in Names \cup {NoFile}
      BY <3>1 DEF MetaType
    <3>4. Row(d) \in RowType
      BY <3>1, <3>2, <3>3 DEF Row, RowType, MetaType
    <3>5. Row(d).id = d /\ Row(d).status # "DELETED"
      BY <3>2, RowFacts
    <3> QED
      BY <3>4, <3>5 DEF ListRow
  <2> QED
    BY <2>1 DEF Rows
<1>2. Once(Rows)
  BY RowFacts DEF Once, Rows
<1>3. Answer(ListKey) = Rows /\ Answer(QueueKey) \subseteq Rows
  BY KeysDiffer DEF Answer, QueueOf, WithStatus
<1>4. ASSUME NEW d \in Docs PROVE Versioned(Detail(d))
  <2>1. Detail(d).file = (IF files[d] = <<>> THEN NoFile ELSE meta[d].file) /\ Detail(d).versions = files[d]
    BY DEF Detail, Row
  <2> QED
    BY <2>1 DEF Versioned, HasFile
<1> QED
  BY <1>1, <1>2, <1>3, <1>4 DEF Once

(* There are no more rows than documents.                                     *)
LEMMA FiniteRows ==
    ASSUME NEW rows \in SUBSET ListRow, \A a, b \in rows : a.id = b.id => a = b
    PROVE  IsFiniteSet(rows)
<1> DEFINE f == [row \in rows |-> row.id]
<1>1. f \in [rows -> Docs] /\ \A a, b \in rows : f[a] = f[b] => a = b
  BY DEF ListRow
<1>2. IsFiniteSet(Docs)
  BY DocsFacts
<1> HIDE DEF f
<1>3. f \in Injection(rows, Docs)
  BY <1>1, Zenon DEF Injection, IsInjective
<1> QED
  BY <1>2, <1>3, FS_Injection

LEMMA CountsInit ==
    ASSUME Init
    PROVE  CountsInv
<1>1. ServicesInv
  BY LibraryInit DEF LibraryInv
<1>2. /\ past = {} /\ page.filters = DEFAULT_DOCUMENT_FILTERS
      /\ cache = [k \in Keys |-> IF k \in Shown \cup {ListKey} THEN [NoQuery EXCEPT !.rows = Answer(k), !.known = TRUE]
                                 ELSE NoQuery]
  <2>1. \E s : page = [open |-> s.open, doc |-> 1, filters |-> DEFAULT_DOCUMENT_FILTERS, number |-> 1,
                       dialog |-> NoDialog, drawer |-> {}]
    BY Zenon DEF Init
  <2>2. page.filters = DEFAULT_DOCUMENT_FILTERS
    BY <2>1
  <2> QED
    BY <2>2, Zenon DEF Init
<1>3. \A k \in Keys : cache[k].next = {} /\ cache[k].rows \in {{}, Answer(k)}
  BY <1>2, Zenon DEF NoQuery
<1>4. Normal(DEFAULT_DOCUMENT_FILTERS) = DEFAULT_DOCUMENT_FILTERS
  BY FieldFacts, ParseSerialize DEF Normal
<1>5. Once({})
  BY DEF Once
<1>6. /\ \A k \in {ListKey, QueueKey} : cache[k].rows \cup cache[k].next \subseteq ListRow
      /\ Once(cache[QueueKey].rows) /\ Once(cache[QueueKey].next)
  BY <1>1, <1>3, <1>5, AnswersCount, KeyFacts
<1>7. \A d \in Docs : \A x \in cache[DetailKey(d)].rows \cup cache[DetailKey(d)].next : Versioned(x)
  <2>1. \A d \in Docs : Answer(DetailKey(d)) = {Detail(d)}
    BY KeysDiffer DEF Answer
  <2> QED
    BY <1>1, <1>3, <2>1, AnswersCount, KeyFacts
<1> QED
  BY <1>2, <1>4, <1>6, <1>7, Zenon DEF CountsInv

(* The filters of the page are those of a link: they stay, are the default, or *)
(* are normalized when they are chosen.                                       *)
LEMMA FiltersStep ==
    ASSUME LibraryInv, page.filters = Normal(page.filters), [Next]_vars
    PROVE  page'.filters = Normal(page'.filters)
<1> DEFINE Goal == \/ page'.filters = page.filters \/ page'.filters = DEFAULT_DOCUMENT_FILTERS
                   \/ \E f : page'.filters = Normal(f)
<1>1. page = [k \in {"open", "doc", "filters", "number", "dialog", "drawer"} |-> page[k]]
  BY DEF LibraryInv, PageInv
<1>2. ASSUME UNCHANGED page PROVE Goal
  BY <1>2
<1>3. ASSUME NEW dialog, page' = [page EXCEPT !.dialog = dialog] PROVE Goal
  BY <1>1, <1>3
<1>4. ASSUME NEW drawer, page' = [page EXCEPT !.drawer = drawer] PROVE Goal
  BY <1>1, <1>4
<1>5. ASSUME OthersStep PROVE Goal
  BY <1>2, <1>5 DEF OthersStep, OtherActs
<1>6. ASSUME PageStep PROVE Goal
  <2>1. ASSUME NEW filters, ChangeFilters(filters) PROVE Goal
    BY <1>1, <2>1 DEF ChangeFilters
  <2>2. ASSUME NEW number, TurnPage(number) PROVE Goal
    BY <1>1, <2>2 DEF TurnPage
  <2>3. ASSUME NEW row, NEW a, OpenDialog(row, a) PROVE Goal
    BY <1>3, <2>3 DEF OpenDialog
  <2>4. ASSUME CancelDialog PROVE Goal
    BY <1>3, <2>4 DEF CancelDialog
  <2>5. ASSUME NEW t, Confirm(t) PROVE Goal
    <3>1. page' = [page EXCEPT !.dialog = [page.dialog EXCEPT !.busy = TRUE]]
      BY <2>5 DEF Confirm
    <3> QED
      BY <1>3, <3>1
  <2>6. ASSUME NEW t, NEW a, NEW rows, Bulk(t, a, rows) PROVE Goal
    BY <1>2, <2>6 DEF Bulk
  <2> HIDE DEF Goal
  <2> QED
    BY <1>6, <2>1, <2>2, <2>3, <2>4, <2>5, <2>6, Zenon DEF PageStep
<1>7. ASSUME CacheStep PROVE Goal
  <2>1. ASSUME NEW k, Serve(k) \/ Refetch(k) PROVE Goal
    BY <1>2, <2>1 DEF Serve, Refetch, OfCache
  <2>2. ASSUME NEW where, Open(where) PROVE Goal
    BY <1>1, <2>2 DEF Open, Goes
  <2> HIDE DEF Goal
  <2> QED
    BY <1>7, <2>1, <2>2, Zenon DEF CacheStep
<1>8. ASSUME OnApprovals PROVE Goal
  <2>1. ASSUME NEW row, OpenDrawer(row) PROVE Goal
    BY <1>4, <2>1 DEF OpenDrawer
  <2>2. ASSUME CloseDrawer PROVE Goal
    BY <1>4, <2>2 DEF CloseDrawer
  <2>3. ASSUME NEW row, NEW a, Decide(row, a) PROVE Goal
    BY <1>3, <2>3 DEF Decide
  <2> HIDE DEF Goal
  <2> QED
    BY <1>8, <2>1, <2>2, <2>3, Zenon DEF OnApprovals
<1>9. ASSUME NEW t, TaskStep(t) PROVE Goal
  BY <1>2, <1>9, Zenon DEF TaskStep, Undo, Fire, Send, ServeCall, CallAnswered, CallFails, OfView
<1>10. ASSUME NEW t, Ends(t) PROVE Goal
  BY <1>1, <1>10 DEF Ends, Finish
<1>11. ASSUME NEW k, PageFails(k) PROVE Goal
  BY <1>2, <1>3, <1>11 DEF PageFails, FailFetch
<1>12. ASSUME NEW k, PageArrives(k) PROVE Goal
  BY <1>2, <1>12 DEF PageArrives, Arrive, OfCache
<1>13. ASSUME Leave PROVE Goal
  BY <1>1, <1>13 DEF Leave, Goes
<1>14. ASSUME OpenApprovals PROVE Goal
  BY <1>1, <1>14 DEF OpenApprovals, Goes
<1>15. ASSUME NEW d, OpenDocument(d) PROVE Goal
  BY <1>1, <1>15 DEF OpenDocument, Goes
<1>16. ASSUME OnDesk PROVE Goal
  BY <1>2, <1>16, Zenon DEF OnDesk, OnDocument, EditChain, Compare, ChoosePreview, SaveChain, SetLegalHold, UploadFile,
                     RestoreVersion, ClosePreview, LoadAnswered, LoadFails, CancelEdit, Redraft, OfDesk
<1>17. ASSUME UNCHANGED vars PROVE Goal
  BY <1>2, <1>17 DEF vars
<1> HIDE DEF Goal
<1>18. ASSUME Next PROVE Goal
  BY <1>5, <1>6, <1>7, <1>8, <1>9, <1>10, <1>11, <1>12, <1>13, <1>14, <1>15, <1>16, <1>18, Zenon DEF Next
<1>19. Goal
  BY <1>17, <1>18
<1>20. Normal(DEFAULT_DOCUMENT_FILTERS) = DEFAULT_DOCUMENT_FILTERS
  BY FieldFacts, ParseSerialize DEF Normal
<1> QED
  BY <1>19, <1>20, NormalIsNormal DEF Goal

(* An answer that is shown was served, and one that was served was answered.  *)
LEMMA WholeAnswers ==
    ASSUME CacheShape, NEW k \in Keys
    PROVE  cache'[k].rows \in {cache[k].rows, cache[k].next} /\ cache'[k].next \in {cache[k].next, {}, Answer(k)}
<1>1. Same(k) \/ Asks(k) \/ Gets(k) \/ Shows(k) \/ Fails(k)
  BY DEF CacheShape
<1>2. CASE Same(k)
  BY <1>2 DEF Same
<1>3. CASE Asks(k)
  BY <1>3 DEF Asks
<1>4. CASE Gets(k)
  BY <1>4 DEF Gets
<1>5. CASE Shows(k)
  BY <1>5 DEF Shows, NoQuery
<1>6. CASE Fails(k)
  BY <1>6 DEF Fails
<1> QED
  BY <1>1, <1>2, <1>3, <1>4, <1>5, <1>6

LEMMA CountsStep ==
    ASSUME LibraryInv, CountsInv, [Next]_vars
    PROVE  CountsInv'
<1>1. /\ ServicesInv /\ CacheInv /\ CacheShape /\ TasksInv /\ ListKey \in Keys /\ QueueKey \in Keys
      /\ \A d \in Docs : DetailKey(d) \in Keys
  BY CacheShapes, KeyFacts DEF LibraryInv
<1>2. \A k \in {ListKey, QueueKey} : cache'[k].rows \cup cache'[k].next \subseteq ListRow
  <2>1. ASSUME NEW k \in {ListKey, QueueKey} PROVE cache'[k].rows \cup cache'[k].next \subseteq ListRow
    <3>1. cache'[k].rows \cup cache'[k].next \subseteq cache[k].rows \cup cache[k].next \cup Answer(k)
      BY <1>1, Sources
    <3>2. Answer(k) \subseteq ListRow
      BY <1>1, AnswersCount
    <3> QED
      BY <3>1, <3>2 DEF CountsInv
  <2> QED
    BY <2>1
<1>3. Once(cache'[QueueKey].rows) /\ Once(cache'[QueueKey].next)
  <2>1. Once({}) /\ Once(Answer(QueueKey))
    BY <1>1, AnswersCount DEF Once
  <2>2. /\ cache'[QueueKey].rows \in {cache[QueueKey].rows, cache[QueueKey].next}
        /\ cache'[QueueKey].next \in {cache[QueueKey].next, {}, Answer(QueueKey)}
    BY <1>1, WholeAnswers
  <2> QED
    BY <2>1, <2>2 DEF CountsInv
<1>4. ASSUME NEW d \in Docs, NEW x \in cache'[DetailKey(d)].rows \cup cache'[DetailKey(d)].next PROVE Versioned(x)
  <2>1. x \in cache[DetailKey(d)].rows \cup cache[DetailKey(d)].next \cup Answer(DetailKey(d))
    BY <1>1, <1>4, Sources
  <2>2. Answer(DetailKey(d)) = {Detail(d)} /\ Versioned(Detail(d))
    BY <1>1, Answers, AnswersCount
  <2> QED
    BY <2>1, <2>2 DEF CountsInv
<1>6. page'.filters = Normal(page'.filters)
  BY FiltersStep DEF CountsInv
<1> QED
  BY <1>2, <1>3, <1>4, <1>6 DEF CountsInv, Once, Versioned

(* Whatever is shown, fetched or on its way is what the pages can count: rows *)
(* of documents that can be listed, each once, and filters that a link has    *)
(* (documents.service.ts:170, document-filters.ts:112).                       *)
THEOREM CountsInvariant == Spec => []CountsInv
<1>1. CountsInv /\ LibraryInv /\ [Next]_vars => CountsInv'
  BY CountsStep
<1> QED
  BY <1>1, CountsInit, LibraryInvariant, PTL DEF Spec

(* A number on the page counts the rows that its link lists, though the two   *)
(* are computed apart, and the dashboard has the same numbers; the pages of   *)
(* the approval queue show each of its rows once and in order; the cards of a *)
(* document tell the same of it (document-command-center.ts:125,              *)
(* dashboard-model.ts:116, approval-sla.ts:93,                                *)
(* document-detail-presentation.ts:103).                                      *)
THEOREM CountsAgreeHolds == Spec => []CountsAgree
<1>1. LibraryInv /\ CountsInv => CountsAgree
  <2> SUFFICES ASSUME LibraryInv, CountsInv PROVE CountsAgree
    OBVIOUS
  <2>0. ServicesInv /\ CacheInv /\ PageInv
    BY DEF LibraryInv
  <2>1. page.open \in ListPages => NumbersAgree
    BY NumbersDoAgree DEF CountsInv, list
  <2>2. ASSUME NEW x \in OnPage PROVE CardsAgree(x, cache[HistoryKey(x.id)].rows)
    <3>1. PICK d \in Docs : x.id = d /\ x \in cache[DetailKey(d)].rows /\ DetailInv(d, x)
      BY <2>0, PageRows
    <3>2. x.versions \in Seq(FileType) /\ (HasFile(x) => x.versions # <<>>)
      BY <3>1 DEF DetailInv, CountsInv, Versioned
    <3>3. \A e \in cache[HistoryKey(d)].rows : e \in past /\ e.doc = d
      BY <2>0 DEF CacheInv
    <3>4. stamp[d] \in Nat
      BY <2>0 DEF ServicesInv
    <3>5. \A e \in cache[HistoryKey(d)].rows : e.stamp \in Nat /\ e.stamp <= stamp[d]
      BY <2>0, <3>3 DEF ServicesInv
    <3> QED
      BY <3>1, <3>2, <3>4, <3>5, CardsDoAgree
  <2>3. ASSUME NEW waited \in Waits PROVE QueueOrdered(cache[QueueKey].rows, waited)
    <3> DEFINE rows == cache[QueueKey].rows
    <3>1. rows \subseteq ListRow /\ \A a, b \in rows : a.id = b.id => a = b
      BY DEF CountsInv, Once
    <3>2. IsFiniteSet(rows)
      BY <3>1, FiniteRows
    <3> QED
      BY <3>1, <3>2, QueueIsOrdered
  <2> QED
    BY <2>1, <2>2, <2>3 DEF CountsAgree
<1> QED
  BY <1>1, LibraryInvariant, CountsInvariant, PTL
====
