# docvault: specifications and proofs

TLA+ models of the parts of docvault whose correctness depends on more than one
call, more than one service, or more than one copy of the same rule: the
hash-chained audit log, the life of a document (workflow, retention, trash), its
versions and files, the ways its content reaches a reader, membership of
organizations, notifications, the way of a request through the gateway, and what
the web application shows and offers of all this. Each model is checked by TLC on
small instances; the properties that matter most are proved with TLAPS for every
value of the constants.

Paths are relative to `src/`; `metadata-service`, `audit-service` etc. are
directories of `services/`, `web` is `apps/web/src`.

## 1. The system

docvault is a set of NestJS services behind a gateway, with a Next.js web
application. `metadata-service` owns the PostgreSQL database (documents, entries
of the access control list, versions, workflow history, share links,
organizations); `document-service` owns the object store; `workflow-service`
keeps no state and drives documents through their statuses by calling
`metadata-service`; `audit-service` keeps the audit log in MongoDB;
`notification-service` keeps one list per recipient. Every service may run in
several instances. No call holds a lock across an `await`, except the promise
queue of the audit service, and most writes are `UPDATE ... WHERE id` without
looking at what was read before. The web application keeps answers in a query
cache, invalidates them when the user's own action succeeds, and computes what it
shows and offers from them.

| component | state | operations | interacts with | what is hard | correct means |
|---|---|---|---|---|---|
| audit-service: log | events with `prevHash`/`hash`, epochs, incidents; an in-process queue | append, verify, seal | called best effort by every service | instances append at once; an insert whose answer is lost; a seal is four separate writes | one line per epoch; acknowledged = stored once; a request never hangs; verification finds an edit or a gap, and nothing the service does is taken for one |
| audit-service: summary, recommendations | none of its own: reads the log, and stores updates of a recommendation as events | summarise, record a view, update a case, history | the security page and the evidence center | three reads of a growing log; time stamps out of order | a number can be looked at; a case is what was written last |
| workflow-service | none | submit, approve (in a chain), reject, archive, delete | reads the document, then calls metadata-service twice | what it checked may be stale when metadata-service writes | the transition map; approvers in order |
| metadata-service: status, chain, hold, trash | `documents`, `document_workflow_history` | transition, set chain, advance step, legal hold, restore | called by the gateway and workflow-service | reads before, writes by id after | status, dates and history agree |
| metadata-service: retention and trash jobs | the same rows | a scan, then one write per document | run daily, beside the calls; the first also by admins, as of any day | the scan is stale when the write comes; a run may die | what is due happens in the end; a purged document stays purged |
| document-service: upload | objects in the store | upload, roll back | registers the version with metadata-service | two writes in two stores; two uploads of one version number | a version that was uploaded keeps its file; a failed upload leaves no object |
| metadata-service: versions | `document_versions`, `currentVersion`, DLP status, classification | create (for an upload, or as its caller says), restore, reclassify | called by document-service and the gateway | the number is checked before the transaction | numbers 1..n, rows never change |
| metadata-service: policy, entries | documents, `document_acl` | the decisions on reading, listing, previewing, downloading, AI use; simulation; edit entries | called by everybody | the same rules are written down five times | the copies agree |
| access review | the answer a page shows | list, then one detail per sensitive document | gateway, metadata-service | two reads while entries change | a review that is not critical misses nobody |
| metadata-service: share links | `document_share_links` | create, revoke, redeem | read by the policy | check, then count | the cap |
| document-service: grants, URLs, preview | signed grants and URLs, kept by their holders | presign, stream, preview | asks metadata-service once | a decision is used long after it was made | no delivery on a decision older than its lifetimes; sensitive content does not go around the watermark service |
| metadata-service: organizations | members, roles, a 60 s cache per instance | add, change, remove members | gives a call its organization | last-admin check; cache per instance | an organization keeps an admin; a former member is soon out |
| notification-service, approver directory | one list per recipient, capped; caches of approvers and addresses | store, prune, list, mark, mail | called best effort by workflow-service and uploads | prunes overlap; failed lookups are cached | the newest are kept; whoever is not told has a reason |
| web: notifications page, bell | a cached list, two optimistic mutations, a badge | mark one, mark all, poll | notification-service | two mutations roll back over each other | the page tells what is stored |
| gateway | signed tokens and step-up proofs, kept by the browser; rate limit | every route: guards, then calls | every service | tokens run out on the way; one request is several operations | what is let in is not refused later; an answer tells what was done |
| web: security page, evidence center | one cached summary, loaded windows and histories, a selection | refresh, save, load, export | audit-service, retention page | thresholds and routes are written twice; stale answers | alerts, posture, cases and exports agree |
| web: document pages, approvals, dashboard | cached lists, details, histories, queue; dialogs, tasks, editors, previews | filter, act, bulk with undo, preview, edit a chain | metadata-service, workflow-service | answers on their way when the user acts | counts, offers and reports are true |
| saved views, comments, scanners, audit clients, other pages, infrastructure | | | | | not modelled, see section 8 |

## 2. Modules

| module | role |
|---|---|
| `AuditLog` | abstract: an append-only sequence per epoch, acknowledgements only of what is stored |
| `AuditChain` (proofs in `AuditServiceProofs`) | the log of audit-service; implements `AuditLog` |
| `DocumentWorkflow` | abstract: the documented life of a document, every operation in one step |
| `DocumentLifecycle`, `DocumentLifecycleProofs` | workflow-service, metadata-service's status operations and its jobs; implements `DocumentWorkflow` when calls do not overlap |
| `FileStore` | abstract: the files of a document's versions, never changed |
| `DocumentVersions`, `DocumentVersionsProofs` | upload, registration, restore, reclassification; implements `FileStore` |
| `AccessPolicy` (proofs in `DocumentAccessProofs`) | the access decisions as operators, over a document that its managers change |
| `AccessReview` (proofs in `DocumentAccessProofs`) | EXTENDS `AccessPolicy`: the page that reviews the entries of sensitive documents |
| `DocumentAccess`, `DocumentAccessProofs` | EXTENDS `AccessPolicy`: share links, grants, URLs and previews on top of the decisions |
| `Organization`, `OrganizationProofs` | memberships, and the organization of a request with its caches |
| `Notifications` | the directory of approvers, the senders, notification-service, e-mail |
| `NotificationCenter`, `NotificationCenterProofs` | EXTENDS `Notifications`: one user's notifications page and bell |
| `Routes`, `Gateway`, `GatewayProofs` | the tables of routes, roles and calls; a request on its way |
| `SecurityAnalysis` | pure: what audit-service computes from a log |
| `SecurityDashboard`, `SecurityViews`, `EvidenceCenter` | pure, each EXTENDS the one before: what the web makes of a summary |
| `SecurityCenter` | EXTENDS `EvidenceCenter`: officers, caches, requests, a growing log |
| `AuditServiceProofs` | EXTENDS `AuditChain` and `SecurityCenter`: proofs about both |
| `DocumentSearch`, `DocumentOverview`, `DocumentView`, `ApprovalQueue` | pure, each EXTENDS the one before: filters and search, counts and work queue, the cards of a document, the queue of approvals |
| `DocumentsPage`, `DocumentPage`, `DocumentPageProofs` | a user at the pages of the lists, of one document and of the approvals; `DocumentLifecycle` is instantiated for what the services grant |
| `MC...` | constants of the small instances |

Definitions whose comment begins with `Mutant:` are plausible mistakes in a
definition next to them. No specification uses them; replacing the definition by
its mutant must break the property named in `PROJECT.json`.

### AuditChain

A process (`proc[p]`) is one request in an instance. `Create` takes its place in
the instance's queue (`chainLock`), and the request at its head goes through
`FindActiveEpoch` (with `CreateDefaultEpoch`/`RefetchActiveEpoch` when there is
none), `ReadTail` and `Insert`; a collision on the unique index `(epochId,
prevHash)` is `DuplicatePrevHash`, which goes back to the tail until
`MAX_CHAIN_APPEND_ATTEMPTS` are used up. A seal is `Seal`, `RefuseSeal` or
`CreateIncident`, `MarkCompromised`, `StartEpoch` and an append. Every `await` on
the database ends a step. SHA-256 is taken as collision free: a hash is the
sequence of the payloads it digests. `verifyChain` is an operator on the set of
stored events, its walk along `prevHash` included. Faults: a call that rejects, an
insert that is stored but not acknowledged, the crash of an instance, an event
(the newest or any other) edited or lost in the database. Marking an epoch
overwrites the incident it names, as the update in the code does.

### DocumentLifecycle

A slot (`req[s]`) is one call being served, through both services, or one run of a
job. `RequestTransition` is what workflow-service reads and checks,
`CheckTransition`/`Refused` what metadata-service reads and checks again,
`WriteStatus` its transaction (status, dates and history row together); approving
with a chain is `RequestStep`, `ReadStep`, `WriteStep`. `RequestStatus` is the
gateway's direct route to the status endpoint, which looks at the transition map and
not at who may approve: its callers (`Direct`) publish without a turn. Jobs:
`StartRetention` and `StartPurge` scan, `RunRetention` is the retention job run by
an admin, as of any day of `AsOf` or today; `ArchiveDocument`, `PurgeDocument`,
`SkipDocument` take one document each. `signed` records who approved since the last
submission; no guard reads it. Time is in days; the retention period is one
constant.

### DocumentVersions

One document; documents share neither rows nor objects. An upload is `Upload`
(read `currentVersion`, scan, build the key), `StoreObject`, `CheckVersion` or
`RefuseVersion`, `InsertVersion` or `Conflict` (unique index on `(docId,
version)`), `Answer`; a failed registration leads to `DeleteObject`. `Register` is
a caller of `POST /metadata/documents/:docId/versions`, who names number, key,
checksum and scan result (one of `Claims`); it goes the same way from
`CheckVersion` on, but whoever registers has nothing to clean up (`Failed`). The
`origin` of a row is observation only: uploaded, or named by its caller; a restored
row has that of its source. In `FileStore` an upload appends a file and a caller's
registration `Declare`s a version of whose file nothing is known. `Restore`
makes a new version of an old object. `Classify`/`WriteLevel` change the
classification meanwhile. PUBLIC and INTERNAL are one level here: nothing that is
checked tells them apart. `FairSpec` has no lost answers; `LossySpec` adds them.

### AccessPolicy, AccessReview and DocumentAccess

A document is `[status, level, version, acl]`. `MayRead`, `Listed`, `MayDownload`,
`MayPreview`, `MayUseContent` are metadata-service's decisions, `WebMay...` the
web application's, `BaselineRead`/`BaselineDownload` those of the simulation; the
state machine is what managers do to the four fields. Group names are taken as
normalised on both sides (`matchesGroupSubject` compares them normalised).
Entries with other permissions (WRITE, APPROVE) are stored but no decision
reads them, so they are left out.

`AccessReview` adds one officer or admin: `Ask` (mount, refresh), `List` (the
documents the gateway is given for the reviewer), `Detail` (the one sensitive
document with its entries, on which the page makes its `Reviews`), `Fails`.
Whether an entry is older than a year is chosen. `spared` is history: whether at
some moment between question and answer nobody but owner and admins could
download the document.

`DocumentAccess` adds the share link and the two-step requests: `ReadDocument` is
`authorizeDownload`/`authorizePreview` up to the read of the document, and
`GrantDownload`, `GrantPreview` or `Refuse` is the rest, after the link has been
read. What document-service does with a grant is `Presign`, `Stream` and
`ServePreview`; `FetchUrl` is the object store. `applyWatermark` has two outcomes
for sensitive content, since it returns what is not a PDF, or cannot be processed as
one, as it is: what is delivered is `stamped`, `returned`, or `none`, not given to
the watermark service. A route that asks for the decision itself when it is given no
grant is `ReadDocument`, `GrantDownload`, then `Presign` or `Stream`. `seen` is a
history variable: for each reader and kind the last moment at which the content was
permitted, and the last moment at which it was not sensitive.

### Organization

`members` is the table, `cache[i][u]` the `Map` of each instance. A request goes
through `requireOrgId` (a cached organization, or a lookup and then the write of
the cache) and then its operation; a removal invalidates the cache of the instance
it runs in. `late` and `left` are history: what was written over between a
request's read and its write, and when a membership ended.

### Notifications and NotificationCenter

`req[r]` is an operation that has succeeded and now awaits its notification:
`Ask`, `Learn`, `Answer` (the two queries to Keycloak, with the cached list), `Post`,
then per recipient `Create`, `Count`, `FindStale`, `DeleteStale`; `Lose`,
`AskFails`, `StoreFails` are what the clients swallow. `Stored` starts the e-mails
(`ResolveEmail`, `FetchEmail`, `SendEmail`; `SendFails` is a provider that refuses),
if a transport is configured, with the cache of addresses in which a failed lookup
and a user without an address are both kept as "no address". `ChangeEmail` gives a
user an address in Keycloak or takes it away; `budget.config` says whether e-mail
and lookups are configured. `NotificationCenter` adds the page of one
reader: `MarkOne` and `MarkAll` change the cached list at once (`Optimistic`),
`ApplyOne`/`ApplyAll` are the service, `OneFails`/`AllFails` roll back to the list
that was seen; and the bell with its polled badge.

### Gateway and Routes

`Routes` holds four tables: the roles on the gateway's routes, on the operations of
the services, the paths (in which order a route calls which operations), and what
the web application asks before it offers a route. `Gateway` takes them as
constants, and assumes that they agree with each other (`TablesAssumption`: who may
call a route is served the operations it leads to, no operation that may be refused
follows a write, what is offered is allowed); TLC evaluates this on the tables of
`Routes`. `POST /audit/events` asks for the token of the services (`ServicesOnly`),
which no user has. A request passes the rate limit, the token check, the roles and
the step-up proof in one step (`Gate`), since none of these awaits anything that
others change; `Audited` is the awaited audit event of a proof; each `Hop` is one
operation at a service, which checks token and roles again; `Fail` an operation that
fails, before or after it was done. Tokens hold the roles of the login. `lost` and
`typed` are history.

### The security page and the evidence center

`SecurityAnalysis` computes counters, denied actors, risky documents, behaviour
signals and recommendations from a log; `SecurityDashboard` alerts, posture, routes,
queue, deadlines and controls; `SecurityViews` the figures, charts and lists with
the links they carry and what those open; `EvidenceCenter` sources, selection,
bundle and presentation of a case. `SecurityCenter` runs them: a summary request
reads the log at three moments (`counted`, `listed`, `stated`), looks for a recent
view and records one; a page waits for one request and gives others up; saves,
histories and windows are loaded by requests of their own. Thresholds are constants
of the model, small enough for a log of a few events to reach them; the comparisons
are those of the code.

### The document pages

`DocumentSearch` is `document-filter-model.ts` and the folder tree (a tag is a
sequence of `Segments`, of which the tree drops the empty ones; the filters compare
the tag as it is), `DocumentOverview` the command center and the dashboard,
`DocumentView` the cards of the page of a document (audit events under the names
that the services give them, `AuditEvent`), `ApprovalQueue` the page of the
approvals. `DocumentsPage` has the query cache (`cache[k]`: rows, fetch under way,
invalidated or not), the dialog, and the tasks: a bulk action waits for five seconds
(`waiting`), may be undone, and then calls the services for one document after the
other; each call may be refused or lost. `DocumentPage` adds the editor of the
chain, comparison and preview with its loads, and the drawer. What a call does and
who may make it is `DocumentLifecycle` (`L!`), in one step; colleagues act on the
same documents.

## 3. What the runs check

| run | bounds | shows |
|---|---|---|
| `audit_faults` | 3 requests on 2 instances, 4 events, 2 faults, 1 damaged event, 4 attempts | `ChainLinear`: an epoch is one line. `AckedOnce`: an acknowledged event is stored once. `InstanceOrder`: events of one instance are in the order of the calls. `RetriesPaidByOthers`: an append only retries when another instance stored something. `RequestsEnd`: no request hangs, whatever fails |
| `audit_epochs` | 1 request on each of 2 instances, 2 events, 2 seals, 1 fault, 2 damages, a verification limit of 1, 2 attempts | `VerifyExact`: verification passes exactly the epochs whose stored events have all their predecessors, unedited as far as the limit; it passes what nobody damaged, and nothing the service does hides a break. `SealTrail`: a recovery epoch has an incident of a compromised predecessor, the one it names while it is active; only a damaged epoch is compromised, and then names an incident of its own. `ImplementsLog`: refinement of `AuditLog` |
| `serial` | 1 document, owner (who also calls the status endpoint directly), two approvers, admin, 1 slot, 4 days, retention runs as of days 1, 3 and 5, 4 history rows, 1 fault, both orders of a chain | `HistoryExplains`: the history is a path to the present status. `ImplementsWorkflow`: refinement of `DocumentWorkflow`. `RetentionHappens`: what is due is done although one run may die |
| `races` | 1 document, 2 slots, owner, approver (who also calls the status endpoint directly), admin, 3 days, retention runs as of day 3, 3 history rows, 1 fault | `StatusEvidence`: a status comes with its dates, whatever overlaps or fails |
| `uploads` | 2 slots with different names, 3 contents (one infected, one sensitive), callers who register versions 2 and 3 with the key of an upload, 3 versions, 1 fault | `VersionsContiguous`: numbers without gaps. `FilesIntact`: each version that was uploaded has the file its checksum was computed from. `ImplementsFileStore`: refinement of `FileStore`. `NoOrphanStays`: without failures an upload leaves no object without a version behind |
| `policy` | 7 users (each role, the owner, one with two roles), 2 entries on everybody, a user, two roles or a group, 4 levels, 3 reviewers | `ListMatchesRead`: the list shows what may be opened. `WebAgrees`: the web application decides alike. `ImpactExact`: the simulation of a reclassification says what will be. `ReviewTells`: an access review that is not critical had a moment in which only owner and admins could download |
| `access` | 1 reader, 2 calls, 1 entry, 1 link, 1 grant of 2 units, 1 URL of 1 unit, 2 units of time | `FreshDelivery`: content goes out only if it was permitted within the lifetimes of a grant and a URL. `WatermarkAsked`: it goes out around the watermark service only if it was not sensitive that recently. `OpensBounded`: a link is opened at most as often as its cap and the overlapping calls say |
| `org` | 3 users, 2 organizations, 2 requests on 2 instances, entries of 1 unit, 2 changes, 1 use, 1 restart | `StaleBounded`: no request works in an organization its caller left longer ago than an entry and a lookup live. `MembershipKept`: an organization keeps an admin and nobody is in two, but for requests that overlapped (or an admin added again as a member) |
| `notify` | 2 users, a name that is none, 2 senders, a cap of 2; a behaviour is about the directory, the store, the mail (failing lookups and providers, addresses that come and go, e-mail or lookups not configured), the page or the bell | `PageTruth`: what the page shows as read is read, or being made so, or two mutations overlapped. `PruneKeepsNewest`: no prune takes one of the newest. `MailExplained`: a mail is withheld from the provider only if its user is without an address, or was within the life of an entry, or the lookup is not configured or failed that recently |
| `gateway` | every route for every role, 1 fault; 2 tokens over 3 units; 2 users sharing the limit; proofs used again or by somebody else | `GateDecides`: what the gateway let in is refused on the way only because the token ran out. `AnswersTell`: `ok` means everything was done, a refusal that nothing was changed. `SensitiveFresh`: a sensitive operation has a phrase and a login that are recent |
| `security` | 2 officers, 2 actors, 2 documents, logs one event below each threshold, 2 summary requests, 1 fault | `DrillDownCovers`: what is counted can be looked at. `CasesMatchPosture`: alerts, posture, charts and cases agree. `OwnSaveShown`: a save is not followed by an older answer. `ExportsAreWhole`: packets and cases hold what they are presented with |
| `library` | 3 documents, one of which is anything, also tagged with empty segments; 15 kinds of sessions of one user with dialogs, bulk actions, colleagues, lost calls | `CountsAgree`: a number counts what its link lists. `OffersGranted`: what is offered is granted. `BulkAccounted`: a report says what was done. `OwnActionsShown`: no older answer is shown after the user's own action. `PreviewShown`: the preview is of the chosen version |

The following hold on the same instances, and are stated in the modules without
being among the runs' properties, because another property says more or the
theorem below does: the type invariants; `AuditChain!AppendsLand`;
`DocumentLifecycle!TrashEmptied` (as `serial`), `PurgedForever` (as `races`);
`DocumentVersions!VersionsGrow`; `AccessPolicy!DownloadableIsReadable`,
`SimulationExact`, `AiReadsWhatUserReads`; `Organization!OnlyOrphansDropped`;
`Notifications!CapHeld`, `DirectoryExact`, `SendersEnd`; `Gateway!OfferedIsServed`,
`RolesNotOlder`, `RequestsAnswered`; `SecurityCenter!DenyNamedOnce`, `ViewTrail`,
`OverdueIsUntouched`, `CountsAddUp`, `SavesEnd`. To check one, put it in place of
the properties of the run's `.cfg`.

**Why the bounds are enough.** Every race in these services is between two calls,
or a call and a job: each of the counterexamples of section 7 needs at most two
actors. Three requests in `audit_faults` put two in one queue and one in another
instance, the least in which queue order and cross-instance collisions meet. Two
entries are the least with an ALLOW and a DENY for the same user; 4 days (serial)
let a document be published, become overdue, be missed by a run that dies and be
archived by the next. Three versions are the least in which a version can be
restored and another upload follow or collide. In `access` the grant is longer
than the URL, so that a grant is issued, a URL presigned in the grant's last unit
and fetched in its own, which is as old as a decision can get, and time runs on
until all of them have expired; `LinkTime` is one unit so that a link expires
within the run (its real validity is longer; no property refers to it).
`MaxHistory` leaves a document alone after so many transitions: `MaxHistory` = 4
is a document that is submitted, rejected, resubmitted and published. In `notify`
a cap of 2 and four records give overlapping prunes something to take. In
`security` and `library` the pure parts are checked on every state of short
sessions that begin where it matters: a log one event below a threshold, a list in
which one row is anything. The constants named `...Scenarios` and `...Budgets`
hold these beginnings and how many steps of each kind may follow.

Runs switch deadlock checking off because the bounds on events, days, versions
and steps stop the models; the systems have no final state of their own. That
nothing waits for ever is checked as liveness (`RequestsEnd`, and the statements
named `...End` and `RequestsAnswered`).

## 4. Fairness

- `AuditChain!FairSpec`: weak fairness of the steps of each request. The queue
  of an instance is a promise chain: whoever is at its head is scheduled, and a
  database call resolves or rejects. No fairness for faults, edits or new calls.
- `DocumentLifecycle!FairSpec`: weak fairness of `Tick` and of the steps of each
  call; strong fairness of the two jobs, which are started by a clock every day
  (`@Cron`): a slot that is busy now and then does not keep them from running
  for ever. Weak fairness would let a stream of other calls starve them, which
  the real scheduler does not.
- `DocumentVersions!FairSpec`: weak fairness of the steps of each call.
- `GatewaySpec`, `NotifySpec`, `SecuritySpec`: weak fairness of the steps of each
  request, mail, mutation and save that is under way. None for what users, clocks
  and faults do.

## 5. What is proved

All theorems hold for every value of the constants that satisfies the named
assumptions of the module (`ConstantsAssumption`, `DamagedAssumption`,
`LifecycleAssumption`, `UsersAssumption`, `PolicyAssumption`, `ReviewersAssumption`,
`DocumentAccessAssumption`, `VersionsAssumption`, `OrganizationAssumption`,
`NotificationsAssumption`, `GatewayAssumption`, `TablesAssumption`,
`PageAssumption`, `ScenarioAssumption`, `SearchAssumption`, `WaitsAssumption`,
`AnalysisAssumption`, `DashboardAssumption`, `ViewsAssumption`, `CenterAssumption`,
`ScenariosAssumption`), which
TLC evaluates in every run. Every inductive invariant was first checked by TLC as an
invariant of the runs of its module.

- `AuditServiceProofs!TypeCorrect`, `LinearChain`. The inductive invariant adds to
  the types that the stored events of a trusted epoch are closed under
  predecessors, that a hash is its predecessor's hash with the payload, and that
  no two share a `prevHash`. Linearity follows: of two events at the same
  distance from the start both have the same ancestors. The invariant is needed
  because the tail a request has read is an arbitrary earlier state: only the
  unique index, at the time of the insert, keeps the line.
- `AuditServiceProofs` of appends: `InstanceInOrder` (`InstanceOrder`), `AckedStored`
  (`AckedOnce`), `OthersPayForRetries` (`RetriesPaidByOthers`). The order needs to be
  known of a request before its event is stored: calls of one instance hold places
  in its queue, whoever is not at the head has not read a tail, and what the head
  has read contains every event that its instance stored before. An acknowledged
  call is one whose event is stored in the epoch it looked up; a failed insert is
  explained by an event of another instance behind the tail that was read, and two
  failures of one call by two different events.
- `AuditServiceProofs` of verification and seals: `VerifiedExactly` (`VerifyExact`),
  `SealsLeaveTrail` (`SealTrail`), `LogImplemented` (`ImplementsLog`, the refinement
  of `AuditLog`). That verification, which walks from predecessor to successors,
  visits exactly the events at each distance from the start is shown by taking the
  least distance at which it does not (`WalkLevels`). The walk visits as many events
  as are stored just when every event has all its predecessors, and compares them
  with their digests up to the limit: that is `Intact`, in any epoch and for any
  limit. It needs only that the index on `prevHash` holds of damaged epochs, too
  (`OnePrev`: an edit keeps the link of an event). What is appended later leaves an
  event without predecessor where it is, so that it never hides a break. The seal's
  invariant says at each of its steps which of incident, successor and mark are
  there; that of an active epoch keeps the incident it was started for, because only
  the mark overwrites it.
- `DocumentLifecycleProofs!TypeCorrect`, `EvidenceKept` (`StatusEvidence`),
  `SerialImplements` (`ImplementsWorkflow` for one slot). `StatusEvidence` is not
  inductive alone: a transition that was checked carries the time it will write, so
  the invariant says that it is not 0, and for the chain of dates that ARCHIVED is
  only entered with `publishedAt` set. For the refinement the invariant (`Fresh`)
  says that a call still sees what it read, because there is no other slot, and each
  step is shown to be an abstract step or a stutter; that includes the calls that
  set a status directly, for which `DocumentWorkflow` asks the transition map only,
  and retention runs as of any day, which archive what is due by that day.
- `DocumentLifecycleProofs!SerialHistory` (`HistoryExplains` for one slot). Status
  and history row are written in one transaction, so a row is as old as its status;
  what it says it came from is what the call had read before. The invariant is
  `Fresh`, that this is still the status, together with the path itself: the rows
  lead from DRAFT to the present status, the trash and back from it included.
- `DocumentAccessProofs` of the decisions: `TypeCorrect`; `ListedAsRead` (`ListMatchesRead`),
  `WebDecidesAlike` (`WebAgrees`), `DownloadersRead`
  (`DownloadableIsReadable`), `SimulatedAsReal` (`SimulationExact`): these hold
  of every document of the type, so the type invariant is the inductive one,
  and each proof compares two rules level by level and role by role. `AiReadsAlike`
  (`AiReadsWhatUserReads`) is of this kind too. `ImpactTold` (`ImpactExact`): the
  simulation compares how many roles have a right before and after; that is exact
  because of any two levels the roles of one include those of the other.
- `DocumentAccessProofs!ReviewsTell` (`AccessReview!ReviewTells`). Whoever can download a
  sensitive document beside owner and admins has it on the reviewer's list, and by an
  entry that the page calls critical; the invariant says that a request under way has
  seen a moment without such a reader, or that there is one now.
- `DocumentAccessProofs` of what is handed out: `DeliveredFresh` (`FreshDelivery`),
  `DeliveredThroughWatermark` (`WatermarkAsked`), for any lifetimes, users, entries
  and number of calls. The invariant says what each holder knows: a call that has
  read the document, that what passes was permitted in the present unit of time; a
  grant, that it was permitted `GrantTime` before it expires; a URL, that it was
  permitted less than `UrlTime + GrantTime` before it expires. The step from the
  read of the document to the decision needs that a link never becomes usable again.
  `OpensCapped` (`OpensBounded`) counts instead: what was opened and the redemptions
  that have passed the check and not yet counted; `Slots` is finite for this.
- `DocumentVersionsProofs`: `VersionsTypeCorrect`; `NumbersContiguous`
  (`VersionsContiguous`) and `RowsKept` (`VersionsGrow`) without any further
  assumption; `FilesKept` (`FilesIntact`) and `StoresFiles` (the refinement
  `ImplementsFileStore`) under `OwnNames`, no name in two slots. For the numbers the
  invariant adds that no call that has passed the check holds a number above
  `currentVersion + 1`: what the unique index lets in is then the next number, also
  when its caller chose it. For the files it says that an upload owns its key until
  its version is registered: no row of an upload has it, no other upload has it, and
  what was stored under it is still there when the row is inserted; that the keys of
  the rows of uploads are those of past versions, so that a new upload's key is
  fresh; that a restore carries key, checksum and origin of a row; and that whoever
  registers a version without uploading it stores and deletes nothing. Of the rows
  that callers name nothing is promised: their key may be that of no object, or of
  one that is being removed (section 7, `UploadedFirst`). `OwnNames` is what the
  instance `overwritten` shows to be needed; and the theorems are about `Spec`,
  where no answer is lost (section 7 says what happens otherwise).
- `OrganizationProofs`: `OrgTypes`, `OrgStaleBounded` (`StaleBounded`). The invariant
  adds what an entry of a cache and a looked-up organization not yet written to one
  know: that the membership held when the lookup began, and how young they are. `MembersKept`
  (`MembershipKept`) and `OrphansDropped` (`OnlyOrphansDropped`): a request that has
  checked who is an admin or a member, and will write on the strength of it, saw what
  is still so, or another write has overtaken it and it is marked.
- `NotificationCenterProofs`: `NotifyTypes`; `NewestKept` (`PruneKeepsNewest`),
  `CapKept` (`CapHeld`), `MailsExplained` (`MailExplained`), `DirectoryTells`
  (`DirectoryExact`), `PageTellsTruth` (`PageTruth`). A prune deletes what it found
  before others deleted. The invariant says that what it found has `Cap` newer
  records still: the `Cap` newest of those are in nobody's list. For the cap it says
  that whichever of the prunes under way delete, no more is left than the cap and
  the other calls under way explain; this must be said of every set of them, since
  any of them may be next. For the mail it says that "no address" is believed of a
  user with an address no longer than `AddressTTL` after a lookup that failed or the
  last moment without one (`MailInv`). For the directory it says of each of the two
  answers who is in it, since a user may change from one role to the other between
  them. For the page it says that what a rollback would bring back shows as read
  what is not only if the two mutations have overlapped.
- `GatewayProofs`: `GatewayTypes`; `GatewayDecides` (`GateDecides`), `ToldWhatHappened`
  (`AnswersTell`), `SensitiveStaysFresh` (`SensitiveFresh`), `RolesRunOut`
  (`RolesNotOlder`), `OffersServed` (`OfferedIsServed`), for any tables that satisfy
  `TablesAssumption`, any users, requests and lifetimes. The invariant says of a
  request on its way that its caller has a role of the route; that what is left to do
  is the rest of one of its ways, with nothing behind a write that could be refused;
  that it was checked no longer ago than a request may last; that the proof it used
  is no newer than its phrase and its login; and of a token that its roles are held
  still or were lost after its login.

- `DocumentPageProofs`: `LibraryInvariant`; `BulkAccountedHolds` (`BulkAccounted`),
  `OwnActionsShownHolds` (`OwnActionsShown`), `PreviewShownHolds` (`PreviewShown`),
  `OffersInvariant`, `OffersGrantedHolds` (`OffersGranted`), `CountsInvariant`,
  `CountsAgreeHolds` (`CountsAgree`), for any documents, users, names, texts, tasks,
  page sizes and budgets. Nothing of this can be said of the page alone, since
  colleagues write meanwhile; so the invariant begins with the services: they only
  add (`Grows`), and the last change of a document led to its status. An answer is
  then true of the moment it tells of, for as long as it is kept. What the user was
  told of is in every answer that is served or shown and not given up, which is the
  invariant of the cache; it holds because the confirmation that could make an
  answer too old is the step that asks for it again. A task counts the documents it
  is done with, and as successes only such as were changed; a call whose answer is
  lost may have changed its document and counts as failed. Of the loads of a preview
  only the last is waited for, and the versions that are compared are in whatever
  answer arrives next, since one that was served later has no fewer. What is offered
  is decided on rows and on details: those that no write has overtaken are the
  stored document itself, so the rules of the page can be compared with the rules of
  the services; for the turn in a chain that also needs that chains name users only,
  wherever they are (stored, told of, drafted, on their way), since the page looks
  for the first step of the user and the service for the first one not decided. The
  numbers need no more of the state than `CountsInvariant`: rows of documents that
  can be listed, in the queue each once, a file only where there is a version, and
  filters that were read from a link. A folder lists those of its rows whose tags
  are `Filed`, without empty segments: for these the paths of the tree are the tags
  that its filter compares. The rest is about the operators: `Parse` of what
  `Serialize` wrote gives the filters back, so a tile's link lists what its filters
  match, and what one filter matches is the predicate that the tile counts by. The
  order of the queue is total on documents, so places are distinct, a page takes no
  more than `PageSize` of them, and the pages together show each row once and in
  order.

- `AuditServiceProofs` of the security page and the evidence center: `SecurityTypes`
  (`SecurityTypeOK`), `OwnSaveShownHolds` (`OwnSaveShown`), `DrillDownCoversHolds`
  (`DrillDownCovers`), `CasesMatchPostureHolds` (`CasesMatchPosture`),
  `ExportsAreWholeHolds` (`ExportsAreWhole`), for any officers, requests, actors,
  documents, thresholds of samples and lists, scenarios and budgets.
  `SecurityInvariant` (with one lemma per action) says what was there when it was
  read: the three moments of a request or a summary are prefixes of the log; a save
  that was written, and the update a packet is asked for, are entries of the log; a
  page waits only for a request of its own, which has not read the workflows before
  the saves it must show; a grant that was asked for and not had yet is on a page still
  to come, because what is stored later can only push it to a later page; a history
  has the update it was asked for, unless it is full of later ones. The rest is about
  what is computed from a log. Every list of the
  model is a set in a total order (`Ranked`), so it has each element once and at the
  place that the elements before it give (`RankedFacts`); that replaces the induction
  over lists. From there: a recommendation is about one thing once, its events pass its
  filter; each alert, segment and counter is compared with the
  recommendation or the row that has the same origin, which needs the thresholds of
  the service and those of the web side by side. `AnalysisAssumption` says that actors and
  documents are finitely many, as they are in a collection that has finitely many events.
  These proofs are in one module with those of `AuditChain`: both are of
  audit-service, whose log the pages read.

**Only model-checked**: liveness, which is out of the prover's reach: `RequestsEnd`,
`RetentionHappens` and `NoOrphanStays` of the runs, and the statements of sections 3 and
4 that need fairness. Every other property of a run is stated by a theorem;
`HistoryExplains` and `ImplementsWorkflow` for calls that do not overlap, as in their run
(section 7 has what happens otherwise).

## 6. Findings

`PROJECT.json` lists none as runs of their own: every run of the project is one
that passes. What the models refute of the repository's own sentences is in the
next section, with the way to see each counterexample.

## 7. Further statements the model refutes

These came up while modelling, and are stated as definitions in the modules. Each
is refuted on the named instance: take the `.cfg`, replace its INVARIANTS and
PROPERTIES by the statement (as PROPERTY when it begins with `[]`), change the
constants that are given, and TLC prints the counterexample. Three `.cfg` files
that no run uses are kept for this: `AuditChain_stale_epoch`,
`DocumentLifecycle_double_approval` and `DocumentVersions_overwritten`.

| statement | source | what happens instead | instance |
|---|---|---|---|
| `AuditChain!OneActiveEpoch`: at most one epoch is active | the epoch design document, 25-26 | two overlapping seals of one chain each start a successor | `stale_epoch`, `MaxEpochs = 2` |
| `AuditChain!AppendsToActive` without faults | same, 95 | an append keeps the epoch it looked up through its retries and a seal (audit.service.ts:280) | `stale_epoch` |
| `AuditChain!EditsDetected`: an edit is found | docs/API_CONTRACT.md:516 | only the first `limit` events are re-hashed (audit.service.ts:1738) | `stale_epoch`, `VerifyLimit = 1`, `MaxEpochs = 0` |
| `DocumentLifecycle!StepInTurn` | workflow.service.ts:78-79 | two requests of one approver advance the chain twice (documents.service.ts:812) | `double_approval` |
| `DocumentLifecycle!ChainComplete` | metadata.proxy.controller.ts:634 | a rejected and resubmitted document is published by its last approver alone: the step outlives the rejection | `double_approval`, `Slots = {1}`, `MaxHistory = 6`, `Users = {owner, amy, bob}`, `Approvers = {amy, bob}`, `Chains <- InOrder` |
| `DocumentLifecycle!ApprovalInTurn` | workflow.service.ts:78-79 | an approval checked before a chain was set is written after it | `races`, `Users = {owner, amy, bob}`, `Approvers = {amy, bob}`, `Admins = {}`, `Direct = {}`, `AsOf = {}`, `Chains <- InOrder` |
| `DocumentLifecycle!PublishedIsScanned` | retention.service.ts:83 | an approval checked before another one publishes is written after the document was archived: it is PUBLISHED with `archivedAt` set, and no scan finds it again | `races` |
| `DocumentLifecycle!TransitionsLegal` | docs/ERD.md | two transitions checked against one status are both written by id | `races` |
| `DocumentLifecycle!HoldRespected` | documents.service.ts:578-579 | a hold placed after the scan of the job does not stop it (retention.service.ts:277) | `races`, `Direct = {}`, `AsOf = {}`, `MaxTime = 4`, `MaxHistory = 4` |
| `DocumentLifecycle!PurgeOnlyExpired` | documents.service.ts:821 | a document restored after the scan is purged (documents.service.ts:852) | `races`, `Users = {owner}`, `Approvers = {}`, `Admins = {}`, `Direct = {}`, `AsOf = {}`, `MaxTime = 4`, `MaxHistory = 4` |
| `DocumentLifecycle!EveryTransitionRecorded` | docs/ERD.md:327 | restoring from the trash leaves no history row (documents.service.ts:730) | `serial` |
| `DocumentVersions!OrphansOnly` | document-service documents.service.ts:151 | when the answer of metadata-service is lost, or the name is the same, the rollback deletes a registered file | `overwritten`; for a lost answer with `Slots = {1}`, `NamesOf <- OwnName`, `MaxFaults = 1` and `SPECIFICATION LossySpec` |
| `DocumentVersions!ChecksumOfFile` with equal names | docs/ERD.md:106 | the file of one upload, the checksum of another | `overwritten` |
| `DocumentVersions!UploadedFirst` | metadata.proxy.controller.ts:693 | nobody looks whether the key that a caller registers is that of an object | `uploads` |
| `DocumentVersions!DlpReflectsCurrent` | versions.service.ts:80-83 | restoring leaves the scan result as it was (227) | `uploads` |
| `DocumentVersions!DetectedConfidential` | metadata-service documents.service.ts:361 | a downgrade checked before a detection is written after it (421) | `uploads` |
| `DocumentVersions!EscalatesOnly` | versions.service.ts:88-89 | SECRET becomes CONFIDENTIAL when a reclassification overlaps (91) | `uploads` |
| `AccessPolicy!DownloadImpliesRead` | policy.service.ts:428-429 | a READ denial does not keep a reader with a DOWNLOAD entry from downloading | `policy` |
| `AccessReview!ReviewSeesAll` | access-review/page.tsx:188 | an entry that denies READ to the reviewer's role hides the document from the review | `policy` |
| `AccessReview!ReviewLoads` | access-review/page.tsx:78 | one detail that is refused or gone fails the review of all, always for an approver who is also a compliance officer while a document is PENDING | `policy` |
| `DocumentAccess!SensitiveStamped` | document-service documents.service.ts:188 | what is not a PDF, or fails to be processed as one, is returned as it is (watermark.service.ts:29-51) | `access` |
| `DocumentAccess!PreviewUnmarked` | documents.proxy.controller.ts:163 | the preview of a sensitive PDF is stamped | `access` |
| `DocumentAccess!AccessCapped` | create-share-link.dto.ts:32 | redemptions that overlap exceed the cap; by how many, `OpensBounded` says | `access` |
| `DocumentAccess!RedeemGivesAccess` | document-share-links.service.ts:173 | the redemption that reaches the cap opens nothing | `access` |
| `Organization!AdminAlways` | org.service.ts:311 | adding the only admin again as a member demotes them | `org` |
| `Notifications!OwnerTold`, `StoredBySub` | workflow-service notification.client.ts | archiving tells its actor, not the owner; a mention is stored under the name that was written | `notify` |
| `NotificationCenter!BadgeCounts` | notification.controller.ts:54 | the unread count has no guard and counts for a recipient `anonymous`: the badge is 0 | `notify` |
| `NotificationCenter!BellTruth`, `PageNeverAhead` | notifications/page.tsx:138 | a failed call leaves the bell's record shown as read; overlapping roll-backs resurrect each other's change on the page | `notify` |
| `Gateway!LimitPerUser` | libs/throttler/src/throttler.constants.ts:6 | the limit counts by address, which all users of the web application share | `gateway` |
| `SecurityCenter!FindingsAreRecent` | security-dashboard.ts:375 | the panel a malware alert leads to has the newest six findings only | `security` |
| `SecurityCenter!WindowExact` | web audit.api.ts:84 | an event that arrives between two pages is counted twice | `security` |
| `SecurityCenter!BarsLead` | security/page.tsx:2555 | the list parameters of a bar are refused with 400, and left out when empty, so that an empty bar opens the whole audit page | `security` |
| `SecurityCenter!DrillDownCoversBursts` | audit.service.ts:1475 | a burst counts failed downloads that its link does not list | `security` |
| `SecurityCenter!PagePacketTrail`, `NothingRecorded` | security/page.tsx:1245 | a kept history is older than the state beside it | `security` |
| `SecurityCenter!PlaybookDone` | security-dashboard.ts:1568 | a light review goes from open to resolved, and "reviewed" is ticked | `security` |
| `SecurityCenter!CaseHasEvidence` | security-dashboard.ts:1515 | a warning that was resolved stays resolved when it becomes critical | `security` |
| `SecurityCenter!HealthyIsQuiet` | security-dashboard.ts:1342 | a recommendation without any alert | `security` |
| `SecurityCenter!ViewsApart` | audit.service.ts:1300 | two requests look before either has recorded | `security` |
| `DocumentPage!EveryCountAgrees` | docs/de_xuat_tinh_nang_hoc_hoi_tu_app_khac.md:14 | `has:legal-hold` is suggested and never matches | `library` |
| `DocumentPage!FoldersListed` | folder-tree.ts:24-26 | a row tagged `/finance` is counted in `finance` (52), which does not list it (16) | `library` |
| `DocumentPage!ToldOnce` | activity-feed.ts:52-53 | the audit events to be left out are not named as the services name them (27; status.service.ts:129): who may read the audit log sees each change twice | `library` |
| `DocumentPage!EveryActionShown` | workflow.hooks.ts:20 | an answer that was on its way when nobody looked marks an old list as fresh; the queue is not fetched again after a decision in a dialog of the list | `library` |

What a reader of the code may want to know beside these, each seen while modelling:

*Services.* Two differences between copies of the rules are outside of the
properties' hypotheses: a user who is both approver and compliance officer sees
PENDING documents in the list that `assertCanReadMetadata` then refuses, and a
DELETED document may be previewed according to metadata-service but not according to
the web application (`ListMatchesRead` and `WebAgrees` say so in their comments).
One race that looks dangerous is not: a link only ever becomes less usable (revoked,
expired, spent), so a link that is active at the decision was active when the
document was read. The preview route drops `shareToken` and `Range`; the gateway's
notification list drops `page` and `limit`. A step-up proof may serve any number of
requests within its life. The web sends list parameters (`actorIds`, `documentIds`,
...; web audit.api.spec.ts:173-201) that `QueryAuditDto` with `forbidNonWhitelisted`
answers with 400. The id of a recommendation changes when repeated denials escalate
to a burst, so that its workflow starts again. A window's count and find are two
reads. No record of the length of an epoch is kept, so the loss of its newest events
is not found (`Intact`). The purge of the trash deletes rows and leaves their
objects in the store (metadata-service documents.service.ts:852); `NoOrphanStays` is
about uploads only. `repair-audit-chain.ts` relinks the events of all epochs into
one chain.

*Access review.* READ entries for users and groups on sensitive documents allow
previews and are not reviewed; an officer's review covers PUBLISHED and ARCHIVED
documents only; the entry card offers WRITE and APPROVE, which no decision reads.

*Security page and evidence center.* An OPEN recommendation is never overdue, and any
update pushes its due date. Six warnings score lower than one critical. Deadlines
are shown as of mount or refresh while exports carry the time of the click. A
retention that is due soon leaves a case `ready` with its section on `attention`.
The totals are of all time, so a posture never recovers. Two documents of one title
share a file name of packets. Empty segments of the charts lead to the unfiltered
audit page. The window of grants and the quick filter of the audit page share a
query key with different fetchers. Documents of alerts are never rendered.

*Document pages.* The page number is not clamped when the list shrinks; a 409 does not
refresh the stale row; bulk actions invalidate neither the approval queue nor cached
details; approving a step that is not the last reports "approved and published";
segments of the lifecycle show PENDING to everybody; the folder tree counts nested
tags only while its filter lists plain ones too; due times are taken from the last
write and from a clock fixed at mount; the timer of a bulk action outlives its page;
the delete dialog says "cannot be undone" although the trash restores; the chain card
says "Awaiting approval" of archived and rejected documents, and its editor is offered
after the first approval although the service then refuses; the drawer offers both
decisions on the row it was opened with; a restored version's scan is not shown; a
file too large for its viewer is announced as supported.

*Sessions* (not modelled): a refresh that is under way when another tab logs out or
in may bring the old session back; the login state cookie is overwritten by a second
tab; the retry after a 401 has no bound.

## 8. Not modelled

- Comments, saved views and tags: rows that one user changes, one statement each.
- Scanners: content analysis; their verdicts are inputs of `DocumentVersions`. The
  rendering of a watermark; whether there is one is in `DocumentAccess`.
- Audit clients of the services: one best-effort call per event; `AuditChain` takes
  the calls as its inputs.
- Signatures of grants, proofs and tokens: taken as sound; Keycloak, MongoDB,
  PostgreSQL and the object store by what the code relies on (unique indexes,
  transactions, reads of single rows).
- The bodies a route forwards, markup, wording, and the geometry of charts.
- The session of the browser (refresh, cookies), profile, settings, members and demo
  pages, the form of a new document, date ranges of the filters.
- Deployment files, seeds, repair and demo scripts, vendored agent skills.

## 9. Plan

Done: all modules of section 2. Left, most useful first:

1. The session of the browser beside `Gateway`: tabs that share cookies, refresh and
   logout that overlap.
2. Retention classes in `DocumentLifecycle`: the period computed from a
   classification read before the transaction.
3. The repair script beside appends, on top of `AuditChain`.
