----------------------------- MODULE AuditChain -----------------------------
(***************************************************************************)
(* The hash-chained audit log of audit-service.                            *)
(*                                                                         *)
(* Several instances of the service share one MongoDB.  Each instance      *)
(* funnels its appends through an in-process promise queue (chainLock);    *)
(* across instances the chain is linearized by the unique index            *)
(* (epochId, prevHash) and a bounded retry loop.  When verification finds  *)
(* the active chain broken, an administrator seals its epoch and starts a  *)
(* new one, in a sequence of unprotected database writes.                  *)
(*                                                                         *)
(* A process is one request being served by one instance: an append        *)
(* (AuditService.create) or a seal (sealCompromisedChainAndStartEpoch).    *)
(* Every await on the database is a step of its own.                       *)
(*                                                                         *)
(* SHA-256 is taken to be collision free, so the hash of an event is       *)
(* represented by what it digests: the hash of its predecessor extended    *)
(* with its own canonical payload.  A missing prevHash is the empty        *)
(* sequence.                                                               *)
(***************************************************************************)
EXTENDS Naturals, Sequences, FiniteSets

CONSTANTS
    Procs,        \* requests that can be in flight at the same time
    Instances,    \* running copies of audit-service
    InstanceOf,   \* the instance that serves each request slot
    MaxAttempts,  \* MAX_CHAIN_APPEND_ATTEMPTS
    VerifyLimit,  \* how many events verifyChain re-hashes
    MaxEvents,    \* bound: audit events submitted by the other services
    MaxEpochs,    \* bound: seals ever requested
    MaxFaults,    \* bound: crashes and failed database calls
    MaxDamage,    \* bound: stored events changed behind the service's back
    Damaged       \* the payload of an event that was edited in the database

ASSUME ConstantsAssumption ==
    /\ InstanceOf \in [Procs -> Instances]
    /\ MaxAttempts \in Nat \ {0}
    /\ VerifyLimit \in Nat
    /\ MaxEvents \in Nat
    /\ MaxEpochs \in Nat
    /\ MaxFaults \in Nat
    /\ MaxDamage \in Nat

DefaultEpoch == 0
EpochIds == 0 .. MaxEpochs

(***************************************************************************)
(* The canonical payload of an event: a fresh identity (randomUUID; here   *)
(* the number of the create() call), the request it came from, and, for    *)
(* AUDIT_CHAIN_EPOCH_STARTED, the epoch it announces (0 for every other    *)
(* event).                                                                 *)
(***************************************************************************)
Body == [n : Nat \ {0}, by : Procs, starts : EpochIds]

ASSUME DamagedAssumption == Damaged \notin Body

Hash == Seq(Body)
Event == [body : Body \cup {Damaged}, prev : Hash, hash : Hash]

NoBody == [n |-> 0]

VARIABLES
    events,     \* audit_events: the stored events of each epoch
    epochs,     \* audit_chain_epochs
    incidents,  \* audit_chain_incidents
    queue,      \* chainLock of each instance, oldest request first
    proc,       \* the local state of each request
    calls,      \* calls of create() so far
    seals,      \* seals requested so far
    clock,      \* time, as far as seals read it
    acked,      \* appends whose caller was told they are stored
    damaged,    \* epochs one of whose stored events was changed
    faults,     \* crashes and failed calls so far
    damages     \* stored events changed so far

vars == <<events, epochs, incidents, queue, proc, calls, seals, clock, acked,
          damaged, faults, damages>>

idle == [pc |-> "idle", op |-> "append", body |-> NoBody, epoch |-> 0,
         prev |-> <<>>, tries |-> 0, seal |-> 0, now |-> 0]

NoEpoch == [status |-> "ABSENT", startedAt |-> 0, previous |-> 0, incident |-> 0]

Init ==
    /\ events = [e \in EpochIds |-> {}]
    /\ epochs = [e \in EpochIds |-> NoEpoch]
    /\ incidents = {}
    /\ queue = [i \in Instances |-> <<>>]
    /\ proc = [p \in Procs |-> idle]
    /\ calls = 0
    /\ seals = 0
    /\ clock = 0
    /\ acked = {}
    /\ damaged = {}
    /\ faults = 0
    /\ damages = 0

-----------------------------------------------------------------------------
(* Reading the collections *)

ActiveEpochs == {e \in EpochIds : epochs[e].status = "ACTIVE"}

(* findOne({status: 'ACTIVE'}).sort({startedAt: -1, _id: -1}) *)
LatestActive(e) ==
    /\ e \in ActiveEpochs
    /\ \A f \in ActiveEpochs :
            \/ epochs[f].startedAt < epochs[e].startedAt
            \/ epochs[f].startedAt = epochs[e].startedAt /\ f <= e

(* The events whose hash no other event of the epoch refers to. *)
Tails(evs) == {ev \in evs : \A other \in evs : other.prev # ev.hash}

(* Mutant: the collection has no unique index. *)
NoUniqueIndex(e, prev) == FALSE

(* What the unique index on (epochId, prevHash) rejects. *)
PrevHashTaken(e, prev) == \E ev \in events[e] : ev.prev = prev

(***************************************************************************)
(* verifyChain.  orderEventsByChain walks from the genesis event along     *)
(* prevHash; level k of the walk holds the events reached after k hops.    *)
(* It fails unless the walk is a single line through all events.  Then the *)
(* first limit events are re-hashed by verifyEventSequence.                *)
(***************************************************************************)
Walk(evs) ==
    LET level[k \in 0 .. Cardinality(evs)] ==
            IF k = 0 THEN {ev \in evs : ev.prev = <<>>}
            ELSE {ev \in evs : \E before \in level[k - 1] : ev.prev = before.hash}
    IN  level

(* Mutant: events the walk does not reach are not looked for. *)
ReachedOnly(evs) ==
    \A k \in 0 .. Cardinality(evs) - 1 : Cardinality(Walk(evs)[k]) <= 1

SingleLine(evs) ==
    LET level == Walk(evs)
        last == Cardinality(evs) - 1
    IN  /\ \A k \in 0 .. last : Cardinality(level[k]) = 1
        /\ UNION {level[k] : k \in 0 .. last} = evs

HashesMatch(evs, limit) ==
    LET level == Walk(evs)
    IN  \A k \in 0 .. Cardinality(evs) - 1 :
            k < limit =>
                \A ev \in level[k] : ev.hash = Append(ev.prev, ev.body)

VerifyChain(evs, limit) == SingleLine(evs) /\ HashesMatch(evs, limit)

-----------------------------------------------------------------------------
(* The in-process queue of an instance *)

(* Mutant: appends of one instance do not wait for each other. *)
NoChainLock(p) == \E k \in DOMAIN queue[InstanceOf[p]] : queue[InstanceOf[p]][k] = p

AtHead(p) ==
    LET q == queue[InstanceOf[p]] IN q # <<>> /\ Head(q) = p

(* Mutant: a rejected append is never taken off the chain of promises. *)
ReleasedOnSuccess(p) ==
    IF AtHead(p) /\ proc[p].pc = "insert"
    THEN [queue EXCEPT ![InstanceOf[p]] = Tail(@)]
    ELSE queue

(* A finished append resolves or rejects; either way the next one may run. *)
Released(p) ==
    IF AtHead(p)
    THEN [queue EXCEPT ![InstanceOf[p]] = Tail(@)]
    ELSE queue

Finish(p) ==
    /\ proc' = [proc EXCEPT ![p] = idle]
    /\ queue' = Released(p)

Goto(p, pc) == proc' = [proc EXCEPT ![p].pc = pc]

(***************************************************************************)
(* create(dto): the event is given its identity and joins chainLock.       *)
(***************************************************************************)
Create(p) ==
    /\ proc[p].pc = "idle"
    /\ calls < MaxEvents
    /\ calls' = calls + 1
    /\ proc' = [proc EXCEPT ![p] =
                    [idle EXCEPT !.pc = "queued",
                                 !.body = [n |-> calls + 1, by |-> p, starts |-> 0]]]
    /\ queue' = [queue EXCEPT ![InstanceOf[p]] = Append(@, p)]
    /\ UNCHANGED <<events, epochs, incidents, seals, clock, acked, damaged, faults, damages>>

(***************************************************************************)
(* getActiveEpochRecord: find the active epoch; when there is none create  *)
(* 'default'; when another instance created it first, look again and fall  *)
(* back to 'default' if there is still none.                               *)
(***************************************************************************)
EpochFound(p, e) ==
    proc' = [proc EXCEPT ![p].epoch = e,
                         ![p].pc = IF proc[p].op = "seal" THEN "verify" ELSE "tail"]

FindActiveEpoch(p) ==
    /\ \/ proc[p].pc = "seal"
       \/ proc[p].pc = "queued" /\ AtHead(p)
    /\ \/ \E e \in EpochIds : LatestActive(e) /\ EpochFound(p, e)
       \/ ActiveEpochs = {} /\ Goto(p, "mkepoch")
    /\ UNCHANGED <<events, epochs, incidents, queue, calls, seals, clock, acked, damaged, faults, damages>>

CreateDefaultEpoch(p) ==
    /\ proc[p].pc = "mkepoch"
    /\ IF epochs[DefaultEpoch].status = "ABSENT"
       THEN /\ epochs' = [epochs EXCEPT ![DefaultEpoch].status = "ACTIVE"]
            /\ EpochFound(p, DefaultEpoch)
       ELSE /\ Goto(p, "refetch")
            /\ UNCHANGED epochs
    /\ UNCHANGED <<events, incidents, queue, calls, seals, clock, acked, damaged, faults, damages>>

RefetchActiveEpoch(p) ==
    /\ proc[p].pc = "refetch"
    /\ \/ \E e \in EpochIds : LatestActive(e) /\ EpochFound(p, e)
       \/ ActiveEpochs = {} /\ EpochFound(p, DefaultEpoch)
    /\ UNCHANGED <<events, epochs, incidents, queue, calls, seals, clock, acked, damaged, faults, damages>>

(***************************************************************************)
(* getCurrentChainTail: the single event nobody refers to, or null for an  *)
(* empty epoch.  Any other number of tails makes the append fail with 503. *)
(***************************************************************************)
ReadTail(p) ==
    /\ proc[p].pc = "tail"
    /\ LET evs == events[proc[p].epoch] IN
        \/ /\ evs = {}
           /\ proc' = [proc EXCEPT ![p].pc = "insert", ![p].prev = <<>>]
        \/ /\ Cardinality(Tails(evs)) = 1
           /\ \E tail \in Tails(evs) :
                proc' = [proc EXCEPT ![p].pc = "insert", ![p].prev = tail.hash]
    /\ UNCHANGED <<events, epochs, incidents, queue, calls, seals, clock, acked, damaged, faults, damages>>

TailAmbiguous(p) ==
    /\ proc[p].pc = "tail"
    /\ events[proc[p].epoch] # {}
    /\ Cardinality(Tails(events[proc[p].epoch])) # 1
    /\ Finish(p)
    /\ UNCHANGED <<events, epochs, incidents, calls, seals, clock, acked, damaged, faults, damages>>

NewEvent(p) == [body |-> proc[p].body, prev |-> proc[p].prev,
                hash |-> Append(proc[p].prev, proc[p].body)]

Store(p) ==
    events' = [events EXCEPT ![proc[p].epoch] = @ \cup {NewEvent(p)}]

(* The insert succeeds and the saved event is returned to the caller. *)
Insert(p) ==
    /\ proc[p].pc = "insert"
    /\ ~PrevHashTaken(proc[p].epoch, proc[p].prev)
    /\ Store(p)
    /\ acked' = acked \cup {[epoch |-> proc[p].epoch, body |-> proc[p].body]}
    /\ Finish(p)
    /\ UNCHANGED <<epochs, incidents, calls, seals, clock, damaged, faults, damages>>

(* Mutant: a duplicate key is taken for the caller's own earlier insert. *)
DuplicateIsSuccess(p) ==
    /\ proc[p].pc = "insert"
    /\ PrevHashTaken(proc[p].epoch, proc[p].prev)
    /\ acked' = acked \cup {[epoch |-> proc[p].epoch, body |-> proc[p].body]}
    /\ Finish(p)
    /\ UNCHANGED <<events, epochs, incidents, calls, seals, clock, damaged, faults, damages>>

(* E11000 on prevHash: back off and read the new tail, or give up with 503. *)
DuplicatePrevHash(p) ==
    /\ proc[p].pc = "insert"
    /\ PrevHashTaken(proc[p].epoch, proc[p].prev)
    /\ IF proc[p].tries + 1 < MaxAttempts
       THEN /\ proc' = [proc EXCEPT ![p].pc = "tail", ![p].tries = @ + 1]
            /\ UNCHANGED queue
       ELSE Finish(p)
    /\ UNCHANGED <<events, epochs, incidents, calls, seals, clock, acked, damaged, faults, damages>>

-----------------------------------------------------------------------------
(* sealCompromisedChainAndStartEpoch *)

Seal(p) ==
    /\ proc[p].pc = "idle"
    /\ seals < MaxEpochs
    /\ seals' = seals + 1
    /\ proc' = [proc EXCEPT ![p] =
                    [idle EXCEPT !.pc = "seal", !.op = "seal", !.seal = seals + 1]]
    /\ UNCHANGED <<events, epochs, incidents, queue, calls, clock, acked, damaged, faults, damages>>

(* A valid chain is not sealed: the request ends with 400. *)
RefuseSeal(p) ==
    /\ proc[p].pc = "verify"
    /\ VerifyChain(events[proc[p].epoch], VerifyLimit)
    /\ Finish(p)
    /\ UNCHANGED <<events, epochs, incidents, calls, seals, clock, acked, damaged, faults, damages>>

(* const now = new Date(), then the incident record. *)
CreateIncident(p) ==
    /\ proc[p].pc = "verify"
    /\ ~VerifyChain(events[proc[p].epoch], VerifyLimit)
    /\ clock' = clock + 1
    /\ incidents' = incidents \cup {[id |-> proc[p].seal, epoch |-> proc[p].epoch]}
    /\ proc' = [proc EXCEPT ![p].pc = "mark", ![p].now = clock + 1]
    /\ UNCHANGED <<events, epochs, queue, calls, seals, acked, damaged, faults, damages>>

(* Mutant: the damaged epoch is left as it was. *)
NotMarked(p) ==
    /\ proc[p].pc = "mark"
    /\ Goto(p, "newepoch")
    /\ UNCHANGED <<events, epochs, incidents, queue, calls, seals, clock, acked, damaged, faults, damages>>

(* updateOne({epochId: previousEpochId}): matches nothing if it is absent; the *)
(* incident that began the epoch, or an earlier one, is overwritten.           *)
MarkCompromised(p) ==
    /\ proc[p].pc = "mark"
    /\ epochs' = IF epochs[proc[p].epoch].status = "ABSENT" THEN epochs
                 ELSE [epochs EXCEPT ![proc[p].epoch].status = "COMPROMISED",
                                     ![proc[p].epoch].incident = proc[p].seal]
    /\ Goto(p, "newepoch")
    /\ UNCHANGED <<events, incidents, queue, calls, seals, clock, acked, damaged, faults, damages>>

(* The new epoch, then the announcement, which goes through create(). *)
StartEpoch(p) ==
    /\ proc[p].pc = "newepoch"
    /\ epochs' = [epochs EXCEPT ![proc[p].seal] =
            [status |-> "ACTIVE", startedAt |-> proc[p].now,
             previous |-> proc[p].epoch, incident |-> proc[p].seal]]
    /\ proc' = [proc EXCEPT ![p] =
            [idle EXCEPT !.pc = "queued",
                         !.body = [n |-> calls + 1, by |-> p, starts |-> proc[p].seal]]]
    /\ calls' = calls + 1
    /\ queue' = [queue EXCEPT ![InstanceOf[p]] = Append(@, p)]
    /\ UNCHANGED <<events, incidents, seals, clock, acked, damaged, faults, damages>>

-----------------------------------------------------------------------------
(* Faults *)

(* A database call rejects and the request ends with an error. *)
DbError(p) ==
    /\ proc[p].pc # "idle"
    /\ proc[p].pc = "queued" => AtHead(p)
    /\ faults < MaxFaults
    /\ faults' = faults + 1
    /\ Finish(p)
    /\ UNCHANGED <<events, epochs, incidents, calls, seals, clock, acked, damaged, damages>>

(* The insert is applied but its acknowledgement is lost. *)
InsertUnacknowledged(p) ==
    /\ proc[p].pc = "insert"
    /\ ~PrevHashTaken(proc[p].epoch, proc[p].prev)
    /\ faults < MaxFaults
    /\ faults' = faults + 1
    /\ Store(p)
    /\ Finish(p)
    /\ UNCHANGED <<epochs, incidents, calls, seals, clock, acked, damaged, damages>>

(* An instance restarts: its queue and its requests are gone. *)
Crash(i) ==
    /\ faults < MaxFaults
    /\ \E p \in Procs : InstanceOf[p] = i /\ proc[p].pc # "idle"
    /\ faults' = faults + 1
    /\ proc' = [p \in Procs |-> IF InstanceOf[p] = i THEN idle ELSE proc[p]]
    /\ queue' = [queue EXCEPT ![i] = <<>>]
    /\ UNCHANGED <<events, epochs, incidents, calls, seals, clock, acked, damaged, damages>>

(* updateOne({_id}, {$set: {reason}}): a stored event is edited. *)
EditEvent(e, ev) ==
    /\ damages < MaxDamage
    /\ ev.body # Damaged
    /\ events' = [events EXCEPT ![e] = (@ \ {ev}) \cup {[ev EXCEPT !.body = Damaged]}]
    /\ damaged' = damaged \cup {e}
    /\ damages' = damages + 1
    /\ UNCHANGED <<epochs, incidents, queue, proc, calls, seals, clock, acked, faults>>

(* A stored event is lost, the newest or any other. *)
LoseEvent(e, ev) ==
    /\ damages < MaxDamage
    /\ events' = [events EXCEPT ![e] = @ \ {ev}]
    /\ damaged' = damaged \cup {e}
    /\ damages' = damages + 1
    /\ UNCHANGED <<epochs, incidents, queue, proc, calls, seals, clock, acked, faults>>

-----------------------------------------------------------------------------
AppendStep(p) ==
    \/ FindActiveEpoch(p)
    \/ CreateDefaultEpoch(p)
    \/ RefetchActiveEpoch(p)
    \/ ReadTail(p)
    \/ TailAmbiguous(p)
    \/ Insert(p)
    \/ DuplicatePrevHash(p)

SealStep(p) ==
    \/ RefuseSeal(p)
    \/ CreateIncident(p)
    \/ MarkCompromised(p)
    \/ StartEpoch(p)

Fault ==
    \/ \E p \in Procs : DbError(p) \/ InsertUnacknowledged(p)
    \/ \E i \in Instances : Crash(i)
    \/ \E e \in EpochIds : \E ev \in events[e] : EditEvent(e, ev) \/ LoseEvent(e, ev)

Next ==
    \/ \E p \in Procs : Create(p) \/ Seal(p) \/ AppendStep(p) \/ SealStep(p)
    \/ Fault

Spec == Init /\ [][Next]_vars
FairSpec == Spec /\ \A p \in Procs : WF_vars(AppendStep(p) \/ SealStep(p))
-----------------------------------------------------------------------------
(* Properties *)

Pcs == {"idle", "queued", "seal", "mkepoch", "refetch", "tail", "insert",
        "verify", "mark", "newepoch"}

EpochType == [status : {"ABSENT", "ACTIVE", "COMPROMISED"}, startedAt : Nat,
              previous : EpochIds, incident : EpochIds]

ProcType == [pc : Pcs, op : {"append", "seal"}, body : Body \cup {NoBody},
             epoch : EpochIds, prev : Hash, tries : 0 .. MaxAttempts - 1,
             seal : EpochIds, now : Nat]

TypeOK ==
    /\ events \in [EpochIds -> SUBSET Event]
    /\ epochs \in [EpochIds -> EpochType]
    /\ incidents \subseteq [id : EpochIds, epoch : EpochIds]
    /\ queue \in [Instances -> Seq(Procs)]
    /\ proc \in [Procs -> ProcType]
    /\ calls \in Nat
    /\ seals \in 0 .. MaxEpochs
    /\ clock \in Nat
    /\ acked \subseteq [epoch : EpochIds, body : Body]
    /\ damaged \subseteq EpochIds
    /\ faults \in 0 .. MaxFaults
    /\ damages \in 0 .. MaxDamage

Trusted == EpochIds \ damaged

(* a is the log that ends with the earlier of two events of one chain. *)
Precedes(a, b) == Len(a.hash) <= Len(b.hash) /\ a.hash = SubSeq(b.hash, 1, Len(a.hash))

(***************************************************************************)
(* The chain of an epoch nobody damaged is one line: every event carries   *)
(* the hash of its predecessor and its payload, and of any two events one  *)
(* is an ancestor of the other.  This is what the unique index and the     *)
(* retry loop are for (audit.service.ts 304-308, audit-event.schema.ts).   *)
(***************************************************************************)
ChainLinear ==
    \A e \in Trusted : \A a, b \in events[e] :
        /\ a.hash = Append(a.prev, a.body)
        /\ Precedes(a, b) \/ Precedes(b, a)

(***************************************************************************)
(* What verification is to find: of every stored event, itself and all it  *)
(* is linked to are stored, and the first `limit` of them with the payload *)
(* that was digested.                                                      *)
(***************************************************************************)
Intact(evs, limit) ==
    \A ev \in evs : \A k \in 1 .. Len(ev.hash) :
        \E x \in evs : x.hash = SubSeq(ev.hash, 1, k) /\ (k <= limit => x.body = ev.hash[k])

VerifiedIsIntact ==
    \A e \in EpochIds : \A limit \in {VerifyLimit, Cardinality(events[e])} :
        /\ VerifyChain(events[e], limit) <=> Intact(events[e], limit)
        /\ e \in Trusted => VerifyChain(events[e], limit)

BreaksStay ==
    \A e \in EpochIds :
        damages' = damages =>
            /\ VerifyChain(events'[e], VerifyLimit) => VerifyChain(events[e], VerifyLimit)
            /\ VerifyChain(events'[e], Cardinality(events'[e])) =>
                  VerifyChain(events[e], Cardinality(events[e]))

(***************************************************************************)
(* verifyChain passes exactly the epochs in which every stored event still *)
(* has all its predecessors and those within the limit are unedited.       *)
(* Appends, retries, crashes and seals never make it fail in an epoch      *)
(* nobody damaged, and never hide a break: only the loss of more events    *)
(* can do that.  It does not see that the newest events are gone, unless   *)
(* an append has read them before and is linked to one of them             *)
(* (audit.service.ts 1732, 1764, 1865).                                    *)
(***************************************************************************)
VerifyExact == [][VerifiedIsIntact' /\ BreaksStay]_vars

(***************************************************************************)
(* An append that was acknowledged is in the chain of its epoch, once, and *)
(* in no other epoch, whatever retries and restarts came before.           *)
(***************************************************************************)
AckedOnce ==
    \A a \in acked : a.epoch \in Trusted =>
        \A e \in EpochIds :
            Cardinality({ev \in events[e] : ev.body = a.body}) =
                IF e = a.epoch THEN 1 ELSE 0

(***************************************************************************)
(* chainLock is a FIFO: the events of one instance are linked in the order *)
(* in which create() was called, even when some of them had to retry.      *)
(***************************************************************************)
InstanceOrder ==
    \A e \in Trusted : \A a, b \in events[e] :
        /\ InstanceOf[a.body.by] = InstanceOf[b.body.by]
        /\ a.body.n < b.body.n
        => Precedes(a, b)

(***************************************************************************)
(* chainLock eliminates intra-instance contention: every retry of an       *)
(* append is paid for by an event that another instance stored.            *)
(***************************************************************************)
RetriesPaidByOthers ==
    \A p \in Procs : proc[p].epoch \in Trusted =>
        proc[p].tries <=
            Cardinality({ev \in events[proc[p].epoch] :
                            InstanceOf[ev.body.by] # InstanceOf[p]})

(***************************************************************************)
(* A recovery epoch exists only after an incident of its predecessor was   *)
(* recorded and that was marked, wherever seals were interrupted and       *)
(* however they overlap; only an epoch whose events were damaged is ever   *)
(* marked.  The incident an epoch names is the one it was started for as   *)
(* long as it is active, and one of its own once it is marked              *)
(* (audit.service.ts 1641-1698).                                           *)
(***************************************************************************)
SealTrail ==
    \A e \in EpochIds :
        /\ e # DefaultEpoch /\ epochs[e].status # "ABSENT" =>
                /\ \E i \in incidents : i.epoch = epochs[e].previous
                /\ epochs[epochs[e].previous].status = "COMPROMISED"
        /\ e # DefaultEpoch /\ epochs[e].status = "ACTIVE" =>
                [id |-> epochs[e].incident, epoch |-> epochs[e].previous] \in incidents
        /\ epochs[e].status = "COMPROMISED" =>
                e \in damaged /\ [id |-> epochs[e].incident, epoch |-> e] \in incidents

(***************************************************************************)
(* The abstract log: what a caller of the service may rely on.             *)
(***************************************************************************)
LogOf(evs) ==
    IF evs = {} THEN <<>>
    ELSE (CHOOSE ev \in evs : \A other \in evs : Len(other.hash) <= Len(ev.hash)).hash

Log == INSTANCE AuditLog WITH
    log <- [e \in EpochIds |-> IF e \in damaged THEN <<>> ELSE LogOf(events[e])],
    trusted <- Trusted,
    Body <- [n : 1 .. MaxEvents + MaxEpochs, by : Procs, starts : EpochIds]

(* The appends of every trusted epoch implement the abstract log. *)
ImplementsLog == Log!Spec

(***************************************************************************)
(* One failed write never wedges the queue: every request that entered an  *)
(* instance ends, with a result or an error.                               *)
(***************************************************************************)
RequestsEnd == \A p \in Procs : proc[p].pc # "idle" ~> proc[p].pc = "idle"

(***************************************************************************)
(* As long as nothing fails and no stored event is damaged, every submitted *)
(* event ends up in the chain: the retry budget outlasts the contention of  *)
(* the other instances.                                                    *)
(***************************************************************************)
AppendsLand ==
    \A n \in 1 .. MaxEvents :
        calls >= n ~> (\E a \in acked : a.body.n = n) \/ faults > 0 \/ damaged # {}

(***************************************************************************)
(* What docs/superpowers/specs/2026-06-13-audit-chain-epoch-design.md and  *)
(* docs/API_CONTRACT.md say of epochs.                                     *)
(***************************************************************************)

(* "At most one epoch is active for new writes." (design, 25-26) *)
OneActiveEpoch == Cardinality(ActiveEpochs) <= 1

(* "create() appends only to the active epoch." (design, 95) *)
AppendsToActive ==
    [][\A e \in EpochIds :
            Cardinality(events'[e]) > Cardinality(events[e]) =>
                epochs[e].status = "ACTIVE"]_vars

(* "if stored audit events are edited directly, verification returns       *)
(* valid: false" (API_CONTRACT.md, 516).                                   *)
EditsDetected ==
    \A e \in damaged : ~VerifyChain(events[e], VerifyLimit)
=============================================================================
