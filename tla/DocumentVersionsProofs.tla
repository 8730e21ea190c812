------------------------ MODULE DocumentVersionsProofs ------------------------
(***************************************************************************)
(* The versions of a document, for any number of overlapping calls, of     *)
(* failures and of names: the version numbers have no gaps and no row is   *)
(* ever changed.  If no two slots upload under the same name, each version *)
(* that was uploaded keeps its file, too, whatever versions callers        *)
(* register themselves.                                                    *)
(***************************************************************************)
EXTENDS DocumentVersions, Sequences, TLAPS

(* The calls that may still write or delete the object under their key. *)
Uploading == {"storing", "registering", "inserting", "cleaning"}

Versioned == Uploading \cup {"answering", "restoring"}

(* What the type of a call says of its fields. *)
LEMMA CallFields ==
    ASSUME NEW r \in ReqTypes
    PROVE  /\ r.level \in Levels
           /\ r.pc \in Versioned =>
                 /\ r.version \in 1 .. MaxVersion /\ r.key \in Keys
                 /\ r.content \in Contents /\ r.dlp \in Scans /\ r.origin \in Origins
           /\ r.pc \in Versioned \cup {"classifying", "idle"}
           /\ r.pc \in {"classifying", "idle"} => r.version = 0
  BY DEF ReqTypes, UploadCalls, LevelCalls, idle, Uploading, Versioned, Origins, Levels, Rank

(* A call goes from one step to the next. *)
LEMMA CallGoes ==
    ASSUME NEW r \in ReqTypes, r.pc \in Uploading,
           NEW pc \in Uploading \cup {"answering"}
    PROVE  /\ [r EXCEPT !.pc = pc] \in ReqTypes
           /\ [r EXCEPT !.pc = pc].pc = pc
           /\ [r EXCEPT !.pc = pc].version = r.version
           /\ [r EXCEPT !.pc = pc].key = r.key
           /\ [r EXCEPT !.pc = pc].content = r.content
           /\ [r EXCEPT !.pc = pc].origin = r.origin
  BY DEF ReqTypes, UploadCalls, LevelCalls, idle, Uploading

(* A slot that serves no call. *)
LEMMA CallIdle == idle \in ReqTypes /\ idle.pc = "idle" /\ idle.version = 0
  BY DEF ReqTypes, idle

(* One slot serves its call, the others keep theirs. *)
LEMMA BusyOne ==
    ASSUME req \in [Slots -> ReqTypes], NEW s \in Slots, NEW r \in ReqTypes, Busy(s, r)
    PROVE  /\ req' \in [Slots -> ReqTypes]
           /\ req'[s] = r
           /\ \A t \in Slots : t # s => req'[t] = req[t]
  BY DEF Busy

(* Keys of the next version, and of two names. *)
LEMMA KeyType ==
    ASSUME NEW v \in 1 .. MaxVersion, NEW n \in Names
    PROVE  /\ Key(v, n) \in Keys
           /\ Key(v, n).version = v /\ Key(v, n).name = n
  BY DEF Key, Keys

(* The bound on uploads leaves a number for the next version. *)
LEMMA NextNumber ==
    ASSUME VersionsAssumption, TypeOK, current < MaxVersion
    PROVE  current + 1 \in 1 .. MaxVersion
  BY DEF TypeOK, VersionsAssumption

LEMMA ScanType == ASSUME NEW c PROVE Scan(c) \in Scans
  BY DEF Scan, Scans

(* The initial state has the right shape. *)
LEMMA InitType == ASSUME VersionsAssumption, Init PROVE TypeOK
  <1>1. current \in 0 .. MaxVersion /\ faults \in Nat
    BY DEF Init, VersionsAssumption
  <1>2. dlp \in Scans /\ level \in Levels /\ overridden \in BOOLEAN
    BY DEF Init, Scans
  <1>3. versions \subseteq RowType
    BY DEF Init
  <1>4. blobs \in [Keys -> Contents \cup {None}]
    BY DEF Init
  <1>5. req \in [Slots -> ReqTypes]
    BY CallIdle DEF Init
  <1> QED
    BY <1>1, <1>2, <1>3, <1>4, <1>5 DEF TypeOK

-----------------------------------------------------------------------------
(* What each kind of step does to the calls. *)
LEMMA UploadOne ==
    ASSUME VersionsAssumption, TypeOK, NEW s \in Slots, NEW n \in NamesOf[s],
           NEW c \in Contents, Upload(s, n, c)
    PROVE  /\ req' \in [Slots -> ReqTypes]
           /\ req'[s].pc = "storing" /\ req'[s].version = current + 1
           /\ req'[s].key \in Keys
           /\ req'[s].key.version = current + 1 /\ req'[s].key.name = n
           /\ req'[s].origin = "upload"
           /\ \A t \in Slots : t # s => req'[t] = req[t]
  <1>1. n \in Names
    BY DEF VersionsAssumption
  <1>2. current + 1 \in 1 .. MaxVersion
    BY NextNumber DEF Upload
  <1>3. PICK k \in Keys : k = Key(current + 1, n) /\ k.version = current + 1 /\ k.name = n
    BY <1>1, <1>2, KeyType
  <1>4. PICK d \in Scans : d = Scan(c)
    BY ScanType
  <1>5. PICK q : /\ q = [idle EXCEPT !.pc = "storing", !.version = current + 1,
                                     !.key = k, !.content = c, !.dlp = d, !.origin = "upload"]
                 /\ Busy(s, q)
    BY <1>3, <1>4 DEF Upload
  <1>6. q \in UploadCalls
    BY <1>2, <1>5 DEF UploadCalls, idle, Levels, Rank, Origins
  <1>7. q.pc = "storing" /\ q.version = current + 1
    BY <1>5 DEF idle
  <1>8. q.key = k /\ q.origin = "upload"
    BY <1>5 DEF idle
  <1>9. q \in ReqTypes /\ req \in [Slots -> ReqTypes]
    BY <1>6 DEF ReqTypes, TypeOK
  <1>10. /\ req' \in [Slots -> ReqTypes] /\ req'[s] = q
         /\ \A t \in Slots : t # s => req'[t] = req[t]
    BY <1>5, <1>9, BusyOne
  <1> QED
    BY <1>3, <1>7, <1>8, <1>10

(* A caller registers a version without uploading a file. *)
LEMMA RegisterOne ==
    ASSUME VersionsAssumption, TypeOK, NEW s \in Slots, NEW claim \in Claims, Register(s, claim)
    PROVE  /\ req' \in [Slots -> ReqTypes]
           /\ req'[s].pc = "registering" /\ req'[s].origin = "caller"
           /\ \A t \in Slots : t # s => req'[t] = req[t]
  <1>1. /\ claim.version \in 1 .. MaxVersion /\ claim.key \in Keys
        /\ claim.checksum \in Contents /\ claim.dlp \in Scans
    BY DEF VersionsAssumption, Keys, Scans
  <1>2. PICK q : /\ q = [idle EXCEPT !.pc = "registering", !.version = claim.version,
                                     !.key = claim.key, !.content = claim.checksum,
                                     !.dlp = claim.dlp]
                 /\ Busy(s, q)
    BY DEF Register
  <1>3. q \in UploadCalls
    BY <1>1, <1>2 DEF UploadCalls, idle, Levels, Rank, Origins
  <1>4. q.pc = "registering" /\ q.origin = "caller"
    BY <1>2 DEF idle
  <1>5. q \in ReqTypes /\ req \in [Slots -> ReqTypes]
    BY <1>3 DEF ReqTypes, TypeOK
  <1> QED
    BY <1>2, <1>4, <1>5, BusyOne

(* A restore takes key and checksum of the row. *)
LEMMA RestoreOne ==
    ASSUME VersionsAssumption, TypeOK, NEW s \in Slots, NEW row \in versions, Restore(s, row)
    PROVE  /\ req' \in [Slots -> ReqTypes]
           /\ req'[s].pc = "restoring" /\ req'[s].version = current + 1
           /\ req'[s].key = row.key /\ req'[s].content = row.checksum
           /\ req'[s].origin = row.origin
           /\ \A t \in Slots : t # s => req'[t] = req[t]
  <1>1. row.key \in Keys /\ row.checksum \in Contents /\ row.dlp \in Scans /\ row.origin \in Origins
    BY DEF TypeOK, RowType
  <1>2. current + 1 \in 1 .. MaxVersion
    BY NextNumber DEF Restore
  <1>3. PICK q : /\ q = [idle EXCEPT !.pc = "restoring", !.version = current + 1,
                                     !.key = row.key, !.content = row.checksum, !.dlp = row.dlp,
                                     !.origin = row.origin]
                 /\ Busy(s, q)
    BY DEF Restore
  <1>4. q \in UploadCalls
    BY <1>1, <1>2, <1>3 DEF UploadCalls, idle, Levels, Rank, Origins
  <1>5. q.pc = "restoring" /\ q.version = current + 1
    BY <1>3 DEF idle
  <1>6. q.key = row.key /\ q.content = row.checksum /\ q.origin = row.origin
    BY <1>3 DEF idle
  <1>7. q \in ReqTypes /\ req \in [Slots -> ReqTypes]
    BY <1>4 DEF ReqTypes, TypeOK
  <1> QED
    BY <1>3, <1>5, <1>6, <1>7, BusyOne

(* A change of the classification holds no version. *)
LEMMA ClassifyOne ==
    ASSUME TypeOK, NEW s \in Slots, NEW l \in Levels, NEW override \in BOOLEAN,
           Classify(s, l, override)
    PROVE  /\ req' \in [Slots -> ReqTypes]
           /\ req'[s].pc = "classifying" /\ req'[s].version = 0
           /\ \A t \in Slots : t # s => req'[t] = req[t]
  <1>1. PICK q : q = [idle EXCEPT !.pc = "classifying", !.level = l] /\ Busy(s, q)
    BY DEF Classify
  <1>2. q \in LevelCalls
    BY <1>1 DEF LevelCalls, idle
  <1>3. q.pc = "classifying" /\ q.version = 0
    BY <1>2 DEF LevelCalls
  <1>4. q \in ReqTypes /\ req \in [Slots -> ReqTypes]
    BY <1>2 DEF ReqTypes, TypeOK
  <1> QED
    BY <1>1, <1>3, <1>4, BusyOne

(* A call that goes on keeps its version, key and content. *)
LEMMA GoesOne ==
    ASSUME TypeOK, NEW s \in Slots, req[s].pc \in Uploading,
           NEW pc \in Uploading \cup {"answering"}, Goes(s, pc)
    PROVE  /\ req' \in [Slots -> ReqTypes]
           /\ req'[s].pc = pc /\ req'[s].version = req[s].version
           /\ req'[s].key = req[s].key /\ req'[s].content = req[s].content
           /\ req'[s].origin = req[s].origin
           /\ \A t \in Slots : t # s => req'[t] = req[t]
  <1>1. req[s] \in ReqTypes /\ req \in [Slots -> ReqTypes]
    BY DEF TypeOK
  <1>2. PICK q : q = [req[s] EXCEPT !.pc = pc] /\ Busy(s, q)
    BY DEF Goes
  <1>3. /\ q \in ReqTypes /\ q.pc = pc /\ q.version = req[s].version
        /\ q.key = req[s].key /\ q.content = req[s].content /\ q.origin = req[s].origin
    BY <1>1, <1>2, CallGoes
  <1> QED
    BY <1>1, <1>2, <1>3, BusyOne

(* A call that ends leaves an idle slot. *)
LEMMA DoneOne ==
    ASSUME TypeOK, NEW s \in Slots, Done(s)
    PROVE  /\ req' \in [Slots -> ReqTypes]
           /\ req'[s].pc = "idle" /\ req'[s].version = 0
           /\ \A t \in Slots : t # s => req'[t] = req[t]
  BY CallIdle, BusyOne DEF Done, TypeOK

(* A call that fails ends, or goes on to delete its object. *)
LEMMA FailedOne ==
    ASSUME TypeOK, NEW s \in Slots, req[s].pc \in Uploading, Failed(s)
    PROVE  /\ req' \in [Slots -> ReqTypes]
           /\ \/ /\ req'[s].pc = "cleaning" /\ req'[s].version = req[s].version
                 /\ req'[s].key = req[s].key /\ req'[s].content = req[s].content
                 /\ req'[s].origin = req[s].origin /\ req[s].origin = "upload"
              \/ req'[s].pc = "idle"
           /\ \A t \in Slots : t # s => req'[t] = req[t]
  <1>1. CASE req[s].origin = "upload"
    <2>1. Goes(s, "cleaning") /\ "cleaning" \in Uploading
      BY <1>1 DEF Failed, Uploading
    <2> QED
      BY <1>1, <2>1, GoesOne
  <1>2. CASE req[s].origin # "upload"
    BY <1>2, DoneOne DEF Failed
  <1> QED
    BY <1>1, <1>2

(* A call whose version number was checked keeps all of them, too. *)
LEMMA CheckedOne ==
    ASSUME TypeOK, NEW s \in Slots, CheckVersion(s)
    PROVE  /\ req' \in [Slots -> ReqTypes]
           /\ req'[s].pc = "inserting" /\ req'[s].version = req[s].version
           /\ req'[s].key = req[s].key /\ req'[s].content = req[s].content
           /\ req'[s].origin = req[s].origin
           /\ \A t \in Slots : t # s => req'[t] = req[t]
  <1>1. req[s] \in ReqTypes /\ req \in [Slots -> ReqTypes] /\ level \in Levels
    BY DEF TypeOK
  <1>2. PICK r \in ReqTypes : r = req[s]
    BY <1>1
  <1>3. PICK q : q = [r EXCEPT !.pc = "inserting", !.level = level] /\ Busy(s, q)
    BY <1>2 DEF CheckVersion
  <1>4. r \in UploadCalls
    BY <1>2 DEF CheckVersion, ReqTypes, UploadCalls, LevelCalls, idle
  <1>5. q \in UploadCalls
    BY <1>1, <1>3, <1>4 DEF UploadCalls
  <1>6. q.pc = "inserting" /\ q.version = r.version
    BY <1>3, <1>4 DEF UploadCalls
  <1>7. q.key = r.key /\ q.content = r.content /\ q.origin = r.origin
    BY <1>3, <1>4 DEF UploadCalls
  <1>8. q \in ReqTypes
    BY <1>5 DEF ReqTypes
  <1> QED
    BY <1>1, <1>2, <1>3, <1>6, <1>7, <1>8, BusyOne

(* Writing and deleting an object keep the type of the store. *)
LEMMA BlobTypes ==
    ASSUME TypeOK, NEW s \in Slots, req[s].pc \in Uploading
    PROVE  /\ [blobs EXCEPT ![req[s].key] = req[s].content] \in [Keys -> Contents \cup {None}]
           /\ [blobs EXCEPT ![req[s].key] = None] \in [Keys -> Contents \cup {None}]
           /\ req[s].key \in Keys /\ req[s].content \in Contents
           /\ req[s].version \in 1 .. MaxVersion /\ req[s].dlp \in Scans
           /\ req[s].origin \in Origins
  <1>1. req[s] \in ReqTypes
    BY DEF TypeOK
  <1>2. /\ req[s].key \in Keys /\ req[s].content \in Contents
        /\ req[s].version \in 1 .. MaxVersion /\ req[s].dlp \in Scans
        /\ req[s].origin \in Origins
    BY <1>1, CallFields DEF Versioned
  <1> QED
    BY <1>2 DEF TypeOK

(* A row that is inserted has the type of a row. *)
LEMMA RowTypes ==
    ASSUME TypeOK, NEW s \in Slots, req[s].pc \in Versioned,
           AddVersion(Row(req[s]))
    PROVE  versions' \subseteq RowType /\ current' \in 0 .. MaxVersion /\ current' = req[s].version
  <1>1. req[s] \in ReqTypes
    BY DEF TypeOK
  <1>2. /\ req[s].key \in Keys /\ req[s].content \in Contents
        /\ req[s].version \in 1 .. MaxVersion /\ req[s].dlp \in Scans
        /\ req[s].origin \in Origins
    BY <1>1, CallFields
  <1>3. Row(req[s]) \in RowType
    BY <1>2 DEF Row, RowType
  <1>4. current' = req[s].version
    BY DEF AddVersion, Row
  <1>5. current' \in 0 .. MaxVersion
    BY <1>2, <1>4
  <1>6. versions' \subseteq RowType
    BY <1>3 DEF AddVersion, TypeOK
  <1> QED
    BY <1>4, <1>5, <1>6

-----------------------------------------------------------------------------
(* Every step keeps the type. *)
LEMMA RequestType ==
    ASSUME VersionsAssumption, TypeOK, NEW s \in Slots, Request(s)
    PROVE  TypeOK'
  <1>1. ASSUME NEW n \in NamesOf[s], NEW c \in Contents, Upload(s, n, c)
        PROVE  TypeOK'
    <2>1. req' \in [Slots -> ReqTypes]
      BY <1>1, UploadOne
    <2> QED
      BY <1>1, <2>1 DEF Upload, document, TypeOK
  <1>2. ASSUME NEW row \in versions, Restore(s, row)
        PROVE  TypeOK'
    <2>1. req' \in [Slots -> ReqTypes]
      BY <1>2, RestoreOne
    <2> QED
      BY <1>2, <2>1 DEF Restore, document, TypeOK
  <1>3. ASSUME NEW l \in Levels, NEW override \in BOOLEAN, Classify(s, l, override)
        PROVE  TypeOK'
    <2>1. req' \in [Slots -> ReqTypes]
      BY <1>3, ClassifyOne
    <2>2. overridden' \in BOOLEAN
      BY <1>3 DEF Classify
    <2> QED
      BY <1>3, <2>1, <2>2 DEF Classify, TypeOK
  <1>4. ASSUME NEW claim \in Claims, Register(s, claim)
        PROVE  TypeOK'
    <2>1. req' \in [Slots -> ReqTypes]
      BY <1>4, RegisterOne
    <2> QED
      BY <1>4, <2>1 DEF Register, document, TypeOK
  <1> QED
    BY <1>1, <1>2, <1>3, <1>4 DEF Request

(* The steps of a call. *)
LEMMA StepType ==
    ASSUME VersionsAssumption, TypeOK, NEW s \in Slots, Step(s)
    PROVE  TypeOK'
  <1>1. CASE StoreObject(s)
    <2>1. req[s].pc \in Uploading /\ "registering" \in Uploading
      BY <1>1 DEF StoreObject, Uploading
    <2>2. req' \in [Slots -> ReqTypes]
      BY <1>1, <2>1, GoesOne DEF StoreObject
    <2>3. blobs' \in [Keys -> Contents \cup {None}]
      BY <1>1, <2>1, BlobTypes DEF StoreObject
    <2> QED
      BY <1>1, <2>2, <2>3 DEF StoreObject, document, TypeOK
  <1>2. CASE DeleteObject(s)
    <2>1. req[s].pc \in Uploading
      BY <1>2 DEF DeleteObject, Uploading
    <2>2. req' \in [Slots -> ReqTypes]
      BY <1>2, DoneOne DEF DeleteObject
    <2>3. blobs' \in [Keys -> Contents \cup {None}]
      BY <1>2, <2>1, BlobTypes DEF DeleteObject
    <2> QED
      BY <1>2, <2>2, <2>3 DEF DeleteObject, document, TypeOK
  <1>3. CASE CheckVersion(s)
    <2>1. req' \in [Slots -> ReqTypes]
      BY <1>3, CheckedOne
    <2> QED
      BY <1>3, <2>1 DEF CheckVersion, document, TypeOK
  <1>4. CASE RefuseVersion(s) \/ Conflict(s)
    <2>1. req[s].pc \in Uploading
      BY <1>4 DEF RefuseVersion, Conflict, Uploading
    <2>2. req' \in [Slots -> ReqTypes]
      BY <1>4, <2>1, FailedOne DEF RefuseVersion, Conflict
    <2> QED
      BY <1>4, <2>2 DEF RefuseVersion, Conflict, document, TypeOK
  <1>5. CASE InsertVersion(s)
    <2>1. req[s].pc \in Uploading /\ req[s].pc \in Versioned
      BY <1>5 DEF InsertVersion, Uploading, Versioned
    <2>2. req' \in [Slots -> ReqTypes]
      BY <1>5, <2>1, GoesOne DEF InsertVersion
    <2>3. versions' \subseteq RowType /\ current' \in 0 .. MaxVersion
      BY <1>5, <2>1, RowTypes DEF InsertVersion
    <2>4. dlp' \in Scans
      BY <1>5, <2>1, BlobTypes DEF InsertVersion
    <2>5. level' \in Levels
      BY <1>5 DEF InsertVersion, Levels, Rank, TypeOK
    <2>6. overridden' \in BOOLEAN /\ blobs' \in [Keys -> Contents \cup {None}] /\ faults' \in Nat
      BY <1>5 DEF InsertVersion, TypeOK
    <2> QED
      BY <2>2, <2>3, <2>4, <2>5, <2>6 DEF TypeOK
  <1>6. CASE Answer(s) \/ RestoreConflict(s)
    <2>1. req' \in [Slots -> ReqTypes]
      BY <1>6, DoneOne DEF Answer, RestoreConflict
    <2> QED
      BY <1>6, <2>1 DEF Answer, RestoreConflict, document, TypeOK
  <1>7. CASE InsertRestored(s)
    <2>1. req[s].pc \in Versioned
      BY <1>7 DEF InsertRestored, Versioned
    <2>2. req' \in [Slots -> ReqTypes]
      BY <1>7, DoneOne DEF InsertRestored
    <2>3. versions' \subseteq RowType /\ current' \in 0 .. MaxVersion
      BY <1>7, <2>1, RowTypes DEF InsertRestored
    <2> QED
      BY <1>7, <2>2, <2>3 DEF InsertRestored, TypeOK
  <1>8. CASE WriteLevel(s)
    <2>1. req' \in [Slots -> ReqTypes]
      BY <1>8, DoneOne DEF WriteLevel
    <2>2. level' \in Levels
      BY <1>8, CallFields DEF WriteLevel, TypeOK
    <2> QED
      BY <1>8, <2>1, <2>2 DEF WriteLevel, TypeOK
  <1> QED
    BY <1>1, <1>2, <1>3, <1>4, <1>5, <1>6, <1>7, <1>8 DEF Step

(* The failures. *)
LEMMA FailType ==
    ASSUME VersionsAssumption, TypeOK, NEW s \in Slots, Fail(s)
    PROVE  TypeOK'
  <1>0. faults' \in Nat
    BY DEF Fail, StoreFails, RegisterFails, Crash, Fault, TypeOK
  <1>1. CASE StoreFails(s)
    <2>1. req[s].pc \in Uploading
      BY <1>1 DEF StoreFails, Uploading
    <2>2. req' \in [Slots -> ReqTypes]
      BY <1>1, DoneOne DEF StoreFails
    <2>3. blobs' \in [Keys -> Contents \cup {None}]
      <3>1. blobs' = blobs \/ blobs' = [blobs EXCEPT ![req[s].key] = req[s].content]
        BY <1>1 DEF StoreFails
      <3> QED
        BY <2>1, <3>1, BlobTypes DEF TypeOK
    <2> QED
      BY <1>0, <1>1, <2>2, <2>3 DEF StoreFails, document, TypeOK
  <1>2. CASE RegisterFails(s)
    <2>1. req[s].pc \in Uploading
      BY <1>2 DEF RegisterFails, Uploading
    <2>2. req' \in [Slots -> ReqTypes]
      BY <1>2, <2>1, FailedOne DEF RegisterFails
    <2> QED
      BY <1>0, <1>2, <2>2 DEF RegisterFails, document, TypeOK
  <1>3. CASE Crash(s)
    <2>1. req' \in [Slots -> ReqTypes]
      BY <1>3, DoneOne DEF Crash
    <2> QED
      BY <1>0, <1>3, <2>1 DEF Crash, document, TypeOK
  <1> QED
    BY <1>1, <1>2, <1>3 DEF Fail

LEMMA TypeStep == ASSUME VersionsAssumption, TypeOK, [Next]_vars PROVE TypeOK'
  <1>1. CASE Next
    BY <1>1, RequestType, StepType, FailType DEF Next
  <1>2. CASE UNCHANGED vars
    BY <1>2 DEF vars, TypeOK
  <1> QED
    BY <1>1, <1>2

(* Whatever calls overlap and fail, every variable has the shape the code   *)
(* gives it.                                                               *)
THEOREM VersionsTypeCorrect == Spec => []TypeOK
  <1>1. Init => TypeOK
    BY VersionsAssumption, InitType
  <1>2. TypeOK /\ [Next]_vars => TypeOK'
    BY VersionsAssumption, TypeStep
  <1> QED
    BY <1>1, <1>2, PTL DEF Spec

-----------------------------------------------------------------------------
(* A call that has passed the check of its number. *)
Checked == {"inserting", "restoring"}

(* It holds a number that the next version may have at most. *)
Numbered == \A s \in Slots : req[s].pc \in Checked => req[s].version <= current + 1

NumbersInv == TypeOK /\ Numbered /\ VersionsContiguous

(* A step of a call makes it hold no number, or the next one; the rows     *)
(* stay, or get one with the number that it held.                          *)
Keeps(s) ==
    /\ UNCHANGED <<current, versions>>
    /\ req'[s].pc \in Checked => req'[s].version = current + 1

Adds(s) ==
    /\ req[s].pc \in Checked
    /\ AddVersion(Row(req[s]))
    /\ req'[s].pc \notin Checked

(* Every step of a call is one of the two. *)
LEMMA NumberSteps ==
    ASSUME VersionsAssumption, TypeOK, NEW s \in Slots, Request(s) \/ Step(s) \/ Fail(s)
    PROVE  /\ Keeps(s) \/ Adds(s)
           /\ \A t \in Slots : t # s => req'[t] = req[t]
  <1> DEFINE Goal == /\ Keeps(s) \/ Adds(s)
                     /\ \A t \in Slots : t # s => req'[t] = req[t]
  <1>1. ASSUME NEW n \in NamesOf[s], NEW c \in Contents, Upload(s, n, c)
        PROVE  Goal
    BY <1>1, UploadOne DEF Upload, document, Keeps
  <1>2. ASSUME NEW row \in versions, Restore(s, row)
        PROVE  Goal
    BY <1>2, RestoreOne DEF Restore, document, Keeps
  <1>3. ASSUME NEW l \in Levels, NEW override \in BOOLEAN, Classify(s, l, override)
        PROVE  Goal
    <2>1. /\ req'[s].pc = "classifying" /\ UNCHANGED <<current, versions>>
          /\ \A t \in Slots : t # s => req'[t] = req[t]
      BY <1>3, ClassifyOne DEF Classify
    <2>2. req'[s].pc \notin Checked
      BY <2>1 DEF Checked
    <2> QED
      BY <2>1, <2>2 DEF Keeps
  <1>4. ASSUME NEW claim \in Claims, Register(s, claim)
        PROVE  Goal
    <2>1. /\ req'[s].pc = "registering" /\ UNCHANGED <<current, versions>>
          /\ \A t \in Slots : t # s => req'[t] = req[t]
      BY <1>4, RegisterOne DEF Register, document
    <2>2. req'[s].pc \notin Checked
      BY <2>1 DEF Checked
    <2> QED
      BY <2>1, <2>2 DEF Keeps
  <1>5. CASE StoreObject(s)
    <2>1. req[s].pc \in Uploading /\ "registering" \in Uploading
      BY <1>5 DEF StoreObject, Uploading
    <2> QED
      BY <1>5, <2>1, GoesOne DEF StoreObject, document, Keeps, Checked
  <1>6. CASE CheckVersion(s)
    <2>1. req[s].version = current + 1 /\ UNCHANGED <<current, versions>>
      BY <1>6 DEF CheckVersion, document
    <2> QED
      BY <1>6, <2>1, CheckedOne DEF Keeps
  <1>7. CASE RefuseVersion(s) \/ Conflict(s) \/ RegisterFails(s)
    <2>1. req[s].pc \in Uploading /\ Failed(s) /\ UNCHANGED <<current, versions>>
      BY <1>7 DEF RefuseVersion, Conflict, RegisterFails, Uploading, document
    <2> QED
      BY <2>1, FailedOne DEF Keeps, Checked
  <1>8. CASE InsertVersion(s)
    <2>1. req[s].pc \in Uploading /\ req[s].pc \in Checked /\ "answering" \notin Checked
      BY <1>8 DEF InsertVersion, Uploading, Checked
    <2>2. req'[s].pc = "answering" /\ \A t \in Slots : t # s => req'[t] = req[t]
      BY <1>8, <2>1, GoesOne DEF InsertVersion
    <2> QED
      BY <1>8, <2>1, <2>2 DEF InsertVersion, Adds
  <1>9. CASE InsertRestored(s)
    <2>1. req[s].pc \in Checked
      BY <1>9 DEF InsertRestored, Checked
    <2>2. req'[s].pc = "idle" /\ \A t \in Slots : t # s => req'[t] = req[t]
      BY <1>9, DoneOne DEF InsertRestored
    <2> QED
      BY <1>9, <2>1, <2>2 DEF InsertRestored, Adds, Checked
  <1>10. CASE DeleteObject(s) \/ Answer(s) \/ RestoreConflict(s) \/ WriteLevel(s) \/ StoreFails(s) \/ Crash(s)
    <2>1. Done(s) /\ UNCHANGED <<current, versions>>
      BY <1>10 DEF DeleteObject, Answer, RestoreConflict, WriteLevel, StoreFails, Crash, document
    <2> QED
      BY <2>1, DoneOne DEF Keeps, Checked
  <1> QED
    BY <1>1, <1>2, <1>3, <1>4, <1>5, <1>6, <1>7, <1>8, <1>9, <1>10 DEF Request, Step, Fail

(* The row that is added has the next number. *)
LEMMA NextAdded ==
    ASSUME NumbersInv, NEW s \in Slots, Adds(s)
    PROVE  /\ req[s].version = current + 1
           /\ versions' = versions \cup {Row(req[s])}
           /\ current' = current + 1
  <1>1. req[s].version \in 1 .. MaxVersion /\ current \in Nat
    BY CallFields DEF NumbersInv, TypeOK, Adds, Checked, Versioned
  <1>2. req[s].version <= current + 1
    BY DEF NumbersInv, Numbered, Adds
  <1>3. req[s].version \notin {row.version : row \in versions}
    BY DEF Adds, AddVersion, Taken, Row
  <1>4. req[s].version \notin 1 .. current
    BY <1>3 DEF NumbersInv, VersionsContiguous
  <1>5. req[s].version = current + 1
    BY <1>1, <1>2, <1>4
  <1> QED
    BY <1>5 DEF Adds, AddVersion, Row

(* Therefore the numbers stay without gaps. *)
LEMMA NumbersStep == ASSUME VersionsAssumption, NumbersInv, [Next]_vars PROVE NumbersInv'
  <1>1. TypeOK'
    BY TypeStep DEF NumbersInv
  <1>2. ASSUME NEW s \in Slots, Request(s) \/ Step(s) \/ Fail(s)
        PROVE  Numbered' /\ VersionsContiguous'
    <2>1. /\ Keeps(s) \/ Adds(s)
          /\ \A t \in Slots : t # s => req'[t] = req[t]
      BY <1>2, NumberSteps DEF NumbersInv
    <2>2. /\ current \in Nat
          /\ \A t \in Slots : req[t].pc \in Checked => req[t].version \in Nat
      BY CallFields DEF NumbersInv, TypeOK, Checked, Versioned
    <2>3. CASE Keeps(s)
      <3>1. ASSUME NEW t \in Slots, req'[t].pc \in Checked
            PROVE  req'[t].version <= current + 1
        BY <3>1, <2>1, <2>2, <2>3 DEF Keeps, NumbersInv, Numbered
      <3> QED
        BY <2>3, <3>1 DEF Keeps, NumbersInv, Numbered, VersionsContiguous
    <2>4. CASE Adds(s)
      <3> DEFINE new == Row(req[s])
      <3>1. /\ req[s].version = current + 1 /\ current' = current + 1
            /\ versions' = versions \cup {new}
        BY <2>4, NextAdded
      <3>2. new.version = current + 1
        BY <3>1 DEF Row
      <3>3. ASSUME NEW t \in Slots, req'[t].pc \in Checked
            PROVE  req'[t].version <= current' + 1
        BY <3>3, <2>1, <2>2, <2>4, <3>1 DEF Adds, NumbersInv, Numbered
      <3> HIDE DEF new
      <3>4. {row.version : row \in versions} = 1 .. current
        BY DEF NumbersInv, VersionsContiguous
      <3>5. {row.version : row \in versions \cup {new}} = (1 .. current) \cup {current + 1}
        BY <3>2, <3>4
      <3>6. (1 .. current) \cup {current + 1} = 1 .. (current + 1)
        BY <2>2
      <3>7. \A row \in versions : row.version # current + 1
        BY <2>2, <3>4
      <3>8. \A r1, r2 \in versions \cup {new} : r1.version = r2.version => r1 = r2
        BY <3>2, <3>7 DEF NumbersInv, VersionsContiguous
      <3> QED
        BY <3>1, <3>3, <3>5, <3>6, <3>8 DEF Numbered, VersionsContiguous
    <2> QED
      BY <2>1, <2>3, <2>4
  <1>3. CASE UNCHANGED vars
    BY <1>3, <1>1 DEF vars, NumbersInv, Numbered, VersionsContiguous
  <1> QED
    BY <1>1, <1>2, <1>3 DEF Next, NumbersInv

LEMMA NumbersInductive == Spec => []NumbersInv
  <1>1. Init => NumbersInv
    <2> SUFFICES ASSUME Init PROVE NumbersInv
      OBVIOUS
    <2>1. TypeOK
      BY VersionsAssumption, InitType
    <2>2. Numbered
      BY CallIdle DEF Init, Numbered, Checked
    <2>3. VersionsContiguous
      BY DEF Init, VersionsContiguous
    <2> QED
      BY <2>1, <2>2, <2>3 DEF NumbersInv
  <1>2. NumbersInv /\ [Next]_vars => NumbersInv'
    BY VersionsAssumption, NumbersStep
  <1> QED
    BY <1>1, <1>2, PTL DEF Spec

(* However many uploads and restores overlap, and whatever fails, the       *)
(* version numbers are 1 to currentVersion, each of them once.             *)
THEOREM NumbersContiguous == Spec => []VersionsContiguous
  <1>1. NumbersInv => VersionsContiguous
    BY DEF NumbersInv
  <1> QED
    BY <1>1, NumbersInductive, PTL

(* A version that was registered is never changed or lost, and the number   *)
(* of the current version never goes back.                                 *)
THEOREM RowsKept == Spec => VersionsGrow
  <1>1. NumbersInv /\ [Next]_vars => [versions \subseteq versions' /\ current <= current']_vars
    <2> SUFFICES ASSUME NumbersInv, NEW s \in Slots, Request(s) \/ Step(s) \/ Fail(s)
                 PROVE  versions \subseteq versions' /\ current <= current'
      BY DEF Next
    <2>1. Keeps(s) \/ Adds(s)
      BY VersionsAssumption, NumberSteps DEF NumbersInv
    <2>2. current \in Nat
      BY DEF NumbersInv, TypeOK
    <2>3. CASE Keeps(s)
      BY <2>2, <2>3 DEF Keeps
    <2>4. CASE Adds(s)
      BY <2>2, <2>4, NextAdded
    <2> QED
      BY <2>1, <2>3, <2>4
  <1> QED
    BY <1>1, NumbersInductive, PTL DEF Spec, VersionsGrow

-----------------------------------------------------------------------------
(* No two slots upload under the same name. *)
OwnNames == \A s, t \in Slots : s # t => NamesOf[s] \cap NamesOf[t] = {}

(* A call that stores a file owns the key of its object until the version   *)
(* is registered.                                                          *)
Owns(s) == req[s].pc \in Uploading /\ req[s].origin = "upload"

(* The versions that were uploaded, or restored from one that was. *)
FromUploads == {row \in versions : row.origin = "upload"}

(* The file of an upload is clean and, once stored, stays in place. *)
UploadInv(s) ==
    /\ req[s].key.name \in NamesOf[s]
    /\ req[s].key.version = req[s].version
    /\ \A row \in FromUploads : row.key # req[s].key
    /\ req[s].pc # "cleaning" => req[s].content \notin Infected
    /\ req[s].pc \in {"registering", "inserting"} => blobs[req[s].key] = req[s].content

(* A restore has the key and the checksum of a version which was not the   *)
(* current one.                                                            *)
RestoreInv(s) ==
    \E row \in versions : /\ row.version + 1 # req[s].version
                          /\ row.key = req[s].key
                          /\ row.checksum = req[s].content
                          /\ row.origin = req[s].origin

(* Whoever registers a version without uploading it stores and deletes     *)
(* nothing.                                                                *)
CallInv(s) ==
    /\ req[s].pc \in {"storing", "cleaning"} => req[s].origin = "upload"
    /\ Owns(s) => UploadInv(s)
    /\ req[s].pc = "restoring" => RestoreInv(s)

KeysPast == \A row \in FromUploads : row.key.version <= current

FilesInv == NumbersInv /\ (\A s \in Slots : CallInv(s)) /\ KeysPast /\ FilesIntact

(* A call writes no object but its own. *)
Touches(s) ==
    \/ blobs' = blobs
    \/ Owns(s) /\ \E x : blobs' = [blobs EXCEPT ![req[s].key] = x]

(* Two uploads have different keys. *)
LEMMA KeysDiffer ==
    ASSUME OwnNames, FilesInv, NEW s \in Slots, NEW t \in Slots, s # t, Owns(s), Owns(t)
    PROVE  req[s].key # req[t].key
  BY DEF OwnNames, FilesInv, CallInv, UploadInv

(* What a call leaves alone is every object but its own. *)
LEMMA KeptObjects ==
    ASSUME NumbersInv, NEW s \in Slots, Touches(s)
    PROVE  \A k \in Keys : ~Owns(s) \/ k # req[s].key => blobs'[k] = blobs[k]
  BY DEF NumbersInv, TypeOK, Touches

(* The key of a row is one of the keys. *)
LEMMA RowKey ==
    ASSUME TypeOK, NEW row \in versions
    PROVE  row.key \in Keys /\ row.key.version \in 1 .. MaxVersion
  BY DEF TypeOK, RowType, Keys

(* So is the key of a call. *)
LEMMA CallKey ==
    ASSUME TypeOK, NEW s \in Slots, req[s].pc \in Versioned
    PROVE  req[s].key \in Keys
  BY CallFields DEF TypeOK

(* While the rows stay, the other calls and the files stay, too. *)
LEMMA OthersKeep ==
    ASSUME OwnNames, FilesInv, NEW s \in Slots, Touches(s), UNCHANGED <<current, versions>>,
           \A t \in Slots : t # s => req'[t] = req[t]
    PROVE  /\ \A t \in Slots : t # s => CallInv(t)'
           /\ KeysPast' /\ FilesIntact'
  <1>0. TypeOK /\ NumbersInv
    BY DEF FilesInv, NumbersInv
  <1>1. ASSUME NEW t \in Slots, t # s
        PROVE  CallInv(t)'
    <2>1. req'[t] = req[t] /\ CallInv(t)
      BY <1>1 DEF FilesInv
    <2>2. ASSUME Owns(t)
          PROVE  blobs'[req[t].key] = blobs[req[t].key]
      <3>1. req[t].key \in Keys
        BY <1>0, <2>2, CallKey DEF Owns, Versioned
      <3>2. Owns(s) => req[t].key # req[s].key
        BY <1>1, <2>2, KeysDiffer
      <3> QED
        BY <1>0, <3>1, <3>2, KeptObjects
    <2>3. Owns(t)' <=> Owns(t)
      BY <2>1 DEF Owns
    <2>4. Owns(t)' => UploadInv(t)'
      BY <2>1, <2>2, <2>3 DEF CallInv, UploadInv, FromUploads
    <2>5. req'[t].pc = "restoring" => RestoreInv(t)'
      BY <2>1 DEF CallInv, RestoreInv
    <2> QED
      BY <2>1, <2>4, <2>5 DEF CallInv
  <1>2. ASSUME NEW row \in FromUploads
        PROVE  blobs'[row.key] = blobs[row.key]
    <2>1. Owns(s) => row.key # req[s].key
      BY DEF FilesInv, CallInv, UploadInv
    <2>2. row.key \in Keys
      BY <1>0, RowKey DEF FromUploads
    <2> QED
      BY <1>0, <2>1, <2>2, KeptObjects
  <1>3. FilesIntact'
    BY <1>2 DEF FilesInv, FilesIntact, FromUploads
  <1>4. KeysPast'
    BY DEF FilesInv, KeysPast, FromUploads
  <1> QED
    BY <1>1, <1>3, <1>4

(* An object that is written has what was written. *)
LEMMA Written ==
    ASSUME TypeOK, NEW s \in Slots, req[s].pc \in Uploading, NEW x,
           blobs' = [blobs EXCEPT ![req[s].key] = x]
    PROVE  blobs'[req[s].key] = x
  BY CallKey DEF TypeOK, Versioned

(* While the rows stay, the call that is served keeps its invariant. *)
LEMMA CallKeeps ==
    ASSUME VersionsAssumption, FilesInv, NEW s \in Slots,
           Request(s) \/ Step(s) \/ Fail(s), ~InsertVersion(s), ~InsertRestored(s)
    PROVE  CallInv(s)' /\ Touches(s) /\ UNCHANGED <<current, versions>>
  <1> DEFINE Goal == CallInv(s)' /\ Touches(s) /\ UNCHANGED <<current, versions>>
  <1>0. TypeOK /\ NumbersInv /\ CallInv(s) /\ current \in Nat
    BY DEF FilesInv, NumbersInv, TypeOK
  <1>i. ASSUME req'[s].pc \in {"idle", "classifying"}
        PROVE  CallInv(s)'
    BY <1>i DEF CallInv, Owns, Uploading
  <1>1. ASSUME NEW n \in NamesOf[s], NEW c \in Contents, Upload(s, n, c)
        PROVE  Goal
    <2>1. /\ req'[s].pc = "storing" /\ req'[s].version = current + 1 /\ req'[s].origin = "upload"
          /\ req'[s].key.version = current + 1 /\ req'[s].key.name = n
      BY <1>0, <1>1, UploadOne
    <2>2. req'[s].content = c
      BY <1>0, <1>1 DEF Upload, Busy, idle, TypeOK
    <2>3. \A row \in FromUploads : row.key # req'[s].key
      BY <1>0, <2>1, RowKey DEF FilesInv, KeysPast, FromUploads
    <2>4. UNCHANGED <<current, versions, blobs>> /\ c \notin Infected
      BY <1>1 DEF Upload, document
    <2>5. UploadInv(s)'
      BY <2>1, <2>2, <2>3, <2>4 DEF UploadInv, FromUploads
    <2> QED
      BY <2>1, <2>4, <2>5 DEF CallInv, Touches
  <1>2. ASSUME NEW row \in versions, Restore(s, row)
        PROVE  Goal
    <2>1. /\ req'[s].pc = "restoring" /\ req'[s].version = current + 1
          /\ req'[s].key = row.key /\ req'[s].content = row.checksum
          /\ req'[s].origin = row.origin
      BY <1>0, <1>2, RestoreOne
    <2>2. UNCHANGED <<current, versions, blobs>> /\ row.version # current
      BY <1>2 DEF Restore, document
    <2>3. row.version \in Nat
      BY <1>0 DEF TypeOK, RowType
    <2>4. row.version + 1 # current + 1
      BY <1>0, <2>2, <2>3
    <2>5. RestoreInv(s)'
      BY <2>1, <2>2, <2>4 DEF RestoreInv
    <2> QED
      BY <2>1, <2>2, <2>5 DEF CallInv, Touches, Owns, Uploading
  <1>3. ASSUME NEW l \in Levels, NEW override \in BOOLEAN, Classify(s, l, override)
        PROVE  Goal
    <2>1. req'[s].pc = "classifying" /\ UNCHANGED <<current, versions, blobs>>
      BY <1>0, <1>3, ClassifyOne DEF Classify
    <2> QED
      BY <1>i, <2>1 DEF Touches
  <1>4. ASSUME NEW claim \in Claims, Register(s, claim)
        PROVE  Goal
    <2>1. /\ req'[s].pc = "registering" /\ req'[s].origin = "caller"
          /\ UNCHANGED <<current, versions, blobs>>
      BY <1>0, <1>4, RegisterOne DEF Register, document
    <2> QED
      BY <2>1 DEF CallInv, Owns, Touches
  <1>5. CASE StoreObject(s)
    <2>1. req[s].pc = "storing" /\ req[s].pc \in Uploading /\ "registering" \in Uploading
      BY <1>5 DEF StoreObject, Uploading
    <2>2. /\ req'[s].pc = "registering" /\ req'[s].version = req[s].version
          /\ req'[s].key = req[s].key /\ req'[s].content = req[s].content
      BY <1>0, <1>5, <2>1, GoesOne DEF StoreObject
    <2>3. UNCHANGED <<current, versions>> /\ blobs' = [blobs EXCEPT ![req[s].key] = req[s].content]
      BY <1>5 DEF StoreObject, document
    <2>4. blobs'[req[s].key] = req[s].content
      BY <1>0, <2>1, <2>3, Written
    <2>5. Owns(s) /\ UploadInv(s)
      BY <1>0, <2>1 DEF CallInv, Owns
    <2>6. UploadInv(s)'
      BY <2>1, <2>2, <2>3, <2>4, <2>5 DEF UploadInv, FromUploads
    <2> QED
      BY <2>1, <2>2, <2>3, <2>5, <2>6 DEF CallInv, Touches
  <1>6. CASE CheckVersion(s)
    <2>1. /\ req[s].pc = "registering" /\ req[s].pc \in Uploading
          /\ UNCHANGED <<current, versions, blobs>>
      BY <1>6 DEF CheckVersion, document, Uploading
    <2>2. /\ req'[s].pc = "inserting" /\ req'[s].version = req[s].version
          /\ req'[s].key = req[s].key /\ req'[s].content = req[s].content
          /\ req'[s].origin = req[s].origin
      BY <1>0, <1>6, CheckedOne
    <2>3. Owns(s)' => UploadInv(s)'
      BY <1>0, <2>1, <2>2 DEF CallInv, Owns, UploadInv, FromUploads
    <2> QED
      BY <2>1, <2>2, <2>3 DEF CallInv, Touches
  <1>7. CASE RefuseVersion(s) \/ Conflict(s) \/ RegisterFails(s)
    <2>1. /\ req[s].pc \in Uploading /\ req[s].pc # "cleaning"
          /\ Failed(s) /\ UNCHANGED <<current, versions, blobs>>
      BY <1>7 DEF RefuseVersion, Conflict, RegisterFails, Uploading, document
    <2>2. CASE req'[s].pc = "idle"
      BY <1>i, <2>1, <2>2 DEF Touches
    <2>3. CASE req'[s].pc # "idle"
      <3>1. /\ req'[s].pc = "cleaning" /\ req'[s].version = req[s].version
            /\ req'[s].key = req[s].key /\ req'[s].origin = "upload" /\ req[s].origin = "upload"
        BY <1>0, <2>1, <2>3, FailedOne
      <3>2. UploadInv(s)'
        BY <1>0, <2>1, <3>1 DEF CallInv, Owns, UploadInv, FromUploads
      <3> QED
        BY <2>1, <3>1, <3>2 DEF CallInv, Touches
    <2> QED
      BY <2>2, <2>3
  <1>8. CASE DeleteObject(s) \/ StoreFails(s)
    <2>1. /\ Done(s) /\ UNCHANGED <<current, versions>>
          /\ req[s].pc \in Uploading /\ req[s].pc \in {"storing", "cleaning"}
          /\ blobs' = blobs \/ \E x : blobs' = [blobs EXCEPT ![req[s].key] = x]
      BY <1>8 DEF DeleteObject, StoreFails, document, Uploading
    <2>2. req'[s].pc = "idle"
      BY <1>0, <2>1, DoneOne
    <2>3. Touches(s)
      BY <1>0, <2>1 DEF CallInv, Touches, Owns
    <2> QED
      BY <1>i, <2>1, <2>2, <2>3
  <1>9. CASE Answer(s) \/ RestoreConflict(s) \/ WriteLevel(s) \/ Crash(s)
    <2>1. Done(s) /\ UNCHANGED <<current, versions, blobs>>
      BY <1>9 DEF Answer, RestoreConflict, WriteLevel, Crash, document
    <2>2. req'[s].pc = "idle"
      BY <1>0, <2>1, DoneOne
    <2> QED
      BY <1>i, <2>1, <2>2 DEF Touches
  <1> QED
    BY <1>1, <1>2, <1>3, <1>4, <1>5, <1>6, <1>7, <1>8, <1>9 DEF Request, Step, Fail

(* A row that is added is one that its caller registered, or has a file     *)
(* that was clean, or that of an old version.                              *)
Added(s) ==
    \/ req[s].origin = "upload" /\ req[s].content \in Contents \ Infected
    \/ req[s].origin = "caller"
    \/ \E row \in versions : /\ row.version # current
                             /\ row.checksum = req[s].content
                             /\ row.origin = req[s].origin

LEMMA RowAdded ==
    ASSUME VersionsAssumption, OwnNames, FilesInv, NEW s \in Slots,
           InsertVersion(s) \/ InsertRestored(s)
    PROVE  /\ versions' = versions \cup {Row(req[s])} /\ current' = current + 1 /\ blobs' = blobs
           /\ req[s].version = current + 1
           /\ Added(s)
           /\ req[s].origin = "upload" =>
                 /\ blobs[req[s].key] = req[s].content
                 /\ req[s].key.version <= current + 1
                 /\ \A t \in Slots : t # s /\ Owns(t) => req[t].key # req[s].key
           /\ \A t \in Slots : t # s => req'[t] = req[t]
           /\ req'[s].pc \in {"answering", "idle"}
  <1>0. TypeOK /\ NumbersInv /\ CallInv(s) /\ current \in Nat
    BY DEF FilesInv, NumbersInv, TypeOK
  <1>1. CASE InsertVersion(s)
    <2>1. /\ req[s].pc = "inserting" /\ req[s].pc \in Uploading /\ req[s].pc \in Checked
          /\ "answering" \in Uploading \cup {"answering"} /\ "answering" \notin Checked
      BY <1>1 DEF InsertVersion, Uploading, Checked
    <2>2. req'[s].pc = "answering" /\ \A t \in Slots : t # s => req'[t] = req[t]
      BY <1>0, <1>1, <2>1, GoesOne DEF InsertVersion
    <2>3. Adds(s) /\ blobs' = blobs
      BY <1>1, <2>1, <2>2 DEF Adds, InsertVersion
    <2>4. /\ req[s].version = current + 1 /\ current' = current + 1
          /\ versions' = versions \cup {Row(req[s])}
      BY <1>0, <2>3, NextAdded
    <2>5. req[s].content \in Contents /\ req[s].origin \in Origins
      BY <1>0, <2>1, BlobTypes
    <2>6. ASSUME req[s].origin = "upload"
          PROVE  /\ req[s].key.version <= current + 1
                 /\ blobs[req[s].key] = req[s].content /\ req[s].content \in Contents \ Infected
                 /\ \A t \in Slots : t # s /\ Owns(t) => req[t].key # req[s].key
      <3>1. Owns(s) /\ UploadInv(s)
        BY <1>0, <2>1, <2>6 DEF CallInv, Owns
      <3>2. req[s].key.version = current + 1
        BY <2>4, <3>1 DEF UploadInv
      <3>3. blobs[req[s].key] = req[s].content /\ req[s].content \in Contents \ Infected
        BY <2>1, <2>5, <3>1 DEF UploadInv
      <3>4. \A t \in Slots : t # s /\ Owns(t) => req[t].key # req[s].key
        BY <3>1, KeysDiffer
      <3> QED
        BY <1>0, <3>2, <3>3, <3>4
    <2>7. Added(s)
      BY <2>5, <2>6 DEF Added, Origins
    <2> QED
      BY <2>2, <2>3, <2>4, <2>6, <2>7
  <1>2. CASE InsertRestored(s)
    <2>1. req[s].pc = "restoring" /\ req[s].pc \in Checked
      BY <1>2 DEF InsertRestored, Checked
    <2>2. req'[s].pc = "idle" /\ \A t \in Slots : t # s => req'[t] = req[t]
      BY <1>0, <1>2, DoneOne DEF InsertRestored
    <2>3. Adds(s) /\ blobs' = blobs
      BY <1>2, <2>1, <2>2 DEF Adds, InsertRestored, Checked
    <2>4. /\ req[s].version = current + 1 /\ current' = current + 1
          /\ versions' = versions \cup {Row(req[s])}
      BY <1>0, <2>3, NextAdded
    <2>5. PICK row \in versions : /\ row.version + 1 # req[s].version
                                 /\ row.key = req[s].key
                                 /\ row.checksum = req[s].content
                                 /\ row.origin = req[s].origin
      BY <1>0, <2>1 DEF CallInv, RestoreInv
    <2>6. row.version # current
      BY <2>4, <2>5
    <2>7. Added(s)
      BY <2>5, <2>6 DEF Added
    <2>8. ASSUME req[s].origin = "upload"
          PROVE  /\ blobs[req[s].key] = req[s].content
                 /\ req[s].key.version <= current + 1
                 /\ \A t \in Slots : t # s /\ Owns(t) => req[t].key # req[s].key
      <3>1. row \in FromUploads
        BY <2>5, <2>8 DEF FromUploads
      <3>2. blobs[req[s].key] = req[s].content
        BY <2>5, <3>1 DEF FilesInv, FilesIntact, FromUploads
      <3>3. row.key.version <= current /\ row.key.version \in Nat
        BY <1>0, <3>1, RowKey DEF FilesInv, KeysPast
      <3>4. req[s].key.version <= current + 1
        BY <1>0, <2>5, <3>3
      <3>5. ASSUME NEW t \in Slots, t # s, Owns(t)
            PROVE  req[t].key # req[s].key
        BY <2>5, <3>1, <3>5 DEF FilesInv, CallInv, UploadInv
      <3> QED
        BY <3>2, <3>4, <3>5
    <2> QED
      BY <2>2, <2>3, <2>4, <2>7, <2>8
  <1> QED
    BY <1>1, <1>2

(* Every step keeps the invariant: a call that inserts a row by RowAdded,
   any other by CallKeeps and OthersKeep. *)
LEMMA FilesStep == ASSUME VersionsAssumption, OwnNames, FilesInv, [Next]_vars PROVE FilesInv'
  <1>0. TypeOK /\ NumbersInv /\ current \in Nat
    BY DEF FilesInv, NumbersInv, TypeOK
  <1>1. NumbersInv'
    BY <1>0, NumbersStep
  <1>2. ASSUME NEW s \in Slots, Request(s) \/ Step(s) \/ Fail(s)
        PROVE  (\A t \in Slots : CallInv(t)') /\ KeysPast' /\ FilesIntact'
    <2>1. CASE InsertVersion(s) \/ InsertRestored(s)
      <3> DEFINE new == Row(req[s])
      <3>1. new.key = req[s].key /\ new.checksum = req[s].content /\ new.origin = req[s].origin
        BY DEF Row
      <3> HIDE DEF new
      <3>2. /\ versions' = versions \cup {new} /\ current' = current + 1 /\ blobs' = blobs
            /\ new.origin = "upload" => blobs[new.key] = new.checksum /\ new.key.version <= current + 1
        BY <2>1, <3>1, RowAdded DEF new
      <3>3. /\ \A t \in Slots : t # s => req'[t] = req[t]
            /\ req'[s].pc \in {"answering", "idle"}
            /\ new.origin = "upload" => \A t \in Slots : t # s /\ Owns(t) => req[t].key # new.key
        BY <2>1, <3>1, RowAdded
      <3>4. FilesIntact'
        BY <3>2 DEF FilesInv, FilesIntact
      <3>5. \A row \in FromUploads : row.key.version <= current + 1
        BY <1>0, RowKey DEF FilesInv, KeysPast, FromUploads
      <3>6. KeysPast'
        BY <3>2, <3>5 DEF KeysPast, FromUploads
      <3>7. CallInv(s)'
        BY <3>3 DEF CallInv, Owns, Uploading
      <3>8. ASSUME NEW t \in Slots, t # s
            PROVE  CallInv(t)'
        <4>1. req'[t] = req[t] /\ CallInv(t)
          BY <3>3, <3>8 DEF FilesInv
        <4>2. Owns(t)' => UploadInv(t)'
          <5>1. Owns(t)' => Owns(t) /\ UploadInv(t)
            BY <4>1 DEF CallInv, Owns
          <5>2. Owns(t) => \A row \in FromUploads' : row \in FromUploads \/ row.key # req[t].key
            BY <3>2, <3>3, <3>8 DEF FromUploads
          <5> QED
            BY <3>2, <4>1, <5>1, <5>2 DEF UploadInv
        <4>3. req[t].pc = "restoring" => RestoreInv(t)'
          BY <3>2, <4>1 DEF CallInv, RestoreInv
        <4> QED
          BY <4>1, <4>2, <4>3 DEF CallInv
      <3> QED
        BY <3>4, <3>6, <3>7, <3>8
    <2>2. CASE ~InsertVersion(s) /\ ~InsertRestored(s)
      <3>1. CallInv(s)' /\ Touches(s) /\ UNCHANGED <<current, versions>>
        BY <1>2, <2>2, CallKeeps
      <3>2. \A t \in Slots : t # s => req'[t] = req[t]
        BY <1>0, <1>2, NumberSteps
      <3> QED
        BY <3>1, <3>2, OthersKeep
    <2> QED
      BY <2>1, <2>2
  <1>3. CASE UNCHANGED vars
    BY <1>1, <1>3 DEF vars, FilesInv, CallInv, UploadInv, RestoreInv, KeysPast, FilesIntact,
                         Owns, FromUploads
  <1> QED
    BY <1>1, <1>2, <1>3 DEF Next, FilesInv

LEMMA FilesInit == ASSUME VersionsAssumption, Init PROVE FilesInv
  <1>1. TypeOK
    BY VersionsAssumption, InitType
  <1>2. Numbered
    BY CallIdle DEF Init, Numbered, Checked
  <1>3. VersionsContiguous /\ KeysPast /\ FilesIntact
    BY DEF Init, VersionsContiguous, KeysPast, FilesIntact, FromUploads
  <1>4. \A s \in Slots : CallInv(s)
    BY CallIdle DEF Init, CallInv, Owns, Uploading
  <1> QED
    BY <1>1, <1>2, <1>3, <1>4 DEF FilesInv, NumbersInv

LEMMA FilesInductive == ASSUME OwnNames PROVE Spec => []FilesInv
  <1>1. Init => FilesInv
    BY VersionsAssumption, FilesInit
  <1>2. FilesInv /\ [Next]_vars => FilesInv'
    BY VersionsAssumption, FilesStep
  <1> QED
    BY <1>1, <1>2, PTL DEF Spec

(* If no two slots upload under the same name, the file of each version     *)
(* that was uploaded is in the store and is the one its checksum was       *)
(* computed from, whatever overlaps, fails and is registered by callers:   *)
(* no rollback deletes the file of a version, and no upload overwrites it. *)
THEOREM FilesKept == ASSUME OwnNames PROVE Spec => []FilesIntact
  <1>1. FilesInv => FilesIntact
    BY DEF FilesInv
  <1> QED
    BY <1>1, FilesInductive, PTL

-----------------------------------------------------------------------------
(* The files of the versions, as the file store sees them. *)
Files == [v \in 1 .. current |-> FileOf(v)]

(* What is known of the file of a row. *)
Known(row) == IF row.origin = "upload" THEN row.checksum ELSE None

(* Each number up to currentVersion has its row and its file. *)
LEMMA RowFound ==
    ASSUME FilesInv, NEW v \in 1 .. current
    PROVE  /\ RowOf(v) \in versions /\ RowOf(v).version = v
           /\ FileOf(v) = Known(RowOf(v))
           /\ \A row \in versions : row.version = v => row = RowOf(v)
  <1>1. \E row \in versions : row.version = v
    BY DEF FilesInv, NumbersInv, VersionsContiguous
  <1>2. RowOf(v) \in versions /\ RowOf(v).version = v
    BY <1>1 DEF RowOf
  <1>3. FileOf(v) = Known(RowOf(v))
    BY <1>2 DEF FilesInv, FilesIntact, FileOf, Known
  <1> QED
    BY <1>2, <1>3 DEF FilesInv, NumbersInv, VersionsContiguous

(* Each row has its file. *)
LEMMA KnownFile ==
    ASSUME FilesInv, NEW row \in versions
    PROVE  row.version \in 1 .. current /\ Files[row.version] = Known(row)
  <1>1. row.version \in 1 .. current
    BY DEF FilesInv, NumbersInv, VersionsContiguous
  <1> QED
    BY <1>1, RowFound DEF Files

(* After a step: whichever row has the number, its file is the one the
   file store sees. *)
LEMMA NextRowFound ==
    ASSUME FilesInv', NEW v \in 1 .. current', NEW row \in versions', row.version = v
    PROVE  FileOf(v)' = Known(row)
  <1>1. (CHOOSE x \in versions' : x.version = v) = row
    BY DEF FilesInv, NumbersInv, VersionsContiguous
  <1>2. RowOf(v)' = row
    BY <1>1 DEF RowOf
  <1> QED
    BY <1>2 DEF FilesInv, FilesIntact, FileOf, Known

(* While the rows stay, the file store sees the same files. *)
LEMMA FilesStay ==
    ASSUME FilesInv, FilesInv', UNCHANGED <<current, versions>>
    PROVE  Files' = Files
  <1>1. ASSUME NEW v \in 1 .. current
        PROVE  FileOf(v)' = FileOf(v)
    <2>1. PICK row \in versions : row = RowOf(v) /\ row.version = v /\ FileOf(v) = Known(row)
      BY RowFound
    <2>2. row \in versions' /\ v \in 1 .. current'
      BY <2>1
    <2> QED
      BY <2>1, <2>2, NextRowFound
  <1> QED
    BY <1>1 DEF Files

(* What appending to a sequence gives. *)
LEMMA AppendOne ==
    ASSUME NEW q, NEW n \in Nat, q = [i \in 1 .. n |-> q[i]], NEW file
    PROVE  Append(q, file) = [v \in 1 .. n + 1 |-> IF v = n + 1 THEN file ELSE q[v]]
  OBVIOUS

(* A new row appends its file. *)
LEMMA FilesAppended ==
    ASSUME FilesInv, FilesInv', NEW new, new.version = current + 1,
           versions' = versions \cup {new}, current' = current + 1
    PROVE  Files' = Append(Files, Known(new))
  <1>0. current \in Nat
    BY DEF FilesInv, NumbersInv, TypeOK
  <1>1. Files = [v \in 1 .. current |-> Files[v]]
    BY DEF Files
  <1>2. ASSUME NEW v \in 1 .. current
        PROVE  FileOf(v)' = Files[v]
    <2>1. PICK row \in versions : row = RowOf(v) /\ row.version = v /\ FileOf(v) = Known(row)
      BY RowFound
    <2>2. row \in versions' /\ v \in 1 .. current'
      BY <1>0, <2>1
    <2> QED
      BY <2>1, <2>2, NextRowFound DEF Files
  <1>3. ASSUME NEW v, v = current + 1
        PROVE  FileOf(v)' = Known(new)
    <2>1. v \in 1 .. current' /\ new \in versions' /\ new.version = v
      BY <1>0, <1>3
    <2> QED
      BY <2>1, NextRowFound
  <1>4. Append(Files, Known(new)) =
           [v \in 1 .. current + 1 |-> IF v = current + 1 THEN Known(new) ELSE Files[v]]
    BY <1>0, <1>1, AppendOne
  <1>5. Files' = [v \in 1 .. current + 1 |-> FileOf(v)']
    BY DEF Files
  <1>6. ASSUME NEW v \in 1 .. current + 1
        PROVE  FileOf(v)' = IF v = current + 1 THEN Known(new) ELSE Files[v]
    <2>1. CASE v = current + 1
      BY <1>3, <2>1
    <2>2. CASE v # current + 1
      <3>1. v \in 1 .. current
        BY <1>0, <2>2
      <3> QED
        BY <1>2, <2>2, <3>1
    <2> QED
      BY <2>1, <2>2
  <1> QED
    BY <1>4, <1>5, <1>6

(* Each step is a step of the file store, or changes no file. *)
LEMMA StoreStep ==
    ASSUME VersionsAssumption, OwnNames, FilesInv, FilesInv', [Next]_vars
    PROVE  [Store!Next]_Files
  <1>0. TypeOK /\ current \in Nat
    BY DEF FilesInv, NumbersInv, TypeOK
  <1>1. ASSUME NEW s \in Slots, InsertVersion(s) \/ InsertRestored(s)
        PROVE  Store!Next
    <2> DEFINE new == Row(req[s])
    <2>1. /\ versions' = versions \cup {new} /\ current' = current + 1
          /\ req[s].version = current + 1 /\ Added(s)
      BY <1>1, RowAdded
    <2>2. /\ new.version = current + 1 /\ new.checksum = req[s].content
          /\ new.origin = req[s].origin
      BY <2>1 DEF Row
    <2> HIDE DEF new
    <2>3. Files' = Append(Files, Known(new))
      BY <2>1, <2>2, FilesAppended
    <2>4. CASE req[s].origin = "upload" /\ req[s].content \in Contents \ Infected
      <3>1. Known(new) = req[s].content
        BY <2>2, <2>4 DEF Known
      <3>2. Store!Upload(req[s].content)
        BY <2>3, <2>4, <3>1 DEF Store!Upload, Files
      <3> QED
        BY <2>4, <3>2 DEF Store!Next
    <2>5. CASE req[s].origin = "caller"
      <3>1. Known(new) = None
        BY <2>2, <2>5 DEF Known
      <3>2. Store!Declare
        BY <2>3, <3>1 DEF Store!Declare, Files
      <3> QED
        BY <3>2 DEF Store!Next
    <2>6. CASE \E row \in versions : /\ row.version # current
                                     /\ row.checksum = req[s].content
                                     /\ row.origin = req[s].origin
      <3>1. PICK row \in versions : /\ row.version # current
                                    /\ row.checksum = req[s].content
                                    /\ row.origin = req[s].origin
        BY <2>6
      <3>2. row.version \in 1 .. current /\ Files[row.version] = Known(row)
        BY KnownFile
      <3>3. Known(row) = Known(new)
        BY <2>2, <3>1 DEF Known
      <3>4. Len(Files) = current /\ DOMAIN Files = 1 .. current
        BY <1>0 DEF Files
      <3>5. row.version # Len(Files) /\ Files' = Append(Files, Files[row.version])
        BY <2>3, <3>1, <3>2, <3>3, <3>4
      <3>6. Store!Restore(row.version)
        BY <3>5 DEF Store!Restore, Files
      <3> QED
        BY <3>2, <3>4, <3>6 DEF Store!Next, Files
    <2> QED
      BY <2>1, <2>4, <2>5, <2>6 DEF Added
  <1>2. ASSUME NEW s \in Slots, Request(s) \/ Step(s) \/ Fail(s),
               ~InsertVersion(s), ~InsertRestored(s)
        PROVE  UNCHANGED Files
    BY <1>2, CallKeeps, FilesStay
  <1>3. CASE UNCHANGED vars
    BY <1>3, FilesStay DEF vars
  <1> QED
    BY <1>1, <1>2, <1>3 DEF Next

(* If no two slots upload under the same name, the versions implement the   *)
(* file store: a version, once there, has for good the clean file that was *)
(* uploaded or the file of the version that was restored; of the versions  *)
(* that callers register nothing is promised.                              *)
THEOREM StoresFiles == ASSUME OwnNames PROVE Spec => ImplementsFileStore
  <1>1. Init => Store!Init
    BY DEF Init, Store!Init, Files
  <1>2. FilesInv /\ FilesInv' /\ [Next]_vars => [Store!Next]_Files
    BY VersionsAssumption, StoreStep
  <1> QED
    BY <1>1, <1>2, FilesInductive, PTL DEF Spec, ImplementsFileStore, Store!Spec, Files
=============================================================================
