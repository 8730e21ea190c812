-------------------------- MODULE DocumentVersions --------------------------
(***************************************************************************)
(* The versions of one document: document-service stores the file in the   *)
(* object store and then registers a version with metadata-service, which  *)
(* checks the version number, inserts the row and updates the document in  *)
(* one transaction.  If registering fails, document-service deletes the    *)
(* object.  A version can also be registered by its caller, who names the  *)
(* number, the object, the checksum and the scan result; nobody looks at   *)
(* the object then.  A version can be restored, which points a new version *)
(* at the object of an old one, and the classification of the document can *)
(* be changed meanwhile.                                                   *)
(*                                                                         *)
(* Documents share neither rows nor objects, so one of them is followed.   *)
(* Ownership and organization only refuse calls.  A slot is one call being *)
(* served, through both services; every await ends a step.                 *)
(***************************************************************************)
EXTENDS Naturals, FiniteSets

CONSTANTS
    Slots,       \* calls that can be served at the same time
    Names,       \* (sanitized) file names
    NamesOf,     \* the names that each slot uploads
    Contents,    \* file contents; a checksum identifies its content
    Infected,    \* contents the malware scanner rejects
    Sensitive,   \* contents the DLP scanner has findings in
    Claims,      \* what callers register themselves
    None,
    MaxVersion,  \* bound: versions of the document
    MaxFaults    \* bound: failures of calls and services

ASSUME VersionsAssumption ==
    /\ NamesOf \in [Slots -> SUBSET Names]
    /\ Infected \subseteq Contents /\ Sensitive \subseteq Contents
    /\ None \notin Contents \cup Names
    /\ Claims \subseteq [version : 1 .. MaxVersion, key : [version : 1 .. MaxVersion, name : Names],
                        checksum : Contents, dlp : {"NOT_SCANNED", "CLEAR", "DETECTED"}]
    /\ MaxVersion \in Nat /\ MaxFaults \in Nat

VARIABLES
    current,     \* currentVersion of the document
    dlp,         \* its dlpStatus
    level,       \* its classification; INTERNAL stands for PUBLIC too
    overridden,  \* an admin has given a reason to lower it (observation only)
    versions,    \* rows of document_versions
    blobs,       \* the object store
    req,         \* the call each slot is serving
    faults

vars == <<current, dlp, level, overridden, versions, blobs, req, faults>>

document == <<current, dlp, level, overridden>>

Rank == [INTERNAL |-> 1, CONFIDENTIAL |-> 2, SECRET |-> 3]
Levels == DOMAIN Rank

(* Mutant: the version is not part of the key. *)
KeyOfName(v, n) == [version |-> 1, name |-> n]

(* Of the key of an object, what tells the objects of one document apart. *)
Key(v, n) == [version |-> v, name |-> n]

Keys == [version : 1 .. MaxVersion, name : Names]

idle == [pc |-> "idle", version |-> 0, key |-> None, content |-> None, dlp |-> "NOT_SCANNED",
         level |-> "INTERNAL", origin |-> "caller"]

Init ==
    /\ current = 0
    /\ dlp = "NOT_SCANNED"
    /\ level \in Levels
    /\ overridden = FALSE
    /\ versions = {}
    /\ blobs = [k \in Keys |-> None]
    /\ req = [s \in Slots |-> idle]
    /\ faults = 0

Busy(s, r) == req' = [req EXCEPT ![s] = r]
Done(s) == Busy(s, idle)
Goes(s, pc) == Busy(s, [req[s] EXCEPT !.pc = pc])
IsIdle(s) == req[s].pc = "idle"

Scan(c) == IF c \in Sensitive THEN "DETECTED" ELSE "CLEAR"

-----------------------------------------------------------------------------
(* document-service: upload *)

(* Mutant: what the malware scanner says is ignored. *)
AnyUpload(s, n, c) ==
    /\ IsIdle(s)
    /\ current < MaxVersion
    /\ Busy(s, [idle EXCEPT !.pc = "storing", !.version = current + 1,
                            !.key = Key(current + 1, n), !.content = c, !.dlp = Scan(c),
                            !.origin = "upload"])
    /\ UNCHANGED <<document, versions, blobs, faults>>

(* The document is read; the file is scanned and passes. *)
Upload(s, n, c) ==
    /\ IsIdle(s)
    /\ current < MaxVersion
    /\ c \notin Infected
    /\ Busy(s, [idle EXCEPT !.pc = "storing", !.version = current + 1,
                            !.key = Key(current + 1, n), !.content = c, !.dlp = Scan(c),
                            !.origin = "upload"])
    /\ UNCHANGED <<document, versions, blobs, faults>>

StoreObject(s) ==
    /\ req[s].pc = "storing"
    /\ blobs' = [blobs EXCEPT ![req[s].key] = req[s].content]
    /\ Goes(s, "registering")
    /\ UNCHANGED <<document, versions, faults>>

(* Mutant: a failed registration is not rolled back. *)
NoRollback(s) ==
    /\ req[s].pc = "cleaning"
    /\ Done(s)
    /\ UNCHANGED <<document, versions, blobs, faults>>

(* Rollback: the object that could not be registered is deleted. *)
DeleteObject(s) ==
    /\ req[s].pc = "cleaning"
    /\ blobs' = [blobs EXCEPT ![req[s].key] = None]
    /\ Done(s)
    /\ UNCHANGED <<document, versions, faults>>

-----------------------------------------------------------------------------
(* metadata-service: VersionsService.create and restore *)

(* POST :docId/versions: the caller names all of the row. *)
Register(s, claim) ==
    /\ IsIdle(s)
    /\ current < MaxVersion
    /\ Busy(s, [idle EXCEPT !.pc = "registering", !.version = claim.version,
                            !.key = claim.key, !.content = claim.checksum, !.dlp = claim.dlp])
    /\ UNCHANGED <<document, versions, blobs, faults>>

(* The caller gets an error; document-service then cleans up. *)
Failed(s) == IF req[s].origin = "upload" THEN Goes(s, "cleaning") ELSE Done(s)

CheckVersion(s) ==
    /\ req[s].pc = "registering"
    /\ req[s].version = current + 1
    /\ Busy(s, [req[s] EXCEPT !.pc = "inserting", !.level = level])
    /\ UNCHANGED <<document, versions, blobs, faults>>

RefuseVersion(s) ==
    /\ req[s].pc = "registering"
    /\ req[s].version # current + 1
    /\ Failed(s)
    /\ UNCHANGED <<document, versions, blobs, faults>>

(* Mutant: no unique index. *)
NeverTaken(v) == v = 0

(* The unique index on (docId, version). *)
Taken(v) == \E row \in versions : row.version = v

(* The origin is observation only: document-service has stored the file of
   an upload. *)
Row(r) == [version |-> r.version, key |-> r.key, checksum |-> r.content, dlp |-> r.dlp,
           origin |-> r.origin]

AddVersion(row) ==
    /\ ~Taken(row.version)
    /\ versions' = versions \cup {row}
    /\ current' = row.version

(* The row and the document are written in one transaction. *)
InsertVersion(s) ==
    LET r == req[s] IN
    /\ r.pc = "inserting"
    /\ AddVersion(Row(r))
    /\ dlp' = r.dlp
    /\ level' = IF r.dlp = "DETECTED" /\ r.level = "INTERNAL" THEN "CONFIDENTIAL" ELSE level
    /\ Goes(s, "answering")
    /\ UNCHANGED <<overridden, blobs, faults>>

Conflict(s) ==
    /\ req[s].pc = "inserting"
    /\ Taken(req[s].version)
    /\ Failed(s)
    /\ UNCHANGED <<document, versions, blobs, faults>>

(* Approvers are looked up and notified, then the caller gets its answer. *)
Answer(s) ==
    /\ req[s].pc = "answering"
    /\ Done(s)
    /\ UNCHANGED <<document, versions, blobs, faults>>

(* Rows never change, so reading the source row is part of this step. *)
Restore(s, row) ==
    /\ IsIdle(s)
    /\ current < MaxVersion
    /\ row.version # current
    /\ Busy(s, [idle EXCEPT !.pc = "restoring", !.version = current + 1,
                            !.key = row.key, !.content = row.checksum, !.dlp = row.dlp,
                            !.origin = row.origin])
    /\ UNCHANGED <<document, versions, blobs, faults>>

(* The scan result of the document is left as it is. *)
InsertRestored(s) ==
    LET r == req[s] IN
    /\ r.pc = "restoring"
    /\ AddVersion(Row(r))
    /\ Done(s)
    /\ UNCHANGED <<dlp, level, overridden, blobs, faults>>

RestoreConflict(s) ==
    /\ req[s].pc = "restoring"
    /\ Taken(req[s].version)
    /\ Done(s)
    /\ UNCHANGED <<document, versions, blobs, faults>>

-----------------------------------------------------------------------------
(* metadata-service: DocumentsService.update, as far as classification goes *)

(* Lowering a document with DLP findings takes an admin who gives a reason. *)
Classify(s, l, override) ==
    /\ IsIdle(s)
    /\ dlp = "DETECTED" /\ l = "INTERNAL" => override
    /\ overridden' = (overridden \/ (dlp = "DETECTED" /\ l = "INTERNAL"))
    /\ Busy(s, [idle EXCEPT !.pc = "classifying", !.level = l])
    /\ UNCHANGED <<current, dlp, level, versions, blobs, faults>>

WriteLevel(s) ==
    /\ req[s].pc = "classifying"
    /\ level' = req[s].level
    /\ Done(s)
    /\ UNCHANGED <<current, dlp, overridden, versions, blobs, faults>>

-----------------------------------------------------------------------------
(* Failures *)

Fault == faults < MaxFaults /\ faults' = faults + 1

(* The object store answers with an error, having stored the file or not. *)
StoreFails(s) ==
    /\ req[s].pc = "storing"
    /\ Fault
    /\ \/ UNCHANGED blobs
       \/ blobs' = [blobs EXCEPT ![req[s].key] = req[s].content]
    /\ Done(s)
    /\ UNCHANGED <<document, versions>>

(* Registering fails before anything is written. *)
RegisterFails(s) ==
    /\ req[s].pc \in {"registering", "inserting"}
    /\ Fault
    /\ Failed(s)
    /\ UNCHANGED <<document, versions, blobs>>

(* The version is registered but the answer does not arrive. *)
AnswerLost(s) ==
    /\ req[s].pc = "answering"
    /\ Fault
    /\ Failed(s)
    /\ UNCHANGED <<document, versions, blobs>>

(* The rollback fails, or document-service dies between two steps. *)
Crash(s) ==
    /\ ~IsIdle(s)
    /\ Fault
    /\ Done(s)
    /\ UNCHANGED <<document, versions, blobs>>

-----------------------------------------------------------------------------
Request(s) ==
    \/ \E n \in NamesOf[s], c \in Contents : Upload(s, n, c)
    \/ \E claim \in Claims : Register(s, claim)
    \/ \E row \in versions : Restore(s, row)
    \/ \E l \in Levels, override \in BOOLEAN : Classify(s, l, override)

Step(s) ==
    \/ StoreObject(s) \/ DeleteObject(s)
    \/ CheckVersion(s) \/ RefuseVersion(s) \/ InsertVersion(s) \/ Conflict(s) \/ Answer(s)
    \/ InsertRestored(s) \/ RestoreConflict(s)
    \/ WriteLevel(s)

Fail(s) == StoreFails(s) \/ RegisterFails(s) \/ Crash(s)

Next == \E s \in Slots : Request(s) \/ Step(s) \/ Fail(s)

Spec == Init /\ [][Next]_vars

(* Every call that is being served goes on. *)
FairSpec == Spec /\ \A s \in Slots : WF_vars(Step(s))

(* The same, where answers of metadata-service may be lost too. *)
LossySpec == Init /\ [][Next \/ \E s \in Slots : AnswerLost(s)]_vars
-----------------------------------------------------------------------------
(* Properties *)

Scans == {"NOT_SCANNED", "CLEAR", "DETECTED"}

(* Who brings a version: document-service, or its caller alone. *)
Origins == {"upload", "caller"}

RowType == [version : 1 .. MaxVersion, key : Keys, checksum : Contents, dlp : Scans,
            origin : Origins]

UploadCalls == [pc : {"storing", "registering", "inserting", "answering", "cleaning", "restoring"},
                version : 1 .. MaxVersion, key : Keys, content : Contents, dlp : Scans,
                level : Levels, origin : Origins]

LevelCalls == [pc : {"classifying"}, version : {0}, key : {None}, content : {None},
               dlp : {"NOT_SCANNED"}, level : Levels, origin : {"caller"}]

ReqTypes == UploadCalls \cup LevelCalls \cup {idle}

(* Every variable has the shape the code gives it. *)
TypeOK ==
    /\ current \in 0 .. MaxVersion
    /\ dlp \in Scans
    /\ level \in Levels
    /\ overridden \in BOOLEAN
    /\ versions \subseteq RowType
    /\ blobs \in [Keys -> Contents \cup {None}]
    /\ req \in [Slots -> ReqTypes]
    /\ faults \in Nat

(* However uploads, registrations under any number and restores overlap,    *)
(* the version numbers are 1 to currentVersion, each of them once.         *)
VersionsContiguous ==
    /\ {row.version : row \in versions} = 1 .. current
    /\ \A r1, r2 \in versions : r1.version = r2.version => r1 = r2

(* No row is changed or lost, and currentVersion never goes back: a call    *)
(* that lost a race leaves the document alone.                             *)
VersionsGrow == [][versions \subseteq versions' /\ current <= current']_vars

Referenced(k) == \E row \in versions : row.key = k

(* As long as nothing fails, no object that was stored for a version that   *)
(* lost its number stays: time and again (MaxVersion ends the uploads, so   *)
(* also in the end) each object in the store belongs to a version.         *)
NoOrphanStays ==
    []<>(faults > 0 \/ \A k \in Keys : blobs[k] # None => Referenced(k))

(* The file of each version that was uploaded (or restored from one that    *)
(* was) is in the store, and is the one its checksum was computed from,    *)
(* also when callers register the keys of other uploads as their own.      *)
FilesIntact == \A row \in versions : row.origin = "upload" => blobs[row.key] = row.checksum

RowOf(v) == CHOOSE row \in versions : row.version = v

(* What the file store knows of a version: nothing, if its caller has       *)
(* registered it.                                                          *)
FileOf(v) == IF RowOf(v).origin = "upload" THEN blobs[RowOf(v).key] ELSE None

Store == INSTANCE FileStore WITH files <- [v \in 1 .. current |-> FileOf(v)], Unknown <- None

(* Uploads that never use the same name implement the file store, whatever  *)
(* overlaps, fails and is registered by callers, as long as metadata-      *)
(* service's answers arrive.                                               *)
ImplementsFileStore == Store!Spec

(***************************************************************************)
(* What comments and documents say.                                        *)
(***************************************************************************)

(* "Rollback: delete the orphaned file from MinIO"                         *)
(* (document-service, documents.service.ts, 151): no version loses its file.*)
OrphansOnly == [][\A row \in versions : blobs[row.key] # None => blobs'[row.key] # None]_vars

(* "The file must first be uploaded via POST /upload" (gateway,             *)
(* metadata.proxy.controller.ts, 693): a version has an object.           *)
UploadedFirst == \A row \in versions : blobs[row.key] # None

(* "SHA-256 hash of the file" (docs/ERD.md, 106)                            *)
ChecksumOfFile == \A row \in versions : blobs[row.key] # None => blobs[row.key] = row.checksum

(* "The document-level DLP aggregate reflects the CURRENT version's scan    *)
(* result" (versions.service.ts, 80-81)                                    *)
DlpReflectsCurrent == \A row \in versions : row.version = current => dlp = row.dlp

(* "DLP-detected documents cannot be downgraded below CONFIDENTIAL"         *)
(* (metadata-service, documents.service.ts, 361)                           *)
DetectedConfidential == dlp = "DETECTED" /\ ~overridden => level # "INTERNAL"

(* "Classification only escalates on detection [...] never silently         *)
(* downgraded" (versions.service.ts, 88-89): adding a version never lowers  *)
(* the classification.                                                     *)
EscalatesOnly == [][current' # current => Rank[level'] >= Rank[level]]_vars
=============================================================================
