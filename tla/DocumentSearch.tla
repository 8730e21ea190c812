--------------------------- MODULE DocumentSearch ---------------------------
(***************************************************************************)
(* The filters of the document pages: what a row of the list must be to    *)
(* pass them, the search language, the order and the pages of the list,    *)
(* the filters as a link and as a saved view, and what the page suggests.  *)
(*                                                                         *)
(* A row is what the list API answers for a document.  Its place in the    *)
(* alphabet of titles is its id; where a retention date stands relative to *)
(* now (overdue, due in 30 days, later) is part of the row.  A search is a *)
(* set of terms, key:text; which names contain a text is `Spells`.  Date   *)
(* ranges, and retention: with the name of a class, are left out.  A tag    *)
(* is its segments, between its slashes, of which some may be empty: a tag *)
(* is stored as it was typed, but for blanks around it.                    *)
(***************************************************************************)
EXTENDS Naturals, FiniteSets, Sequences

CONSTANTS
    Names,        \* owners, tags and files, and the names of statuses, levels and DLP results
    Texts,        \* what can be typed or linked to
    Spells,       \* the names that contain a text
    Segments,     \* of a tag: what is between its slashes
    PageSize

Seqs == INSTANCE SequencesExt

Statuses == {"DRAFT", "PENDING", "PUBLISHED", "ARCHIVED", "DELETED"}
Levels == {"PUBLIC", "INTERNAL", "CONFIDENTIAL", "SECRET"}
DlpStates == {"DETECTED", "CLEAR", "NOT_SCANNED"}
Deadlines == {"unset", "overdue", "soon", "far"}
NoFile == ""

Tags == DOMAIN Segments

(* The folder tree leaves out what is empty between two slashes. *)
NonEmpty(segment) == segment # ""
Path(tag) == SelectSeq(Segments[tag], NonEmpty)

ASSUME SearchAssumption ==
    /\ Statuses \cup Levels \cup DlpStates \subseteq Names
    /\ Names \cup {"file", "files", "dlp", "retention", "legal-hold", "overdue", "due-soon", "active", "archived"}
         \subseteq Texts
    /\ NoFile \notin Texts
    /\ Spells \in [Texts -> SUBSET Names]
    /\ \A n \in Names : n \in Spells[n]
    /\ \A s \in DlpStates : Spells[s] \cap DlpStates = {s}
    /\ Tags \subseteq Names
    /\ \A t \in Tags : Segments[t] \in Seq(STRING) /\ Segments[t] # <<>>
    /\ \A s, t \in Tags : Segments[s] = Segments[t] => s = t
    /\ \A t \in Tags : \A n \in 1..Len(Path(t)) : \E f \in Tags : Segments[f] = SubSeq(Path(t), 1, n)
    /\ PageSize \in Nat \ {0}

RowType == [id : Nat, owner : Names, status : Statuses, level : Levels, dlp : DlpStates, hold : BOOLEAN,
            retention : Deadlines, tags : SUBSET Tags, file : Names \cup {NoFile}, stamp : Nat]

Term(key, text) == [key |-> key, text |-> text]

Views == {"all", "needs-action", "drafts", "pending-review", "published", "sensitive"}

NoChoice == ""

DEFAULT_DOCUMENT_FILTERS ==
    [view |-> "all", search |-> {}, status |-> NoChoice, level |-> NoChoice, folder |-> NoChoice, owner |-> NoChoice,
     tag |-> NoChoice, sort |-> "updatedAt", dir |-> "desc"]

Fields == DOMAIN DEFAULT_DOCUMENT_FILTERS

-----------------------------------------------------------------------------
(* documentMatchesQuickView *)
InView(row, view) ==
    CASE view = "needs-action" -> row.status \in {"DRAFT", "PENDING"}
      [] view = "drafts" -> row.status = "DRAFT"
      [] view = "pending-review" -> row.status = "PENDING"
      [] view = "published" -> row.status = "PUBLISHED"
      [] view = "sensitive" -> row.level \in {"CONFIDENTIAL", "SECRET"} \/ row.dlp = "DETECTED"
      [] OTHER -> TRUE

(* A tag, as it was typed, is in a folder when it is the folder or begins     *)
(* with the folder and a slash.                                               *)
Above(segments) == {folder \in Tags : Seqs!IsPrefix(Segments[folder], segments)}

InFolder(row, folder) == \E t \in row.tags : folder \in Above(Segments[t])

Contains(names, text) == names \cap Spells[text] # {}

HasFile(row) == row.file # NoFile

(* The texts a row answers to after "has:" and "retention:". *)
Presence(row) ==
    {t \in {"file", "files"} : HasFile(row)}
      \cup {t \in {"retention"} : row.retention # "unset"}
      \cup {t \in {"dlp"} : row.dlp = "DETECTED"}

MatchesDueSoon(row) == row.retention = "soon"

Retention(row) ==
    {t \in {"unset"} : row.retention = "unset"}
      \cup {t \in {"overdue"} : row.retention = "overdue"}
      \cup {t \in {"due-soon"} : MatchesDueSoon(row)}
      \cup {t \in {"active"} : row.retention = "far"}
      \cup {t \in {"archived"} : row.status = "ARCHIVED"}

FreeText(row) == {row.file, row.owner, row.status, row.level} \cup row.tags

(* One term of documentMatchesAdvancedQuery; an unknown key is searched for as *)
(* free text.                                                                  *)
MatchesTerm(row, term) ==
    LET text == term.text
    IN CASE term.key = "status" -> Contains({row.status}, text)
         [] term.key = "class" -> Contains({row.level}, text)
         [] term.key = "owner" -> Contains({row.owner}, text)
         [] term.key \in {"tag", "folder"} -> Contains(row.tags, text)
         [] term.key = "file" -> Contains({row.file}, text)
         [] term.key = "has" -> text \in Presence(row)
         [] term.key = "dlp" -> Contains({row.dlp}, text)
         [] term.key = "retention" -> text \in Retention(row)
         [] OTHER -> Contains(FreeText(row), text)

Matches(row, filters) ==
    /\ InView(row, filters.view)
    /\ \A term \in filters.search : MatchesTerm(row, term)
    /\ filters.status \in {NoChoice, row.status}
    /\ filters.level \in {NoChoice, row.level}
    /\ filters.folder = NoChoice \/ InFolder(row, filters.folder)
    /\ filters.owner \in {NoChoice, row.owner}
    /\ filters.tag \in {NoChoice} \cup row.tags

Listed(rows, filters) == {row \in rows : Matches(row, filters)}

(* compareDocuments: the sort field, in its direction, and then the title. The *)
(* other sort fields are compared in the same way.                             *)
SortKey(row, field) == IF field = "title" THEN row.id ELSE row.stamp

Precedes(a, b, filters) ==
    LET x == SortKey(a, filters.sort)
        y == SortKey(b, filters.sort)
    IN IF x = y THEN a.id < b.id
       ELSE IF filters.dir = "asc" THEN x < y ELSE x > y

Place(row, rows, filters) ==
    Cardinality({other \in Listed(rows, filters) : Precedes(other, row, filters)})

PageOf(rows, filters, number) ==
    {row \in Listed(rows, filters) : Place(row, rows, filters) \div PageSize = number - 1}

Pages(rows, filters) == 1..((Cardinality(Listed(rows, filters)) + PageSize - 1) \div PageSize)

-----------------------------------------------------------------------------
(* Filters as a link.  What has the default value is left out. *)
Serialize(filters) ==
    [k \in {k \in Fields : filters[k] # DEFAULT_DOCUMENT_FILTERS[k]} |-> filters[k]]

Choices ==
    [view |-> Views, status |-> Statuses, level |-> Levels, dir |-> {"asc", "desc"},
     sort |-> {"updatedAt", "createdAt", "title", "status", "classification", "ownerId"}]

Parse(params) ==
    [k \in Fields |->
        IF k \in DOMAIN params /\ (k \in DOMAIN Choices => params[k] \in Choices[k])
          THEN params[k] ELSE DEFAULT_DOCUMENT_FILTERS[k]]

Normal(filters) == Parse(Serialize(filters))

ActiveFilters(filters) == DOMAIN Serialize(filters) \ {"sort", "dir"}

ClearFilter(filters, k) == [filters EXCEPT ![k] = DEFAULT_DOCUMENT_FILTERS[k]]

-----------------------------------------------------------------------------
(* Saved views: those that are built in, and those of the user, which are the  *)
(* persisted ones or, when these cannot be had, the browser's own last eight.  *)
SavedView(id, filters) == [id |-> id, filters |-> filters]

BUILT_IN_DOCUMENT_SAVED_VIEWS ==
    {SavedView("saved-pending-review", [DEFAULT_DOCUMENT_FILTERS EXCEPT !.view = "pending-review"]),
     SavedView("saved-action-queue", [DEFAULT_DOCUMENT_FILTERS EXCEPT !.view = "needs-action"]),
     SavedView("saved-security-triage",
               [DEFAULT_DOCUMENT_FILTERS EXCEPT !.view = "pending-review", !.search = {Term("tag", "security")}]),
     SavedView("saved-sensitive-attention", [DEFAULT_DOCUMENT_FILTERS EXCEPT !.view = "sensitive"]),
     SavedView("saved-draft-handoff", [DEFAULT_DOCUMENT_FILTERS EXCEPT !.view = "drafts"]),
     SavedView("saved-recently-published", [DEFAULT_DOCUMENT_FILTERS EXCEPT !.view = "published"]),
     SavedView("saved-confidential-library",
               [DEFAULT_DOCUMENT_FILTERS EXCEPT !.level = "CONFIDENTIAL", !.sort = "title", !.dir = "asc"])}

(* The views whose filters are those of the page. *)
ActiveSavedViews(views, filters) ==
    {v \in views : Serialize(Normal(v.filters)) = Serialize(Normal(filters))}

-----------------------------------------------------------------------------
(* Suggestions: the terms that may be offered for these rows; the tag, the     *)
(* file and the owner are those of the first row, which may be any.            *)
SuggestedTags(rows) ==
    LET all == UNION {row.tags : row \in rows}
    IN IF "security" \in all THEN {"security"} ELSE all

SuggestedTerms(rows) ==
    {Term("status", s) : s \in {"PENDING"} \cap {row.status : row \in rows}}
      \cup {Term("class", l) : l \in {"CONFIDENTIAL"} \cap {row.level : row \in rows}}
      \cup {Term("tag", t) : t \in SuggestedTags(rows)}
      \cup {Term("file", f) : f \in {row.file : row \in rows} \ {NoFile}}
      \cup {Term("has", "file") : row \in {r \in rows : HasFile(r)}}
      \cup {Term("has", "legal-hold") : row \in {r \in rows : r.hold}}
      \cup {Term("dlp", s) : s \in {"DETECTED"} \cap {row.dlp : row \in rows}}
      \cup {Term("retention", "due-soon") : row \in {r \in rows : MatchesDueSoon(r)}}
      \cup {Term("owner", row.owner) : row \in rows}

(* The folder tree counts a row once for every folder above its nested tags,   *)
(* which it takes without their empty segments.                                *)
Nested(tag) == Len(Segments[tag]) > 1

FolderTree(rows) == UNION {Above(Path(t)) : t \in {t \in UNION {row.tags : row \in rows} : Nested(t)}}

FolderNode(rows, folder) ==
    {row \in rows : \E t \in row.tags : Nested(t) /\ folder \in Above(Path(t))}
=============================================================================
