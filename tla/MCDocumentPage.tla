--------------------------- MODULE MCDocumentPage ----------------------------
(* Lists of any content looked at, and short sessions of one user. *)
EXTENDS DocumentPage, TLC

CONSTANTS ed, ap, bo, co, ad, file1

MCSegments ==
    "security" :> <<"security">> @@ "finance" :> <<"finance">> @@ "finance/q1" :> <<"finance", "q1">>
      @@ "/finance" :> <<"", "finance">>

MCNames == Statuses \cup Levels \cup DlpStates \cup DOMAIN MCSegments \cup Users \cup {file1}

Operators == {"file", "files", "dlp", "retention", "legal-hold", "overdue", "due-soon", "active", "archived"}

MCTexts == MCNames \cup Operators \cup {"pub"}

MCSpells ==
    [t \in MCTexts |->
        CASE t = "pub" -> {"PUBLIC", "PUBLISHED"}
          [] t = "archived" -> {"ARCHIVED"}
          [] t = "finance" -> {"finance", "finance/q1", "/finance"}
          [] OTHER -> {t} \cap MCNames]

MCOwner == [d \in Docs |-> IF d = 2 THEN ad ELSE ed]

Plain ==
    [level |-> "INTERNAL", dlp |-> "CLEAR", retention |-> "unset", tags |-> {}, file |-> file1,
     shared |-> TRUE, described |-> TRUE]

(* Any list of three rows of which one may be anything and one is a draft. *)
AnyMeta ==
    [level : {"INTERNAL", "CONFIDENTIAL"}, dlp : {"DETECTED", "NOT_SCANNED"}, retention : {"overdue", "soon", "far"},
     tags : {{}, {"security"}, {"finance/q1"}, {"/finance", "security"}}, file : {file1},
     shared : BOOLEAN, described : {TRUE}]

In(s) == [L!NewDoc EXCEPT !.status = s]
Chained(s, chain) == [In(s) EXCEPT !.chain = chain]

File(ext, mime, sum) ==
    [ext |-> ext, mime |-> mime, large |-> FALSE, sum |-> sum, scan |-> "CLEAR", by |-> ed]
Pdf == File("other", "pdf", 1)
Word == [File("docx", "zip", 2) EXCEPT !.large = TRUE]
Infected == [File("md", "", 3) EXCEPT !.scan = "DETECTED"]

Nothing ==
    [others |-> 0, fetches |-> 0, visits |-> 0, looks |-> 0, dialogs |-> 0, bulks |-> 0, faults |-> 0,
     changes |-> 0, edits |-> 0, previews |-> 0,
     pages |-> {"documents"}, visited |-> {}, approvals |-> FALSE,
     filters |-> {}, changing |-> {}, chains |-> {}, files |-> {}]

Look ==
    [users |-> Users,
     docs |-> {<<[In(s) EXCEPT !.hold = h], In("DRAFT"), In("PENDING")>> : s \in Statuses, h \in BOOLEAN},
     metas |-> {<<m, Plain, [Plain EXCEPT !.dlp = "DETECTED"]>> : m \in AnyMeta},
     files |-> {<<f, <<Pdf>>, <<Pdf>>>> : f \in {<<>>, <<Pdf>>}},
     open |-> "documents", budget |-> Nothing]

(* Any queue of three rows. *)
LookQueue ==
    [Look EXCEPT !.users = {ap}, !.docs = {[d \in Docs |-> In("PENDING")]}, !.open = "approvals",
                 !.metas = [Docs -> [level : {"PUBLIC", "INTERNAL", "SECRET"}, dlp : {"CLEAR", "DETECTED"},
                                     retention : {"unset"}, tags : {{}}, file : {file1}, shared : {TRUE}, described : {TRUE}]]]

Session(users, statuses, b) ==
    [users |-> users, docs |-> {statuses},
     metas |-> {[d \in Docs |-> [Plain EXCEPT !.shared = (d = 2)]]},
     files |-> {[d \in Docs |-> <<Pdf>>]}, open |-> "documents", budget |-> b]

(* On the page of document 1, of which there may be several versions. *)
OnOne(users, one, versions, b) ==
    [Session(users, <<one, In("DRAFT"), In("PUBLISHED")>>, b)
        EXCEPT !.files = {[d \in Docs |-> IF d = 1 THEN versions ELSE <<Pdf>>]}, !.open = "document"]

Mine == Filters("owner", ed)
Oldest == [DEFAULT_DOCUMENT_FILTERS EXCEPT !.sort = "title", !.view = "needs-action", !.dir = "asc"]

MCWaits == {[d \in Docs |-> IF d = 2 THEN 40 ELSE 50], [d \in Docs |-> 35]}

MCScenarios ==
    {Look, LookQueue,
     \* two bulk actions, one after the other or together, and a colleague
     Session({ed, ad}, <<In("DRAFT"), In("DRAFT"), In("PUBLISHED")>>,
             [Nothing EXCEPT !.bulks = 2, !.others = 1, !.faults = 1]),
     \* a member of two chains, in turn for one of them
     Session({bo}, <<Chained("PENDING", <<ap, bo>>), Chained("PENDING", <<bo>>), In("DRAFT")>>,
             [Nothing EXCEPT !.bulks = 1, !.others = 1, !.fetches = 1]),
     \* the list is fetched, left and opened while the user acts
     Session({ed}, <<In("DRAFT"), In("PENDING"), In("PUBLISHED")>>,
             [Nothing EXCEPT !.dialogs = 1, !.fetches = 1, !.visits = 1, !.faults = 1, !.visited = {1}]),
     Session({ed}, <<In("DRAFT"), In("PENDING"), In("PUBLISHED")>>,
             [Nothing EXCEPT !.dialogs = 2, !.fetches = 1, !.visits = 1, !.faults = 1]),
     Session({ed}, <<In("DRAFT"), In("DRAFT"), In("DRAFT")>>,
             [Nothing EXCEPT !.bulks = 1, !.fetches = 1, !.visits = 2, !.pages = {"documents", "mine"}]),
     \* filters and pages
     Session({co, ad}, <<In("DRAFT"), In("PENDING"), In("PUBLISHED")>>,
             [Nothing EXCEPT !.looks = 3, !.dialogs = 1, !.visits = 1, !.filters = {Mine, Oldest}, !.pages = {"dashboard"}]),
     \* the page of a document: previews, of which one is too large
     OnOne({ed}, In("DRAFT"), <<Pdf, Word>>,
           [Nothing EXCEPT !.previews = 2, !.looks = 2, !.fetches = 1, !.faults = 1]),
     \* its versions, its hold and its status
     OnOne({ad}, In("DRAFT"), <<Pdf, Word>>,
           [Nothing EXCEPT !.changes = 2, !.files = {Infected}]),
     OnOne({ed}, In("DRAFT"), <<Pdf>>,
           [Nothing EXCEPT !.dialogs = 1, !.changes = 1, !.others = 1, !.files = {Infected}, !.changing = {"HOLD", "RESTORE"}]),
     \* its history, read by an officer while others act
     OnOne({co}, In("PENDING"), <<Pdf>>, [Nothing EXCEPT !.others = 1, !.fetches = 1]),
     \* its approval chain, while its approvers decide
     OnOne({ed}, Chained("PENDING", <<ap, bo>>), <<Pdf>>,
           [Nothing EXCEPT !.edits = 1, !.others = 1, !.chains = {<<bo>>}]),
     \* the approvals page and the drawer
     [Session({ap}, <<Chained("PENDING", <<ap, bo>>), In("PENDING"), In("DRAFT")>>,
              [Nothing EXCEPT !.looks = 1, !.dialogs = 1, !.others = 1, !.fetches = 1])
        EXCEPT !.open = "approvals"],
     \* from the page of a document to the approvals, or away and back
     [Session({ap}, <<In("PENDING"), In("DRAFT"), In("DRAFT")>>,
              [Nothing EXCEPT !.dialogs = 1, !.visits = 2, !.faults = 1, !.pages = {}, !.visited = {1}, !.approvals = TRUE])
        EXCEPT !.open = "document"]}
=============================================================================
