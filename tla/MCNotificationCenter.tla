------------------------ MODULE MCNotificationCenter ------------------------
(* Two users, ann the reader and the owner of the documents.  A behaviour is   *)
(* about one thing: the directory, the store, the mail, the page or the bell.  *)
EXTENDS NotificationCenter, TLC

CONSTANTS ann, ben, nick, r1, r2

op(k, a, names, f) ==
    [kind |-> k, actor |-> a, owner |-> ann, next |-> ann, named |-> names, flagged |-> f]

Submitted == op("SUBMITTED", ann, {}, FALSE)
Uploaded == op("VERSION_UPLOADED", ben, {}, FALSE)
Flagged == op("VERSION_UPLOADED", ben, {}, TRUE)
StepApproved == op("STEP_APPROVED", ben, {}, FALSE)
Rejected == op("REJECTED", ben, {}, FALSE)
Archived == op("ARCHIVED", ben, {}, FALSE)
Mentioned == op("MENTIONED", ben, {nick}, FALSE)

MCOperations == {Submitted, Uploaded, Flagged, StepApproved, Rejected, Archived, Mentioned}

Crew(k) == [u \in Users |-> IF u = ben THEN "approver" ELSE k]

MCBudgets ==
    LET spend(may, crews, o, f, m, t, c, g, b) ==
          [may |-> may, crews |-> crews, operations |-> o, faults |-> f, moves |-> m, ticks |-> t,
           clicks |-> c, fetches |-> g, bells |-> b,
           mailboxes |-> {Users}, config |-> {"email", "lookup"}]
        crew == {Crew("none")}
    IN {spend({Submitted, Uploaded}, crew, 2, 1, 1, 1, 0, 0, 0),
        spend({StepApproved}, crew, 4, 1, 0, 0, 0, 0, 0),
        spend({Flagged, StepApproved, Archived, Mentioned}, {Crew("admin")}, 2, 0, 0, 0, 0, 0, 0),
        spend({Rejected}, crew, 2, 1, 0, 2, 0, 0, 0),
        [spend({Rejected}, crew, 2, 0, 1, 2, 0, 0, 0) EXCEPT !.mailboxes = {{}, Users}],
        [spend({Rejected}, crew, 1, 0, 0, 0, 0, 0, 0) EXCEPT !.config = {"email"}],
        [spend({Rejected}, crew, 1, 0, 0, 0, 0, 0, 0) EXCEPT !.config = {"lookup"}],
        spend({StepApproved}, crew, 2, 2, 0, 0, 2, 2, 0),
        spend({StepApproved}, crew, 2, 1, 0, 0, 2, 0, 2)}
=============================================================================
