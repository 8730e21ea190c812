--------------------------- MODULE DocumentWorkflow ---------------------------
(***************************************************************************)
(* What the documentation promises of a document's life, with every        *)
(* operation taking effect in one step: the transition map of              *)
(* docs/ERD.md, approvers acting in order, retention that spares documents *)
(* under legal hold, a trash that is purged only after its window.         *)
(*                                                                         *)
(* Two doors stand open beside it, and the promises say what they leave:   *)
(* whoever sets a status directly is bound by the map but by no turn, and  *)
(* an admin may run the retention job as of any day, which archives what   *)
(* is overdue on that day, under that day's date, and nothing on hold.     *)
(*                                                                         *)
(* signed is who has approved since the last submission.  What becomes of   *)
(* the step of the approval chain when a document is rejected, the         *)
(* documentation does not say; here it stays, as in the code.              *)
(*                                                                         *)
(* DocumentLifecycle implements this specification as long as requests do  *)
(* not overlap; with overlapping requests it does not.                     *)
(***************************************************************************)
EXTENDS Naturals, Sequences

CONSTANTS Docs, Users, Approvers, Admins, Direct, Chains, RetentionDays, TrashDays, AsOf

VARIABLES doc, signed, clock

vars == <<doc, signed, clock>>

New == [status |-> "NONE", chain |-> <<>>, step |-> 0, hold |-> FALSE,
        publishedAt |-> 0, archivedAt |-> 0, deletedAt |-> 0]

Init ==
    /\ doc = [d \in Docs |-> New]
    /\ signed = [d \in Docs |-> <<>>]
    /\ clock = 1

Times == 1 .. clock

(* The document changes as f says, and its signatures as sig says. *)
Signs(d, f, sig) ==
    /\ doc' = [doc EXCEPT ![d] = f]
    /\ signed' = [signed EXCEPT ![d] = sig]
    /\ UNCHANGED clock

(* The document changes as f says, everything else stays. *)
Becomes(d, f) == doc' = [doc EXCEPT ![d] = f] /\ UNCHANGED <<signed, clock>>

Create(d) ==
    /\ doc[d].status = "NONE"
    /\ Becomes(d, [New EXCEPT !.status = "DRAFT"])

Submit(d) ==
    /\ doc[d].status = "DRAFT"
    /\ Signs(d, [doc[d] EXCEPT !.status = "PENDING"], <<>>)

SetChain(d, c) ==
    /\ doc[d].status = "PENDING"
    /\ doc[d].step = 0
    /\ Becomes(d, [doc[d] EXCEPT !.chain = c])

(* It is u's turn, and it is (or is not) the last one. *)
Turn(d, u) ==
    /\ doc[d].step < Len(doc[d].chain)
    /\ doc[d].chain[doc[d].step + 1] = u

LastTurn(d) == doc[d].step + 1 = Len(doc[d].chain)

SignOff(d, u) ==
    /\ doc[d].status = "PENDING"
    /\ Turn(d, u) /\ ~LastTurn(d)
    /\ Signs(d, [doc[d] EXCEPT !.step = @ + 1], Append(signed[d], u))

Publish(d, u, t) ==
    /\ doc[d].status = "PENDING"
    /\ \/ u \in Admins \cup Direct
       \/ u \in Approvers /\ doc[d].chain = <<>>
       \/ u \in Approvers /\ Turn(d, u) /\ LastTurn(d)
    /\ Signs(d, [doc[d] EXCEPT !.status = "PUBLISHED", !.publishedAt = t], Append(signed[d], u))

Reject(d) ==
    /\ doc[d].status = "PENDING"
    /\ Becomes(d, [doc[d] EXCEPT !.status = "DRAFT"])

Archive(d, t) ==
    /\ doc[d].status = "PUBLISHED"
    /\ Becomes(d, [doc[d] EXCEPT !.status = "ARCHIVED", !.archivedAt = t])

(* Retention: overdue on day t, and not under legal hold. *)
Retain(d, t) ==
    /\ doc[d].status = "PUBLISHED"
    /\ ~doc[d].hold
    /\ doc[d].publishedAt + RetentionDays < t
    /\ Becomes(d, [doc[d] EXCEPT !.status = "ARCHIVED", !.archivedAt = t])

Delete(d, t) ==
    /\ doc[d].status = "DRAFT"
    /\ Becomes(d, [doc[d] EXCEPT !.status = "DELETED", !.deletedAt = t])

Restore(d) ==
    /\ doc[d].status = "DELETED"
    /\ Becomes(d, [doc[d] EXCEPT !.status = "DRAFT", !.deletedAt = 0])

Purge(d) ==
    /\ doc[d].status = "DELETED"
    /\ doc[d].deletedAt + TrashDays < clock
    /\ Signs(d, [New EXCEPT !.status = "PURGED"], <<>>)

SetHold(d, h) ==
    /\ doc[d].status \notin {"NONE", "PURGED"}
    /\ Becomes(d, [doc[d] EXCEPT !.hold = h])

Tick ==
    /\ clock' = clock + 1
    /\ UNCHANGED <<doc, signed>>

Next ==
    \/ Tick
    \/ \E d \in Docs :
        \/ Create(d) \/ Submit(d) \/ Reject(d) \/ Restore(d) \/ Purge(d)
        \/ \E c \in Chains : SetChain(d, c)
        \/ \E u \in Users : SignOff(d, u)
        \/ \E u \in Users, t \in Times : Publish(d, u, t)
        \/ \E t \in Times : Archive(d, t) \/ Delete(d, t)
        \/ \E t \in Times \cup AsOf : Retain(d, t)
        \/ \E h \in BOOLEAN : SetHold(d, h)

Spec == Init /\ [][Next]_vars
=============================================================================
