-------------------------- MODULE NotificationCenter --------------------------
(***************************************************************************)
(* What one user sees of the notifications: the notifications page, whose  *)
(* list is a cached query that two mutations change before the server has  *)
(* answered, and the bell of the top bar with its polled badge and its     *)
(* list.                                                                   *)
(*                                                                         *)
(* `page` is the cached list and the query in flight, `one` and `all` the  *)
(* mutations "mark as read" and "mark all as read", each with the list it  *)
(* would roll back to.  `overlapped` is history: the two have been in      *)
(* flight together since the list was last fetched.                        *)
(***************************************************************************)
EXTENDS Notifications

CONSTANTS Reader,    \* the user
          PageSize   \* the page the gateway asks for, whatever the web asked for

VARIABLES page, one, all, overlapped, bell

webVars == <<page, one, all, overlapped, bell>>

Shown == SUBSET Record
Fetch == {"idle", "asked", "read"}
Progress == {"idle", "sent", "applied"}

Unread(list) == {n \in list : ~n.read}
ReadAll(list) == {[n EXCEPT !.read = TRUE] : n \in list}
ReadOne(list, id) == {IF n.id = id THEN [n EXCEPT !.read = TRUE] ELSE n : n \in list}

(* getForUser: the first page, from the newest. *)
FirstPage == {n \in Of(Reader) : Cardinality(Newer(n)) < PageSize}

-----------------------------------------------------------------------------
(* The page. *)

(* Mount, focus of the window or the refresh button. *)
Refetch ==
    /\ page.fetch = "idle"
    /\ Spend("fetches")
    /\ page' = [page EXCEPT !.fetch = "asked"]
    /\ UNCHANGED <<people, directory, req, records, post, clock, one, all, overlapped, bell>>

ServeList ==
    /\ page.fetch = "asked"
    /\ page' = [page EXCEPT !.fetch = "read", !.got = FirstPage]
    /\ UNCHANGED <<serverVars, one, all, overlapped, bell>>

ListArrives ==
    /\ page.fetch = "read"
    /\ page' = [shown |-> page.got, fetch |-> "idle", got |-> {}]
    /\ overlapped' = (overlapped /\ (one.pc # "idle" \/ all.pc # "idle"))
    /\ UNCHANGED <<serverVars, one, all, bell>>

(* onMutate: the query in flight is cancelled, the list is remembered and     *)
(* changed at once.                                                           *)
Optimistic(list) == page' = [shown |-> list, fetch |-> "idle", got |-> {}]

MarkOne(n) ==
    /\ one.pc = "idle" /\ ~n.read
    /\ Spend("clicks")
    /\ one' = [pc |-> "sent", id |-> n.id, previous |-> page.shown]
    /\ Optimistic(ReadOne(page.shown, n.id))
    /\ overlapped' = (overlapped \/ all.pc # "idle")
    /\ UNCHANGED <<people, directory, req, records, post, clock, all, bell>>

MarkAll ==
    /\ all.pc = "idle" /\ Unread(page.shown) # {}
    /\ Spend("clicks")
    /\ all' = [pc |-> "sent", previous |-> page.shown]
    /\ Optimistic(ReadAll(page.shown))
    /\ overlapped' = (overlapped \/ one.pc # "idle")
    /\ UNCHANGED <<people, directory, req, records, post, clock, one, bell>>

Serve(list) ==
    /\ store' = list
    /\ UNCHANGED <<people, directory, req, nextId, unpruned, post, clock, budget>>

(* markAsRead and markAllRead at the service. *)
ApplyOne ==
    /\ one.pc = "sent"
    /\ one' = [one EXCEPT !.pc = "applied"]
    /\ Serve(ReadOne(store, one.id))
    /\ UNCHANGED <<page, all, overlapped, bell>>

ApplyAll ==
    /\ all.pc = "sent"
    /\ all' = [all EXCEPT !.pc = "applied"]
    /\ Serve((store \ Of(Reader)) \cup ReadAll(Of(Reader)))
    /\ UNCHANGED <<page, one, overlapped, bell>>

NoOne == [pc |-> "idle", id |-> 0, previous |-> {}]
NoAll == [pc |-> "idle", previous |-> {}]

OneDone ==
    /\ one.pc = "applied"
    /\ one' = NoOne
    /\ UNCHANGED <<serverVars, page, all, overlapped, bell>>

AllDone ==
    /\ all.pc = "applied"
    /\ all' = NoAll
    /\ UNCHANGED <<serverVars, page, one, overlapped, bell>>

(* Mutant: an error leaves the list as it is. *)
KeepShown(previous) == page' = page

(* onError, of a request that failed or of one whose answer was lost. *)
Rollback(previous) == page' = [page EXCEPT !.shown = previous]

OneFails ==
    /\ one.pc # "idle"
    /\ Spend("faults")
    /\ Rollback(one.previous)
    /\ one' = NoOne
    /\ UNCHANGED <<people, directory, req, records, post, clock, all, overlapped, bell>>

AllFails ==
    /\ all.pc # "idle"
    /\ Spend("faults")
    /\ Rollback(all.previous)
    /\ all' = NoAll
    /\ UNCHANGED <<people, directory, req, records, post, clock, one, overlapped, bell>>

-----------------------------------------------------------------------------
(* The bell.  Its list is fetched when it opens; marking one record changes   *)
(* the badge and the list at once, marking all when the answer is there.      *)

(* GET notify/unread-count has no guard at the service: it counts for a       *)
(* recipient 'anonymous' that no record is for.                               *)
UnreadCount == 0

PollBadge ==
    /\ Spend("bells")
    /\ bell' = [bell EXCEPT !.badge = UnreadCount]
    /\ UNCHANGED <<people, directory, req, records, post, clock, page, one, all, overlapped>>

OpenBell ==
    /\ Spend("bells")
    /\ bell' = [bell EXCEPT !.list = FirstPage]
    /\ UNCHANGED <<people, directory, req, records, post, clock, page, one, all, overlapped>>

Decremented(count) == IF count > 0 THEN count - 1 ELSE 0

BellRead(n) ==
    /\ ~n.read
    /\ Spend("clicks")
    /\ bell' = [badge |-> Decremented(bell.badge),
                list |-> ReadOne(bell.list, n.id), sent |-> bell.sent \cup {n.id}]
    /\ UNCHANGED <<people, directory, req, records, post, clock, page, one, all, overlapped>>

BellReadApplied(id) ==
    /\ bell' = [bell EXCEPT !.sent = @ \ {id}]
    /\ Serve(ReadOne(store, id))
    /\ UNCHANGED <<page, one, all, overlapped>>

BellReadFails(id) ==
    /\ Spend("faults")
    /\ bell' = [bell EXCEPT !.sent = @ \ {id}, !.badge = @ + 1]
    /\ UNCHANGED <<people, directory, req, records, post, clock, page, one, all, overlapped>>

BellReadAll ==
    /\ bell.badge > 0
    /\ bell' = [bell EXCEPT !.badge = 0, !.list = ReadAll(@)]
    /\ Serve((store \ Of(Reader)) \cup ReadAll(Of(Reader)))
    /\ UNCHANGED <<page, one, all, overlapped>>

-----------------------------------------------------------------------------
WebInit ==
    /\ page = [shown |-> {}, fetch |-> "idle", got |-> {}]
    /\ one = NoOne
    /\ all = NoAll
    /\ overlapped = FALSE
    /\ bell = [badge |-> 0, list |-> {}, sent |-> {}]

PageNext ==
    \/ Refetch \/ ServeList \/ ListArrives
    \/ \E n \in page.shown : MarkOne(n)
    \/ MarkAll \/ ApplyOne \/ ApplyAll \/ OneDone \/ AllDone \/ OneFails \/ AllFails

BellNext ==
    \/ PollBadge \/ OpenBell \/ BellReadAll
    \/ \E n \in bell.list : BellRead(n)
    \/ \E id \in bell.sent : BellReadApplied(id) \/ BellReadFails(id)

Init == ServerInit /\ WebInit
Next == (ServerNext /\ UNCHANGED webVars) \/ PageNext \/ BellNext

vars == <<serverVars, webVars>>

(* A step of a sender and of a browser is taken sooner or later: every await  *)
(* is answered or times out.                                                  *)
Fairness ==
    /\ \A r \in Requests : WF_vars(Sending(r) /\ UNCHANGED webVars)
    /\ WF_vars(\E m \in mails : Mailing(m) /\ UNCHANGED webVars)
    /\ WF_vars(ServeList \/ ListArrives)
    /\ WF_vars(ApplyOne \/ OneDone \/ OneFails)
    /\ WF_vars(ApplyAll \/ AllDone \/ AllFails)

NotifySpec == Init /\ [][Next]_vars /\ Fairness

-----------------------------------------------------------------------------
(* Every variable has its type. *)
NotifyTypeOK ==
    /\ ServerTypeOK
    /\ page \in [shown : Shown, fetch : Fetch, got : Shown]
    /\ one \in [pc : Progress, id : Nat, previous : Shown]
    /\ all \in [pc : Progress, previous : Shown]
    /\ overlapped \in BOOLEAN
    /\ bell \in [badge : Nat, list : Shown, sent : SUBSET Nat]

(* What the page shows as read is read at the service, or a mutation that     *)
(* makes it so is on its way, or the two mutations overlapped: a failure of   *)
(* the first then hides, and one of the second resurrects, what the other did.*)
StoredRead(n) == \A m \in store : m.id = n.id => m.read
PageTruth ==
    \A n \in page.shown :
      n.read /\ ~StoredRead(n)
      => \/ one.pc = "sent" /\ one.id = n.id
         \/ all.pc = "sent"
         \/ overlapped

(* Stated of the code and refuted (README): the badge shows how many of the   *)
(* reader's notifications are unread; the bell shows no record as read that   *)
(* is not, after the failure of marking it; the page never does.              *)
BadgeCounts == [][(PollBadge) => bell'.badge = Cardinality(Unread(Of(Reader)))]_vars
BellTruth == \A n \in bell.list : n.read => StoredRead(n) \/ n.id \in bell.sent
PageNeverAhead ==
    \A n \in page.shown : n.read /\ ~StoredRead(n) => one.pc = "sent" \/ all.pc = "sent"
=============================================================================
