-------------------------- MODULE MCSecurityCenter --------------------------
(* Logs that stand just below a threshold, and few steps from there. *)
EXTENDS SecurityCenter

CONSTANTS ann, bob, co, admin, d1, d2

MCSla == [severity \in {"critical", "warning", "info"} |-> CASE severity = "critical" -> 1 [] severity = "warning" -> 2 [] OTHER -> 4]

Download(a, d, level) == Entry("download", a, d, level, 0)
Preview(a, d, level) == Entry("preview", a, d, level, 0)
Refused(a, d) == Entry("refused", a, d, "UNKNOWN", 0)
Failed(a, d) == Entry("failed", a, d, "UNKNOWN", 0)
Denied1(a) == Entry("denied", a, "none", "UNKNOWN", 0)
Deleted(a, d) == Entry("aclDeleted", a, d, "UNKNOWN", 0)
Changed(a, d) == Entry("changed", a, d, "UNKNOWN", 0)
Found(a, kind) == Entry(kind, a, d1, "UNKNOWN", 0)

Times(n, e) == [i \in 1..n |-> e]
LogOf(s) == [i \in DOMAIN s |-> [s[i] EXCEPT !.id = i]]

(* Four previews of a public document: one more is a signal, of score 80 with a download. *)
Reading == LogOf(Times(4, Preview(ann, d1, "PUBLIC")))
(* Two reads of an internal document, by the two actors. *)
Shared == LogOf(<<Preview(ann, d1, "INTERNAL"), Preview(bob, d1, "INTERNAL")>>)
(* Seven refusals: a warning at 78, critical with one more. *)
Refusals == LogOf(Times(7, Refused(bob, d1)))
(* Two removed entries: a signal of score 80. *)
Stripped == LogOf(Times(2, Deleted(ann, d1)))
(* The same with two updates of its case, the older one appended last. *)
Update(u, at) == [Entry("status", u, "none", "UNKNOWN", at)
                    EXCEPT !.rec = [kind |-> "DESTRUCTIVE", of |-> ann], !.status = "INVESTIGATING",
                           !.note = "text"]
Handled == LogOf(Times(2, Deleted(ann, d1)) \o <<Update(co, 1), Update(admin, 0)>>)
(* Two refusals, and one more is a deny recommendation or a signal of score 50. *)
FewRefusals == LogOf(Times(2, Denied1(bob)))
(* Three downloads, a page and a half. *)
Taken == LogOf(<<Download(ann, d1, "SECRET"), Download(bob, d1, "SECRET"), Download(ann, d2, "PUBLIC")>>)
(* One removed entry: the second one is a signal. *)
Removed == LogOf(<<Deleted(ann, d1), Found(bob, "dlp")>>)

Step(status, note) == [status |-> status, note |-> note]
Light == {Step("REVIEWED", "text"), Step("RESOLVED", "text")}
CaseWork == {Step("INVESTIGATING", "text"), Step("REVIEWED", "draft"), Step("RESOLVED", "case")}

Some(l, acts, users, e, t, b, q, v, steps, s, h, f, w, c) ==
    [log |-> l, budget |-> [activity |-> acts, officers |-> users, events |-> e, ticks |-> t, breaks |-> b,
        queries |-> q, verifies |-> v, steps |-> steps, saves |-> s, loads |-> h, faults |-> f,
        windows |-> w, selects |-> c]]

MCScenarios ==
    {Some(Reading, {Download(ann, d1, "PUBLIC"), Preview(ann, d2, "SECRET"), Changed(ann, d2)}, {co}, 2, 1, 0, 1, 0, {}, 0, 0, 0, 0, 0),
     Some(Shared, {Preview(ann, d2, "SECRET")}, {co}, 1, 0, 2, 2, 0, {}, 0, 0, 0, 0, 0),
     Some(Refusals, {Refused(bob, d1), Refused(bob, d2), Failed(bob, d1)}, {co}, 1, 0, 0, 1, 0, Light \cup CaseWork, 2, 0, 0, 0, 0),
     Some(FewRefusals, {Refused(bob, d1), Denied1(bob), Found(bob, "malware")}, {co}, 2, 1, 0, 1, 0, {}, 0, 0, 0, 0, 0),
     Some(Removed, {Deleted(ann, d2)}, {co, admin}, 1, 1, 0, 2, 0, {}, 0, 0, 1, 0, 0),
     Some(Handled, {}, {co}, 0, 2, 0, 2, 0, {Step("REVIEWED", "draft")}, 1, 0, 0, 0, 0),
     Some(Stripped, {}, {co, admin}, 0, 0, 0, 2, 0, {Step("INVESTIGATING", "text")}, 2, 0, 0, 0, 0),
     Some(Removed, {}, {co}, 0, 0, 0, 1, 1, Light, 2, 0, 0, 0, 0),
     Some(Removed, {}, {co}, 0, 0, 0, 2, 0, {Step("REVIEWED", "text")}, 1, 2, 1, 0, 0),
     Some(Taken, {Download(ann, d2, "SECRET"), Preview(bob, d1, "SECRET")}, {co}, 2, 1, 0, 1, 0, {}, 0, 0, 0, 1, 0),
     Some(Stripped, {}, {co}, 0, 0, 2, 2, 0, {}, 0, 0, 0, 0, 2)}
=============================================================================
