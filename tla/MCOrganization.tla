--------------------------- MODULE MCOrganization ---------------------------
(* Three users; the founder of acme, and a founder of an organization alone. *)
EXTENDS Organization, TLC

CONSTANTS ann, ben, cat, acme, solo, i1, i2, r1, r2

MCOwnerOf == [o \in Orgs |-> IF o = acme THEN ann ELSE ben]

MCSeeds ==
    LET row(o, u, r) == [org |-> o, user |-> u, role |-> r, since |-> 0]
        founders == {row(acme, ann, "ADMIN"), row(solo, ben, "ADMIN")}
    IN {founders, founders \cup {row(acme, cat, "MEMBER")}, founders \cup {row(acme, cat, "ADMIN")}}

(* Ann and cat work in acme; ann invites ben, who is alone, and cat, whom ben *)
(* invites too; ann and cat may be demoted or removed, ann by an addition.    *)
MCCalls ==
    LET call(a, op, t, r) == [actor |-> a, op |-> op, target |-> t, role |-> r]
    IN {call(u, "use", u, "MEMBER") : u \in {ann, cat}}
       \cup {call(ann, "add", u, "MEMBER") : u \in {ann, ben, cat}}
       \cup {call(ben, "add", cat, "ADMIN")}
       \cup {call(ann, "update", u, "MEMBER") : u \in {ann, cat}}
       \cup {call(ann, "update", cat, "ADMIN")}
       \cup {call(ann, "remove", u, "MEMBER") : u \in {ann, cat}}

(* The instances are alike, and so are the requests. *)
OrgSymmetry == Permutations(Instances) \cup Permutations(Requests)
=============================================================================
