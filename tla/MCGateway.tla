----------------------------- MODULE MCGateway -----------------------------
(* The gateway with the tables of Routes.  A behaviour is about one thing:    *)
(* every route for every role, tokens that age, proofs, or the rate limit.    *)
EXTENDS Gateway, Routes

CONSTANTS ann, ben, q1, q2

MCRoles == RoleNames \cup {"co"}

MCLimits == [route \in DOMAIN RouteRoles |-> 2]

MCBudgets ==
    LET spend(who, slots, crews, routes, s, l, m, t, f, w, recent) ==
          [who |-> who, slots |-> slots, crews |-> crews, routes |-> routes, sends |-> s,
           logins |-> l, moves |-> m, ticks |-> t, faults |-> f, windows |-> w, recent |-> recent]
        single == {{role} : role \in MCRoles}
        sensitive == {"proof", "retentionRun", "evidence"}
    IN {spend({ann}, {q1}, {c}, DOMAIN RouteRoles, 1, 1, 0, 0, 1, 0, FALSE)
          : c \in single \cup {{"viewer", "approver"}}}
       \cup {spend({ann}, {q1}, {{"editor"}, {"approver"}, {"viewer"}},
                   {"submit", "approve", "upload"}, 1, 2, 1, 3, 0, 0, FALSE),
             spend({ann, ben}, {q1, q2}, {{"admin"}}, {"list"}, 3, 2, 0, 0, 0, 1, FALSE),
             spend({ann, ben}, {q1}, {{"admin"}}, {"proof", "retentionRun"}, 2, 2, 0, 1, 0, 0, FALSE)}
       \cup {spend({ann}, {q1}, {{"admin"}, {"co"}}, sensitive, 2, 1, 1, 3, 0, 0, recent)
                : recent \in BOOLEAN}
=============================================================================
