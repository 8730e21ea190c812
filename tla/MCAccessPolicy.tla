---------------------------- MODULE MCAccessPolicy ----------------------------
(* Users for AccessReview: one for each role, the owner, one with two roles. *)
EXTENDS AccessReview

CONSTANTS owner, vic, edi, amy, col, root, both, staff

MCRolesOf ==
    [u \in Users |->
        CASE u = owner -> {"editor"}
          [] u = vic -> {"viewer"}
          [] u = edi -> {"editor"}
          [] u = amy -> {"approver"}
          [] u = col -> {"compliance_officer"}
          [] u = root -> {"admin"}
          [] u = both -> {"approver", "compliance_officer"}]

MCGroupsOf == [u \in Users |-> IF u \in {vic, amy} THEN {staff} ELSE {}]

(* Entries for everybody, a user, a role and a group. *)
MCEntries ==
    {e \in Entries : e.subject \in {"-", vic, "approver", "compliance_officer", staff}}
===============================================================================
