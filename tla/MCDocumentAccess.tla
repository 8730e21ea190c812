--------------------------- MODULE MCDocumentAccess ---------------------------
(* The owner and another editor; entries that let him download or not. *)
EXTENDS DocumentAccess, TLC

CONSTANTS owner, edi, s1, s2

MCRolesOf == [u \in Users |-> {"editor"}]
MCGroupsOf == [u \in Users |-> {}]

DownloadRules ==
    {e \in Entries : e.permission = "DOWNLOAD" /\ e.type = "USER" /\ e.subject = edi /\ e.effect = "ALLOW"}

SlotSymmetry == Permutations(Slots)
===============================================================================
