------------------------- MODULE MCDocumentVersions -------------------------
(* Small instances of DocumentVersions. *)
EXTENDS DocumentVersions, TLC

CONSTANTS report, notes, clean, other, secret, virus

SameName == [s \in Slots |-> {report}]
OwnName == [s \in Slots |-> IF s = 1 THEN {report} ELSE {notes}]
AnyName == [s \in Slots |-> {report, notes}]

(* The key of an upload, whose version it takes or follows. *)
SomeClaims == [version : {2, 3}, key : {Key(2, report)}, checksum : {clean}, dlp : {"NOT_SCANNED"}]
=============================================================================
