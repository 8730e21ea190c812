------------------------------ MODULE FileStore ------------------------------
(***************************************************************************)
(* What the versions of a document promise: the file of a version is the   *)
(* file that was uploaded as that version (or the file of the version that *)
(* was restored), it can be read from then on, and it never changes.  Of a *)
(* version that its caller registered nothing is known.                    *)
(***************************************************************************)
EXTENDS Naturals, Sequences

CONSTANTS Contents, Infected, Unknown

VARIABLE files

Init == files = <<>>

Upload(c) ==
    /\ c \notin Infected
    /\ files' = Append(files, c)

Declare == files' = Append(files, Unknown)

Restore(v) ==
    /\ v # Len(files)
    /\ files' = Append(files, files[v])

Next ==
    \/ \E c \in Contents : Upload(c)
    \/ Declare
    \/ \E v \in DOMAIN files : Restore(v)

Spec == Init /\ [][Next]_files
=============================================================================
