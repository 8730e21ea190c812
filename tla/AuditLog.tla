------------------------------ MODULE AuditLog ------------------------------
(***************************************************************************)
(* What the audit log promises its callers: one append-only sequence of    *)
(* payloads per epoch.  An entry is stored at most once, in one epoch; an  *)
(* acknowledgement is only ever given for a stored entry; nothing stored   *)
(* is ever changed or reordered.  An epoch whose stored events were        *)
(* damaged is no longer trusted, and promises nothing any more.            *)
(***************************************************************************)
EXTENDS Naturals, Sequences

CONSTANTS Body, EpochIds

VARIABLES log, trusted, acked

vars == <<log, trusted, acked>>

Init ==
    /\ log = [e \in EpochIds |-> <<>>]
    /\ trusted = EpochIds
    /\ acked = {}

Stored(b) == \E e \in EpochIds : \E k \in DOMAIN log[e] : log[e][k] = b

(* The entry is stored; its caller may or may not learn of it. *)
Store(e, b) ==
    /\ e \in trusted
    /\ ~Stored(b)
    /\ log' = [log EXCEPT ![e] = Append(@, b)]
    /\ acked' \in {acked, acked \cup {[epoch |-> e, body |-> b]}}
    /\ UNCHANGED trusted

(* Nothing is known of an entry stored in an epoch that is not trusted. *)
StoreUntrusted(e, b) ==
    /\ e \notin trusted
    /\ acked' = acked \cup {[epoch |-> e, body |-> b]}
    /\ UNCHANGED <<log, trusted>>

Distrust(e) ==
    /\ trusted' = trusted \ {e}
    /\ log' = [log EXCEPT ![e] = <<>>]
    /\ UNCHANGED acked

Next ==
    \E e \in EpochIds :
        \/ Distrust(e)
        \/ \E b \in Body : Store(e, b) \/ StoreUntrusted(e, b)

Spec == Init /\ [][Next]_vars
=============================================================================
