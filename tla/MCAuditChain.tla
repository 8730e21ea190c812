---------------------------- MODULE MCAuditChain ----------------------------
(* Small instances of AuditChain: two copies of the service. *)
EXTENDS AuditChain, TLC

CONSTANTS r1, r2, r3, blue, green

(* Two requests on one instance, one on the other. *)
TwoAndOne == r1 :> blue @@ r2 :> blue @@ r3 :> green

(* One request on each instance. *)
OneEach == r1 :> blue @@ r2 :> green

(* A single request at a time. *)
Alone == r1 :> blue
=============================================================================
