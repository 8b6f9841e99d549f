------------------------------ MODULE RpcCalls ------------------------------
(***************************************************************************)
(* What ClientTransport::sendSmallRequest promises its callers, with no    *)
(* tags, no map of pending requests and no waiter coroutine: a call goes   *)
(* to the server, the server answers it, and only then does it return.     *)
(***************************************************************************)
CONSTANT
    Requests    \* the calls made on one connection

VARIABLE
    call        \* request -> how far its call has come

Phases == {"idle", "outstanding", "answered", "returned"}

Init == call = [r \in Requests |-> "idle"]

(* The request reaches the server. *)
Issue(r) ==
    /\ call[r] = "idle"
    /\ call' = [call EXCEPT ![r] = "outstanding"]

(* The server writes the response of this very request. *)
Answer(r) ==
    /\ call[r] = "outstanding"
    /\ call' = [call EXCEPT ![r] = "answered"]

(* The caller gets its result. *)
Return(r) ==
    /\ call[r] = "answered"
    /\ call' = [call EXCEPT ![r] = "returned"]

Next == \E r \in Requests : Issue(r) \/ Answer(r) \/ Return(r)

Spec == Init /\ [][Next]_call
=============================================================================
