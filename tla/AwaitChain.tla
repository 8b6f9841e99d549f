----------------------------- MODULE AwaitChain -----------------------------
(***************************************************************************)
(* What "co_await f()" promises, src/src/async/: coroutines 0 .. Depth     *)
(* each call the next one and await it.  The last ends with a value or an  *)
(* exception; every other one takes the outcome of the one it awaits, once *)
(* and not before its end, and ends with what it took, unless it catches   *)
(* it.                                                                     *)
(***************************************************************************)
EXTENDS Naturals

CONSTANTS
    Depth,      \* the coroutine nobody awaits is 0, the last is Depth
    Catchers    \* coroutines that catch ClosedTransportException

VARIABLES
    outcome,    \* coroutine -> what it ended with
    taken       \* coroutines whose outcome was taken

vars == <<outcome, taken>>

Frames == 0 .. Depth

Outcomes == {"value", "closed", "other"}

Init ==
    /\ outcome = [i \in Frames |-> "pending"]
    /\ taken = {}

(* What a coroutine may end with after it took o. *)
Passed(i, o) == {o} \cup IF i \in Catchers /\ o = "closed" THEN {"value"}
                         ELSE {}

MayEndWith(i, o) ==
    /\ outcome[i] = "pending"
    /\ i < Depth => i + 1 \in taken /\ o \in Passed(i, outcome[i + 1])

End(i, o) ==
    /\ MayEndWith(i, o)
    /\ outcome' = [outcome EXCEPT ![i] = o]
    /\ UNCHANGED taken

(* The blocking wait takes the outcome of coroutine 0, which is a value:   *)
(* an exception has ended the process.                                     *)
Take(i) ==
    /\ outcome[i] # "pending" /\ i \notin taken
    /\ i = 0 => outcome[0] = "value"
    /\ taken' = taken \cup {i}
    /\ UNCHANGED outcome

(* A coroutine that fails before it was ever suspended ends inside the     *)
(* call: its exception is the caller's at once.  Coroutines 0 and 1 are    *)
(* called by the thread that waits, which is not in the chain.             *)
Fail(i, o) ==
    /\ i > 1 /\ o # "value"
    /\ MayEndWith(i, o)
    /\ outcome' = [outcome EXCEPT ![i] = o]
    /\ taken' = taken \cup {i}

Next ==
    \E i \in Frames :
        Take(i) \/ \E o \in Outcomes : End(i, o) \/ Fail(i, o)

Spec == Init /\ [][Next]_vars
=============================================================================
