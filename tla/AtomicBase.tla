------------------------------ MODULE AtomicBase ------------------------------
(***************************************************************************)
(* What the reconfigurable Base wrapper promises (spec 4.2), with no lock: *)
(* a call is dispatched to the driver the wrapper holds at that moment and *)
(* runs on it until it returns, and Reconfigure swaps the held driver in   *)
(* one step that never happens while a call is running on that wrapper.   *)
(* ReconfigurableBase implements this module under the mapping that hides *)
(* the RWMutex and merges the lock stages into the stages they serve.     *)
(***************************************************************************)
EXTENDS Naturals, Sequences

CONSTANTS Callers, Wrappers, Instances, Foreign, None, CallMethods

VARIABLES
    actual,   \* actual[w]: the driver wrapper w holds
    status,   \* lifecycle of each wrapper value
    closed,   \* drivers released when they were swapped out
    pc,       \* "idle", "call" (waiting to be dispatched), "inCall", "reconf"
    wrapper,  \* the wrapper of the goroutine's current call
    newBase,  \* the argument of the goroutine's Reconfigure
    legs,     \* the Base calls the goroutine still has to make
    inst      \* the driver the running call was dispatched to

vars == <<actual, status, closed, pc, wrapper, newBase, legs, inst>>

Owned == {actual[w] : w \in Wrappers}

(* The Base calls a DoMove makes: a Spin, then a MoveStraight.            *)
Legs(spin, straight) ==
    (IF spin THEN <<"Spin">> ELSE <<>>) \o (IF straight THEN <<"MoveStraight">> ELSE <<>>)

Init ==
    /\ actual = [w \in Wrappers |-> None]
    /\ status = [w \in Wrappers |-> "unused"]
    /\ closed = {}
    /\ pc = [c \in Callers |-> "idle"]
    /\ wrapper = [c \in Callers |-> None]
    /\ newBase = [c \in Callers |-> None]
    /\ legs = [c \in Callers |-> <<>>]
    /\ inst = [c \in Callers |-> None]

Wrap(w, i) ==
    /\ status[w] = "unused"
    /\ i \notin Owned \cup closed
    /\ actual' = [actual EXCEPT ![w] = i]
    /\ status' = [status EXCEPT ![w] = "fresh"]
    /\ UNCHANGED <<closed, pc, wrapper, newBase, legs, inst>>

Publish(w) ==
    /\ status[w] = "fresh"
    /\ status' = [status EXCEPT ![w] = "live"]
    /\ UNCHANGED <<actual, closed, pc, wrapper, newBase, legs, inst>>

(* A goroutine calls a published wrapper: one method, or a DoMove.        *)
Call(c, w, ls) ==
    /\ pc[c] = "idle"
    /\ status[w] = "live"
    /\ ls # <<>>
    /\ pc' = [pc EXCEPT ![c] = "call"]
    /\ wrapper' = [wrapper EXCEPT ![c] = w]
    /\ legs' = [legs EXCEPT ![c] = ls]
    /\ UNCHANGED <<actual, status, closed, newBase, inst>>

(* The call is dispatched to the driver the wrapper holds now.            *)
Dispatch(c) ==
    /\ pc[c] = "call"
    /\ pc' = [pc EXCEPT ![c] = "inCall"]
    /\ inst' = [inst EXCEPT ![c] = actual[wrapper[c]]]
    /\ UNCHANGED <<actual, status, closed, wrapper, newBase, legs>>

(* The driver returns; a DoMove goes on to its next leg after a success.  *)
Return(c, ok) ==
    LET rest == IF ok THEN Tail(legs[c]) ELSE <<>> IN
    /\ pc[c] = "inCall"
    /\ pc' = [pc EXCEPT ![c] = IF rest = <<>> THEN "idle" ELSE "call"]
    /\ wrapper' = [wrapper EXCEPT ![c] = IF rest = <<>> THEN None ELSE wrapper[c]]
    /\ legs' = [legs EXCEPT ![c] = rest]
    /\ inst' = [inst EXCEPT ![c] = None]
    /\ UNCHANGED <<actual, status, closed, newBase>>

BeginReconfigure(c, r, n) ==
    /\ pc[c] = "idle"
    /\ status[r] = "live"
    /\ n \in {x \in Wrappers : status[x] = "fresh"} \cup {Foreign}
    /\ pc' = [pc EXCEPT ![c] = "reconf"]
    /\ wrapper' = [wrapper EXCEPT ![c] = r]
    /\ newBase' = [newBase EXCEPT ![c] = n]
    /\ status' = IF n = Foreign THEN status ELSE [status EXCEPT ![n] = "dropped"]
    /\ UNCHANGED <<actual, closed, legs, inst>>

(* The atomic swap: only while no call runs on r; a foreign argument      *)
(* fails and changes nothing; otherwise the old driver is released (a     *)
(* failed release still commits the swap) and n's driver is installed.    *)
Swap(c, closeOk) ==
    LET r == wrapper[c]
        n == newBase[c]
    IN
    /\ pc[c] = "reconf"
    /\ \A d \in Callers : pc[d] = "inCall" => wrapper[d] # r
    /\ IF n = Foreign
         THEN UNCHANGED <<actual, closed>>
         ELSE /\ closed' = IF closeOk THEN closed \cup {actual[r]} ELSE closed
              /\ actual' = [actual EXCEPT ![r] = actual[n]]
    /\ pc' = [pc EXCEPT ![c] = "idle"]
    /\ wrapper' = [wrapper EXCEPT ![c] = None]
    /\ newBase' = [newBase EXCEPT ![c] = None]
    /\ UNCHANGED <<status, legs, inst>>

Next ==
    \/ \E w \in Wrappers, i \in Instances : Wrap(w, i)
    \/ \E w \in Wrappers : Publish(w)
    \/ \E c \in Callers, w \in Wrappers :
          \/ \E m \in CallMethods : Call(c, w, <<m>>)
          \/ \E spin, straight \in BOOLEAN : Call(c, w, Legs(spin, straight))
          \/ \E n \in Wrappers \cup {Foreign} : BeginReconfigure(c, w, n)
    \/ \E c \in Callers :
          \/ Dispatch(c)
          \/ \E ok \in BOOLEAN : Return(c, ok)
          \/ \E closeOk \in BOOLEAN : Swap(c, closeOk)

Spec == Init /\ [][Next]_vars

=============================================================================
