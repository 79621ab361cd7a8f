---------------------------- MODULE AtMostOnceServo ----------------------------
(***************************************************************************)
(* What the servo client promises its callers (spec 4.3), without the      *)
(* network: a call sends its request once; the request runs on the servo   *)
(* at most once, possibly after the call has given up, or never; a call    *)
(* reports success only after its Move has run; errors are returned as     *)
(* they are, with no retry; a closed client fails every new call at once. *)
(* ServoClient implements it: its requests in flight are the requests     *)
(* that may still run, and its replies are hidden.                         *)
(***************************************************************************)
EXTENDS Integers

CONSTANTS Callers, Angles, MaxCalls, MaxCloses

VARIABLES
    conn,     \* "open" or "closed"
    closes,   \* calls of Close so far
    pc,       \* pc[c]: "idle" or "wait"
    calls,    \* calls[c]: calls goroutine c has started
    req,      \* req[c]: the request of c's last call
    live,     \* requests sent that may still run on the servo
    servo,    \* the angle the servo was last moved to
    applied,  \* applied[id]: times the Move of call id has run
    outcome   \* outcome[c]: "ok", "err" or "none"

vars == <<conn, closes, pc, calls, req, live, servo, applied, outcome>>

CallIds == Callers \X (1..MaxCalls)

Init ==
    /\ conn = "open"
    /\ closes = 0
    /\ pc = [c \in Callers |-> "idle"]
    /\ calls = [c \in Callers |-> 0]
    /\ req = [c \in Callers |-> [type |-> "req", id |-> <<>>, method |-> "none", angle |-> 0]]
    /\ live = {}
    /\ servo = 0
    /\ applied = [id \in CallIds |-> 0]
    /\ outcome = [c \in Callers |-> "none"]

(* A call starts: it fails at once on a closed client, else its request  *)
(* is sent.                                                                *)
Invoke(c, r) ==
    /\ pc[c] = "idle"
    /\ calls[c] < MaxCalls
    /\ calls' = [calls EXCEPT ![c] = @ + 1]
    /\ req' = [req EXCEPT ![c] = r]
    /\ IF conn = "closed"
         THEN /\ outcome' = [outcome EXCEPT ![c] = "err"]
              /\ UNCHANGED <<pc, live>>
         ELSE /\ live' = live \cup {r}
              /\ pc' = [pc EXCEPT ![c] = "wait"]
              /\ UNCHANGED outcome
    /\ UNCHANGED <<conn, closes, servo, applied>>

(* A request runs on the servo, once: it is no longer live afterwards.    *)
Execute(m) ==
    /\ m \in live
    /\ live' = live \ {m}
    /\ servo' = IF m.method = "Move" THEN m.angle ELSE servo
    /\ applied' = IF m.method = "Move" THEN [applied EXCEPT ![m.id] = @ + 1] ELSE applied
    /\ UNCHANGED <<conn, closes, pc, calls, req, outcome>>

(* A request is lost and will never run.                                  *)
Drop(m) ==
    /\ m \in live
    /\ live' = live \ {m}
    /\ UNCHANGED <<conn, closes, pc, calls, req, servo, applied, outcome>>

(* The call returns success: a Move only once it has run.                 *)
Return(c) ==
    /\ pc[c] = "wait"
    /\ req[c].method = "Move" => applied[<<c, calls[c]>>] >= 1
    /\ pc' = [pc EXCEPT ![c] = "idle"]
    /\ outcome' = [outcome EXCEPT ![c] = "ok"]
    /\ UNCHANGED <<conn, closes, calls, req, live, servo, applied>>

(* The call returns an error, whatever became of its request.             *)
Fail(c) ==
    /\ pc[c] = "wait"
    /\ pc' = [pc EXCEPT ![c] = "idle"]
    /\ outcome' = [outcome EXCEPT ![c] = "err"]
    /\ UNCHANGED <<conn, closes, calls, req, live, servo, applied>>

Close ==
    /\ closes < MaxCloses
    /\ closes' = closes + 1
    /\ conn' = "closed"
    /\ UNCHANGED <<pc, calls, req, live, servo, applied, outcome>>

Next ==
    \/ \E c \in Callers :
          \/ \E r \in [type : {"req"}, id : {<<c, calls[c] + 1>>},
                       method : {"Move"}, angle : Angles] : Invoke(c, r)
          \/ Invoke(c, [type |-> "req", id |-> <<c, calls[c] + 1>>,
                        method |-> "AngularOffset", angle |-> 0])
          \/ Return(c)
          \/ Fail(c)
    \/ \E m \in live : Execute(m) \/ Drop(m)
    \/ Close

Spec == Init /\ [][Next]_vars

=============================================================================
