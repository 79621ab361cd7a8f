---------------------------- MODULE ServoClient ----------------------------
(***************************************************************************)
(* The gRPC servo client of src/unnamed/part_000 (lines 16-89): Move and   *)
(* AngularOffset build a request carrying the client's name, make one      *)
(* unary call on the shared connection and return the reply or the error   *)
(* verbatim, with no retry; Close closes the connection.                   *)
(*                                                                         *)
(* The connection is unreliable: a request or a reply can be lost, and a   *)
(* call can end with a deadline or cancellation error while its request    *)
(* is still in flight or has already been executed.  The server side (the  *)
(* servo service and driver, not in this repository's src/) is modelled   *)
(* from the spec: it executes each request it receives once and replies.  *)
(***************************************************************************)
EXTENDS Integers, FiniteSets

CONSTANTS
    Callers,    \* goroutines sharing one client
    Angles,     \* angles (uint8) that callers pass to Move
    MaxCalls,   \* calls each goroutine makes
    MaxCloses   \* calls of Close

ASSUME ServoAssumption ==
    /\ Angles \subseteq 0..255
    /\ MaxCalls \in Nat /\ MaxCloses \in Nat

VARIABLES
    conn,     \* state of the dialer.ClientConn: "open" or "closed"
    closes,   \* how many times conn.Close has been called
    pc,       \* "idle" or "wait" (a unary call in progress)
    calls,    \* calls[c]: number of calls goroutine c has started
    req,      \* req[c]: the request of c's last call
    net,      \* requests and replies in flight
    servo,    \* the angle the remote servo was last moved to
    applied,  \* applied[<<c, k>>]: times the server executed call k of c
    outcome   \* outcome[c]: "ok" or "err" of c's last call, or "none"

vars == <<conn, closes, pc, calls, req, net, servo, applied, outcome>>

CallIds == Callers \X (1..MaxCalls)

NoRequest == [type |-> "req", id |-> <<>>, method |-> "none", angle |-> 0]

Init ==
    /\ conn = "open"
    /\ closes = 0
    /\ pc = [c \in Callers |-> "idle"]
    /\ calls = [c \in Callers |-> 0]
    /\ req = [c \in Callers |-> NoRequest]
    /\ net = {}
    /\ servo = 0
    /\ applied = [id \in CallIds |-> 0]
    /\ outcome = [c \in Callers |-> "none"]

-----------------------------------------------------------------------------
(* Mutant: a call on a closed connection reports its error but the      *)
(* request still goes out.                                                 *)
Invoke_SendWhenClosed(c, r) ==
    /\ pc[c] = "idle"
    /\ calls[c] < MaxCalls
    /\ calls' = [calls EXCEPT ![c] = @ + 1]
    /\ req' = [req EXCEPT ![c] = r]
    /\ net' = net \cup {r}
    /\ IF conn = "closed"
         THEN /\ outcome' = [outcome EXCEPT ![c] = "err"]
              /\ UNCHANGED pc
         ELSE /\ pc' = [pc EXCEPT ![c] = "wait"]
              /\ UNCHANGED outcome
    /\ UNCHANGED <<conn, closes, servo, applied>>

(* Starting a unary call: on a closed connection gRPC fails it at once;   *)
(* otherwise the request goes out.                                        *)
Invoke(c, r) ==
    /\ pc[c] = "idle"
    /\ calls[c] < MaxCalls
    /\ calls' = [calls EXCEPT ![c] = @ + 1]
    /\ req' = [req EXCEPT ![c] = r]
    /\ IF conn = "closed"
         THEN /\ outcome' = [outcome EXCEPT ![c] = "err"]
              /\ UNCHANGED <<pc, net>>
         ELSE /\ net' = net \cup {r}
              /\ pc' = [pc EXCEPT ![c] = "wait"]
              /\ UNCHANGED outcome
    /\ UNCHANGED <<conn, closes, servo, applied>>

(* Mutant: the angle goes through a signed byte, uint32(int8(angle)), and *)
(* angles from 128 up are sign-extended (the wire value 2^32 + a - 256 is *)
(* written as its int32 reading a - 256).                                  *)
Move_SignExtend(c, a) ==
    Invoke(c, [type |-> "req", id |-> <<c, calls[c] + 1>>, method |-> "Move",
               angle |-> IF a >= 128 THEN a - 256 ELSE a])

(* client.Move: ServoServiceMoveRequest{AngleDeg: uint32(angle), Name};   *)
(* widening a uint8 to uint32 keeps its value.                            *)
Move(c, a) ==
    Invoke(c, [type |-> "req", id |-> <<c, calls[c] + 1>>,
               method |-> "Move", angle |-> a])

(* client.AngularOffset: ServoServiceAngularOffsetRequest{Name}.          *)
AngularOffset(c) ==
    Invoke(c, [type |-> "req", id |-> <<c, calls[c] + 1>>,
               method |-> "AngularOffset", angle |-> 0])

(* The servo service receives a request, runs it on the driver and        *)
(* replies with the servo's angle.                                        *)
Serve(m) ==
    /\ m \in net
    /\ m.type = "req"
    /\ servo' = IF m.method = "Move" THEN m.angle ELSE servo
    /\ applied' = IF m.method = "Move" THEN [applied EXCEPT ![m.id] = @ + 1] ELSE applied
    /\ net' = (net \ {m}) \cup {[type |-> "rep", id |-> m.id, method |-> m.method,
                                  angle |-> IF m.method = "Move" THEN m.angle ELSE servo]}
    /\ UNCHANGED <<conn, closes, pc, calls, req, outcome>>

(* A request or a reply is lost.                                          *)
Lose(m) ==
    /\ m \in net
    /\ net' = net \ {m}
    /\ UNCHANGED <<conn, closes, pc, calls, req, servo, applied, outcome>>

(* The reply of the call in progress arrives; the client returns nil (and *)
(* for AngularOffset the narrowed angle).                                 *)
Reply(c, m) ==
    /\ pc[c] = "wait"
    /\ m \in net
    /\ m.type = "rep" /\ m.id = <<c, calls[c]>>
    /\ net' = net \ {m}
    /\ pc' = [pc EXCEPT ![c] = "idle"]
    /\ outcome' = [outcome EXCEPT ![c] = "ok"]
    /\ UNCHANGED <<conn, closes, calls, req, servo, applied>>

(* Mutant: the error is dropped and the call reports success.            *)
Fail_SwallowErr(c) ==
    /\ pc[c] = "wait"
    /\ pc' = [pc EXCEPT ![c] = "idle"]
    /\ outcome' = [outcome EXCEPT ![c] = "ok"]
    /\ UNCHANGED <<conn, closes, calls, req, net, servo, applied>>

(* Mutant: on an error the request is sent again (a retry at this layer). *)
Fail_Retry(c) ==
    /\ pc[c] = "wait"
    /\ conn = "open"
    /\ net' = net \cup {req[c]}
    /\ UNCHANGED <<conn, closes, pc, calls, req, servo, applied, outcome>>

(* The call ends with an error (deadline, cancellation, or the connection *)
(* closing under it) and the client returns it verbatim: `if err != nil { *)
(* return err }`.                                                         *)
Fail(c) ==
    /\ pc[c] = "wait"
    /\ pc' = [pc EXCEPT ![c] = "idle"]
    /\ outcome' = [outcome EXCEPT ![c] = "err"]
    /\ UNCHANGED <<conn, closes, calls, req, net, servo, applied>>

(* serviceClient.Close: return sc.conn.Close().                           *)
Close ==
    /\ closes < MaxCloses
    /\ closes' = closes + 1
    /\ conn' = "closed"
    /\ UNCHANGED <<pc, calls, req, net, servo, applied, outcome>>

Next ==
    \/ \E c \in Callers :
          \/ \E a \in Angles : Move(c, a)
          \/ AngularOffset(c)
          \/ Fail(c)
          \/ \E m \in net : Reply(c, m)
    \/ \E m \in net : Serve(m) \/ Lose(m)
    \/ Close

Spec == Init /\ [][Next]_vars

-----------------------------------------------------------------------------
Messages ==
    [type : {"req", "rep"}, id : CallIds, method : {"Move", "AngularOffset"},
     angle : Angles \cup {0}]

TypeOK ==
    /\ conn \in {"open", "closed"}
    /\ closes \in 0..MaxCloses
    /\ pc \in [Callers -> {"idle", "wait"}]
    /\ calls \in [Callers -> 0..MaxCalls]
    /\ req \in [Callers -> [type : {"req"}, id : (CallIds \cup {<<>>}),
                            method : {"none", "Move", "AngularOffset"},
                            angle : Angles \cup {0}]]
    /\ net \in SUBSET Messages
    /\ servo \in Angles \cup {0}
    /\ applied \in [CallIds -> Nat]
    /\ outcome \in [Callers -> {"none", "ok", "err"}]

(* A Move that returned nil was executed by the servo: the client never   *)
(* reports success for a request the server did not run.                  *)
SuccessImpliesApplied ==
    \A c \in Callers :
        (req[c].method = "Move" /\ outcome[c] = "ok" /\ pc[c] = "idle")
            => applied[<<c, calls[c]>>] >= 1

(* No Move is executed twice, whatever is lost and whenever calls time    *)
(* out: the client does not retry (spec 4.3).                             *)
AppliedAtMostOnce ==
    \A id \in CallIds : applied[id] <= 1

(* The spec says closing the adapter closes the connection exactly once.  *)
CloseOnce == closes <= 1

-----------------------------------------------------------------------------
(* The refinement mapping onto AtMostOnceServo: the requests in flight are *)
(* the requests that may still run; replies are hidden.                    *)
LiveRequests == {m \in net : m.type = "req"}

AMO == INSTANCE AtMostOnceServo WITH live <- LiveRequests

(* The client over the lossy connection implements the at-most-once call  *)
(* of spec 4.3: every request runs at most once, a success is reported    *)
(* only for a Move that ran, and no request is sent twice.                *)
AtMostOnceRefinement == AMO!Spec

=============================================================================
