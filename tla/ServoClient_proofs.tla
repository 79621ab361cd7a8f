------------------------- MODULE ServoClient_proofs -------------------------
(***************************************************************************)
(* Proofs that the servo client never has a Move executed twice and never *)
(* reports a Move done that the servo did not execute, for every number   *)
(* of goroutines, calls and angles.                                        *)
(***************************************************************************)
EXTENDS ServoClient, TLAPS

(* The requests and replies in flight that belong to call id.             *)
ReqsOf(id) == {m \in net : m.type = "req" /\ m.id = id}

(* Messages name calls already started, one request per call, and a       *)
(* message of a goroutine's current call carries that call's method.      *)
NetInv ==
    /\ \A m \in net : m.id[2] <= calls[m.id[1]]
    /\ \A m1, m2 \in net : (m1.type = "req" /\ m2.type = "req" /\ m1.id = m2.id) => m1 = m2
    /\ \A m \in net : m.id[2] = calls[m.id[1]] => m.method = req[m.id[1]].method

(* A goroutine's last request is the one of its latest call.              *)
ReqInv ==
    \A c \in Callers :
        IF calls[c] = 0 THEN req[c] = NoRequest
        ELSE req[c].id = <<c, calls[c]>> /\ req[c].method \in {"Move", "AngularOffset"}

(* A call not yet started was never executed; an executed call has no    *)
(* request left in flight; a Move reply comes from an execution.          *)
AppliedInv ==
    /\ \A c \in Callers, k \in 1..MaxCalls : k > calls[c] => applied[<<c, k>>] = 0
    /\ \A id \in CallIds : applied[id] >= 1 => ReqsOf(id) = {}
    /\ \A m \in net : (m.type = "rep" /\ m.method = "Move") => applied[m.id] >= 1

IInv ==
    /\ TypeOK
    /\ NetInv
    /\ ReqInv
    /\ AppliedInv
    /\ AppliedAtMostOnce
    /\ SuccessImpliesApplied

USE ServoAssumption

-----------------------------------------------------------------------------
(* The initial state satisfies the inductive invariant.                   *)
LEMMA InitIInv == Init => IInv
<1> SUFFICES ASSUME Init PROVE IInv
  OBVIOUS
<1>1. TypeOK
  BY DEF Init, TypeOK, NoRequest, CallIds
<1>2. NetInv /\ ReqInv
  BY DEF Init, NetInv, ReqInv
<1>3. AppliedInv /\ AppliedAtMostOnce /\ SuccessImpliesApplied
  BY DEF Init, AppliedInv, AppliedAtMostOnce, SuccessImpliesApplied, ReqsOf, NoRequest, CallIds
<1> QED
  BY <1>1, <1>2, <1>3 DEF IInv

(* Starting a call (Move or AngularOffset) keeps the invariant: its       *)
(* request names a call number no message or execution has used yet.      *)
LEMMA InvokeIInv ==
  ASSUME IInv, NEW c \in Callers,
         NEW meth \in {"Move", "AngularOffset"}, NEW a \in Angles \cup {0},
         Invoke(c, [type |-> "req", id |-> <<c, calls[c] + 1>>, method |-> meth, angle |-> a])
  PROVE  IInv'
<1> DEFINE r == [type |-> "req", id |-> <<c, calls[c] + 1>>, method |-> meth, angle |-> a]
<1>0. /\ TypeOK /\ NetInv /\ ReqInv /\ AppliedInv /\ AppliedAtMostOnce /\ SuccessImpliesApplied
      /\ pc[c] = "idle" /\ calls[c] < MaxCalls
      /\ calls' = [calls EXCEPT ![c] = @ + 1]
      /\ req' = [req EXCEPT ![c] = r]
      /\ UNCHANGED <<conn, closes, servo, applied>>
  BY DEF IInv, Invoke
<1>1. calls[c] + 1 \in 1..MaxCalls
  BY <1>0 DEF TypeOK
<1>1a. r.id \in CallIds /\ r \in Messages
  BY <1>1 DEF Messages, CallIds
<1>1b. req' \in [Callers -> [type : {"req"}, id : CallIds \cup {<<>>},
                             method : {"none", "Move", "AngularOffset"},
                             angle : Angles \cup {0}]]
  BY <1>0, <1>1a DEF TypeOK
<1>1c. calls' \in [Callers -> 0..MaxCalls]
  BY <1>0, <1>1 DEF TypeOK
<1>2. CASE conn = "closed"
  <2>1. outcome' = [outcome EXCEPT ![c] = "err"] /\ pc' = pc /\ net' = net
    BY <1>2, <1>0 DEF Invoke
  <2>2. TypeOK'
    BY <1>0, <1>1b, <1>1c, <2>1 DEF TypeOK
  <2>3. NetInv'
    BY <1>0, <2>1 DEF NetInv, TypeOK, Messages, CallIds
  <2>4. ReqInv'
    BY <1>0, <2>1 DEF ReqInv, TypeOK
  <2>5. AppliedInv'
    BY <1>0, <2>1 DEF AppliedInv, ReqsOf, TypeOK
  <2>6. AppliedAtMostOnce'
    BY <1>0 DEF AppliedAtMostOnce
  <2>7. SuccessImpliesApplied'
    BY <1>0, <2>1 DEF SuccessImpliesApplied, TypeOK
  <2> QED
    BY <2>2, <2>3, <2>4, <2>5, <2>6, <2>7 DEF IInv
<1>3. CASE conn # "closed"
  <2>1. net' = net \cup {r} /\ pc' = [pc EXCEPT ![c] = "wait"] /\ outcome' = outcome
    BY <1>3, <1>0 DEF Invoke
  <2>0. \A m \in net : m.id # r.id
    BY <1>0 DEF NetInv, TypeOK, Messages, CallIds
  <2>2. TypeOK'
    BY <1>0, <1>1a, <1>1b, <1>1c, <2>1 DEF TypeOK
  <2>3. NetInv'
    <3>1. \A m \in net' : m.id[2] <= calls'[m.id[1]]
      BY <1>0, <1>1, <2>1 DEF NetInv, TypeOK, Messages, CallIds
    <3>2. \A m1, m2 \in net' : (m1.type = "req" /\ m2.type = "req" /\ m1.id = m2.id) => m1 = m2
      BY <1>0, <2>0, <2>1 DEF NetInv
    <3>3. \A m \in net' : m.id[2] = calls'[m.id[1]] => m.method = req'[m.id[1]].method
      BY <1>0, <1>1, <2>1 DEF NetInv, TypeOK, Messages, CallIds
    <3> QED
      BY <3>1, <3>2, <3>3 DEF NetInv
  <2>4. ReqInv'
    BY <1>0, <1>1 DEF ReqInv, TypeOK
  <2>5. AppliedInv'
    <3>1. applied[<<c, calls[c] + 1>>] = 0
      <4>1. \A k \in 1..MaxCalls : k > calls[c] => applied[<<c, k>>] = 0
        BY <1>0 DEF AppliedInv
      <4> QED
        BY <4>1, <1>0, <1>1 DEF TypeOK
    <3> QED
      BY <1>0, <2>1, <3>1 DEF AppliedInv, ReqsOf, TypeOK, CallIds
  <2>6. AppliedAtMostOnce'
    BY <1>0 DEF AppliedAtMostOnce
  <2>7. SuccessImpliesApplied'
    BY <1>0, <2>1 DEF SuccessImpliesApplied, TypeOK
  <2> QED
    BY <2>2, <2>3, <2>4, <2>5, <2>6, <2>7 DEF IInv
<1> QED
  BY <1>2, <1>3

(* The servo executing a request: the request leaves the network, a      *)
(* reply enters it, and a Move is counted once.                           *)
LEMMA ServeIInv ==
  ASSUME IInv, NEW m \in net, Serve(m)
  PROVE  IInv'
<1> DEFINE rep == [type |-> "rep", id |-> m.id, method |-> m.method,
                   angle |-> IF m.method = "Move" THEN m.angle ELSE servo]
<1>0. /\ TypeOK /\ NetInv /\ ReqInv /\ AppliedInv /\ AppliedAtMostOnce /\ SuccessImpliesApplied
      /\ m.type = "req"
      /\ servo' = IF m.method = "Move" THEN m.angle ELSE servo
      /\ applied' = IF m.method = "Move" THEN [applied EXCEPT ![m.id] = @ + 1] ELSE applied
      /\ net' = (net \ {m}) \cup {rep}
      /\ UNCHANGED <<conn, closes, pc, calls, req, outcome>>
  BY DEF IInv, Serve
<1>1. m \in Messages /\ rep \in Messages
  BY <1>0 DEF TypeOK, Messages
<1>2. applied[m.id] = 0
  <2>1. m \in ReqsOf(m.id)
    BY <1>0 DEF ReqsOf
  <2> QED
    BY <1>0, <1>1, <2>1 DEF AppliedInv, TypeOK, Messages
<1>3. \A id \in CallIds : applied'[id] >= applied[id] /\ applied'[id] \in Nat
  BY <1>0, <1>1 DEF TypeOK, Messages
<1>4. TypeOK'
  BY <1>0, <1>1, <1>3 DEF TypeOK, Messages
<1>5. NetInv'
  BY <1>0, <1>1 DEF NetInv
<1>6. ReqInv'
  BY <1>0 DEF ReqInv
<1>7. AppliedInv'
  <2>0. m.id[2] <= calls[m.id[1]] /\ m.id \in Callers \X (1..MaxCalls)
    BY <1>0, <1>1 DEF NetInv, Messages, CallIds
  <2>1. \A c \in Callers, k \in 1..MaxCalls : k > calls[c] => <<c, k>> # m.id
    <3> SUFFICES ASSUME NEW c \in Callers, NEW k \in 1..MaxCalls, k > calls[c], <<c, k>> = m.id
                 PROVE  FALSE
      OBVIOUS
    <3>1. m.id[1] = c /\ m.id[2] = k
      OBVIOUS
    <3>2. calls[c] \in Nat
      BY <1>0 DEF TypeOK
    <3> QED
      BY <2>0, <3>1, <3>2
  <2>2a. \A id \in CallIds : id # m.id => applied'[id] = applied[id]
    BY <1>0 DEF TypeOK
  <2>2. \A c \in Callers, k \in 1..MaxCalls : k > calls'[c] => applied'[<<c, k>>] = 0
    BY <1>0, <2>1, <2>2a DEF AppliedInv, CallIds
  <2>3. \A id \in CallIds : applied'[id] >= 1 => ReqsOf(id)' = {}
    <3>1. ReqsOf(m.id)' = {}
      BY <1>0 DEF NetInv, ReqsOf
    <3>2. \A id \in CallIds : id # m.id => applied'[id] = applied[id] /\ ReqsOf(id)' \subseteq ReqsOf(id)
      BY <1>0, <1>1 DEF ReqsOf, TypeOK, Messages
    <3> QED
      BY <3>1, <3>2, <1>0 DEF AppliedInv
  <2>4. \A n \in net' : (n.type = "rep" /\ n.method = "Move") => applied'[n.id] >= 1
    BY <1>0, <1>1, <1>2, <1>3 DEF AppliedInv, TypeOK, Messages
  <2> QED
    BY <2>2, <2>3, <2>4 DEF AppliedInv
<1>8. AppliedAtMostOnce'
  BY <1>0, <1>1, <1>2 DEF AppliedAtMostOnce, TypeOK, Messages
<1>9. SuccessImpliesApplied'
  <2>1. SUFFICES ASSUME NEW c \in Callers, req'[c].method = "Move", outcome'[c] = "ok",
                        pc'[c] = "idle"
                 PROVE  applied'[<<c, calls'[c]>>] >= 1
    BY DEF SuccessImpliesApplied
  <2>2. applied[<<c, calls[c]>>] >= 1
    BY <1>0, <2>1 DEF SuccessImpliesApplied
  <2>3. calls[c] # 0
    BY <1>0, <2>1 DEF ReqInv, NoRequest
  <2>4. <<c, calls[c]>> \in CallIds
    BY <1>0, <2>3 DEF TypeOK, CallIds
  <2>5. calls'[c] = calls[c] /\ applied'[<<c, calls[c]>>] >= applied[<<c, calls[c]>>]
    BY <1>0, <1>3, <2>4
  <2>6. applied[<<c, calls[c]>>] \in Nat /\ applied'[<<c, calls[c]>>] \in Nat
    BY <1>0, <1>3, <2>4 DEF TypeOK
  <2> QED
    BY <2>2, <2>5, <2>6
<1> QED
  BY <1>4, <1>5, <1>6, <1>7, <1>8, <1>9 DEF IInv

(* The reply of c's current call arrives and the call returns success.   *)
LEMMA ReplyIInv ==
  ASSUME IInv, NEW c \in Callers, NEW m \in net, Reply(c, m)
  PROVE  IInv'
<1>0. /\ TypeOK /\ NetInv /\ ReqInv /\ AppliedInv /\ AppliedAtMostOnce /\ SuccessImpliesApplied
      /\ m.type = "rep" /\ m.id = <<c, calls[c]>>
      /\ net' = net \ {m}
      /\ pc' = [pc EXCEPT ![c] = "idle"]
      /\ outcome' = [outcome EXCEPT ![c] = "ok"]
      /\ UNCHANGED <<conn, closes, calls, req, servo, applied>>
  BY DEF IInv, Reply
<1>1. m.method = req[c].method
  BY <1>0 DEF NetInv
<1>2. req[c].method = "Move" => applied[<<c, calls[c]>>] >= 1
  BY <1>0, <1>1 DEF AppliedInv
<1>3. TypeOK'
  BY <1>0 DEF TypeOK
<1>4. NetInv' /\ ReqInv' /\ AppliedAtMostOnce'
  BY <1>0 DEF NetInv, ReqInv, AppliedAtMostOnce
<1>5. AppliedInv'
  BY <1>0 DEF AppliedInv, ReqsOf
<1>6. SuccessImpliesApplied'
  BY <1>0, <1>2 DEF SuccessImpliesApplied, TypeOK
<1> QED
  BY <1>3, <1>4, <1>5, <1>6 DEF IInv

(* Every step keeps the invariant.                                        *)
LEMMA NextIInv == IInv /\ [Next]_vars => IInv'
<1> SUFFICES ASSUME IInv, [Next]_vars PROVE IInv'
  OBVIOUS
<1>0. TypeOK /\ NetInv /\ ReqInv /\ AppliedInv /\ AppliedAtMostOnce /\ SuccessImpliesApplied
  BY DEF IInv
<1>1. ASSUME NEW c \in Callers, NEW a \in Angles, Move(c, a) PROVE IInv'
  BY <1>1, InvokeIInv DEF Move
<1>2. ASSUME NEW c \in Callers, AngularOffset(c) PROVE IInv'
  BY <1>2, InvokeIInv DEF AngularOffset
<1>3. ASSUME NEW c \in Callers, Fail(c) PROVE IInv'
  BY <1>0, <1>3 DEF Fail, IInv, TypeOK, NetInv, ReqInv, AppliedInv, ReqsOf,
                    AppliedAtMostOnce, SuccessImpliesApplied
<1>4. ASSUME NEW c \in Callers, NEW m \in net, Reply(c, m) PROVE IInv'
  BY <1>4, ReplyIInv
<1>5. ASSUME NEW m \in net, Serve(m) PROVE IInv'
  BY <1>5, ServeIInv
<1>6. ASSUME NEW m \in net, Lose(m) PROVE IInv'
  BY <1>0, <1>6 DEF Lose, IInv, TypeOK, NetInv, ReqInv, AppliedInv, ReqsOf,
                    AppliedAtMostOnce, SuccessImpliesApplied
<1>7. ASSUME Close PROVE IInv'
  BY <1>0, <1>7 DEF Close, IInv, TypeOK, NetInv, ReqInv, AppliedInv, ReqsOf,
                    AppliedAtMostOnce, SuccessImpliesApplied
<1>8. ASSUME UNCHANGED vars PROVE IInv'
  BY <1>0, <1>8 DEF vars, IInv, TypeOK, NetInv, ReqInv, AppliedInv, ReqsOf,
                    AppliedAtMostOnce, SuccessImpliesApplied
<1> QED
  BY <1>1, <1>2, <1>3, <1>4, <1>5, <1>6, <1>7, <1>8 DEF Next

-----------------------------------------------------------------------------
(* No Move is ever executed twice, whatever the network loses and however *)
(* calls time out: the client never sends a request again.                 *)
THEOREM MoveAtMostOnce == Spec => []AppliedAtMostOnce
<1>1. IInv => AppliedAtMostOnce
  BY DEF IInv
<1> QED
  BY InitIInv, NextIInv, <1>1, PTL DEF Spec

(* A Move the client reports as done was executed by the servo.           *)
THEOREM ReportedMovesApplied == Spec => []SuccessImpliesApplied
<1>1. IInv => SuccessImpliesApplied
  BY DEF IInv
<1> QED
  BY InitIInv, NextIInv, <1>1, PTL DEF Spec

(* Every variable of the client keeps its type: in particular no request  *)
(* or reply carries an angle outside the uint8 range Move accepts.        *)
THEOREM ServoTypeCorrect == Spec => []TypeOK
<1>1. IInv => TypeOK
  BY DEF IInv
<1> QED
  BY InitIInv, NextIInv, <1>1, PTL DEF Spec

-----------------------------------------------------------------------------
(* Refinement of AtMostOnceServo.                                          *)

(* Starting a call maps to the abstract Invoke of the same request.       *)
LEMMA InvokeRefines ==
  ASSUME NEW c \in Callers, NEW r, r.type = "req", Invoke(c, r)
  PROVE  AMO!Invoke(c, r)
<1>1. CASE conn = "closed"
  BY <1>1 DEF Invoke, AMO!Invoke, LiveRequests
<1>2. CASE conn # "closed"
  <2>1. LiveRequests' = LiveRequests \cup {r}
    BY <1>2 DEF Invoke, LiveRequests
  <2> QED
    BY <1>2, <2>1 DEF Invoke, AMO!Invoke
<1> QED
  BY <1>1, <1>2

(* Every step maps to an abstract step or to a stutter.                   *)
LEMMA StepRefines == IInv /\ [Next]_vars => [AMO!Next]_AMO!vars
<1> SUFFICES ASSUME IInv, [Next]_vars PROVE [AMO!Next]_AMO!vars
  OBVIOUS
<1>1. ASSUME NEW c \in Callers, NEW a \in Angles, Move(c, a) PROVE AMO!Next
  <2> DEFINE r == [type |-> "req", id |-> <<c, calls[c] + 1>>, method |-> "Move", angle |-> a]
  <2>1. r \in [type : {"req"}, id : {<<c, calls[c] + 1>>}, method : {"Move"}, angle : Angles]
    OBVIOUS
  <2>2. AMO!Invoke(c, r)
    BY <1>1, InvokeRefines DEF Move
  <2> QED
    BY <2>1, <2>2 DEF AMO!Next
<1>2. ASSUME NEW c \in Callers, AngularOffset(c) PROVE AMO!Next
  <2>1. AMO!Invoke(c, [type |-> "req", id |-> <<c, calls[c] + 1>>,
                       method |-> "AngularOffset", angle |-> 0])
    BY <1>2, InvokeRefines DEF AngularOffset
  <2> QED
    BY <2>1 DEF AMO!Next
<1>3. ASSUME NEW m \in net, Serve(m) PROVE AMO!Next
  <2>1. m \in LiveRequests /\ LiveRequests' = LiveRequests \ {m}
    BY <1>3 DEF Serve, LiveRequests
  <2>2. AMO!Execute(m)
    BY <1>3, <2>1 DEF Serve, AMO!Execute
  <2> QED
    BY <2>1, <2>2 DEF AMO!Next
<1>4. ASSUME NEW m \in net, Lose(m) PROVE [AMO!Next]_AMO!vars
  <2>1. CASE m.type = "req"
    <3>1. m \in LiveRequests /\ LiveRequests' = LiveRequests \ {m}
      BY <1>4, <2>1 DEF Lose, LiveRequests
    <3>2. AMO!Drop(m)
      BY <1>4, <3>1 DEF Lose, AMO!Drop
    <3> QED
      BY <3>1, <3>2 DEF AMO!Next
  <2>2. CASE m.type # "req"
    <3>1. LiveRequests' = LiveRequests
      BY <1>4, <2>2 DEF Lose, LiveRequests
    <3> QED
      BY <1>4, <3>1 DEF Lose, AMO!vars
  <2> QED
    BY <2>1, <2>2
<1>5. ASSUME NEW c \in Callers, NEW m \in net, Reply(c, m) PROVE AMO!Next
  <2>1. req[c].method = "Move" => applied[<<c, calls[c]>>] >= 1
    <3>1. m.method = req[c].method
      BY <1>5 DEF Reply, IInv, NetInv
    <3> QED
      BY <1>5, <3>1 DEF Reply, IInv, AppliedInv
  <2>2. LiveRequests' = LiveRequests
    BY <1>5 DEF Reply, LiveRequests
  <2>3. AMO!Return(c)
    BY <1>5, <2>1, <2>2 DEF Reply, AMO!Return
  <2> QED
    BY <2>3 DEF AMO!Next
<1>6. ASSUME NEW c \in Callers, Fail(c) PROVE AMO!Next
  <2>1. AMO!Fail(c)
    BY <1>6 DEF Fail, AMO!Fail, LiveRequests
  <2> QED
    BY <2>1 DEF AMO!Next
<1>7. CASE Close
  <2>1. AMO!Close
    BY <1>7 DEF Close, AMO!Close, LiveRequests
  <2> QED
    BY <2>1 DEF AMO!Next
<1>8. CASE UNCHANGED vars
  BY <1>8 DEF vars, AMO!vars, LiveRequests
<1> QED
  BY <1>1, <1>2, <1>3, <1>4, <1>5, <1>6, <1>7, <1>8 DEF Next

(* The client implements the at-most-once call of spec 4.3 for every     *)
(* number of goroutines, calls and Close calls: every behaviour, with     *)
(* lost requests and replies and calls that time out, is one of           *)
(* AtMostOnceServo.                                                        *)
THEOREM AtMostOnce == Spec => AtMostOnceRefinement
<1>1. Init => AMO!Init
  BY DEF Init, AMO!Init, LiveRequests, NoRequest, AMO!CallIds, CallIds
<1> QED
  BY <1>1, StepRefines, InitIInv, NextIInv, PTL DEF Spec, AtMostOnceRefinement, AMO!Spec
=============================================================================
