--------------------- MODULE ReconfigurableBase_proofs ---------------------
(***************************************************************************)
(* Proofs about the reconfigurable Base wrapper, for every number of       *)
(* callers, wrappers and drivers: the type invariant, and that a domain    *)
(* call always runs on the wrapper's current driver and never on a         *)
(* released one.                                                           *)
(***************************************************************************)
EXTENDS ReconfigurableBase, SequenceTheorems, TLAPS

(* Goroutines that have entered a call or a Reconfigure.                   *)
Busy == {c \in Callers : pc[c] # "idle"}

(* Reconfigures in progress whose argument is a reconfigurableBase.       *)
Pending == {c \in Callers : pc[c] \in {"lock", "drain"} /\ newBase[c] # Foreign}

(* The wrappers whose driver somebody may still call or install: the      *)
(* fresh and published ones and the arguments of pending Reconfigures.    *)
Holders == {w \in Wrappers : status[w] \in {"fresh", "live"}}
             \cup {newBase[c] : c \in Pending}

(* The read side of every wrapper's RWMutex is held only by goroutines in *)
(* a call on that wrapper, and a running call holds it.                    *)
LockInv ==
    /\ \A w \in Wrappers, c \in Callers :
          c \in readers[w] => pc[c] \in {"rlock", "inCall"} /\ wrapper[c] = w
    /\ \A w \in Wrappers, c \in Callers :
          c \in blocked[w] => pc[c] = "rlock" /\ wrapper[c] = w /\ c \notin readers[w]
    /\ \A c \in Callers : pc[c] = "inCall" => c \in readers[wrapper[c]]

(* Busy goroutines work on published wrappers; a Reconfigure's argument is *)
(* a wrapper or the foreign value.                                         *)
CallerInv ==
    /\ \A c \in Busy : wrapper[c] \in Wrappers /\ status[wrapper[c]] = "live"
    /\ \A c \in Callers : pc[c] \in {"lock", "drain"} => newBase[c] \in Wrappers \cup {Foreign}

(* Each driver has at most one holder, and no holder's driver is closed.   *)
OwnInv ==
    /\ \A w \in Wrappers : status[w] = "unused" => actual[w] = None
    /\ \A w \in Holders : actual[w] \in Instances \ closed
    /\ \A w1, w2 \in Holders : w1 # w2 => actual[w1] # actual[w2]
    /\ \A c \in Pending : status[newBase[c]] = "dropped"
    /\ \A c1, c2 \in Pending : c1 # c2 => newBase[c1] # newBase[c2]

IInv == TypeOK /\ LockInv /\ CallerInv /\ OwnInv /\ CallsSeeCurrent

-----------------------------------------------------------------------------
(* A one-element sequence of Base methods is a sequence of Base methods.  *)
LEMMA SingletonSeq ==
    ASSUME NEW S, NEW x \in S
    PROVE  <<x>> \in Seq(S)
<1>1. <<x>> \in [1..1 -> S]
    OBVIOUS
<1>2. QED
    BY <1>1, SeqDef

(* The legs of a DoMove are a sequence of Base methods.                    *)
LEMMA MoveLegsType ==
    ASSUME NEW spin \in BOOLEAN, NEW straight \in BOOLEAN
    PROVE  MoveLegs(spin, straight) \in Seq(BaseMethods)
<1>1. /\ (IF spin THEN <<"Spin">> ELSE <<>>) \in Seq(BaseMethods)
      /\ (IF straight THEN <<"MoveStraight">> ELSE <<>>) \in Seq(BaseMethods)
    BY SingletonSeq, EmptySeq DEF BaseMethods
<1>2. QED
    BY <1>1, ConcatProperties DEF MoveLegs

(* The tail of a sequence is a sequence over the same set.              *)
LEMMA TailType ==
    ASSUME NEW S, NEW s \in Seq(S)
    PROVE  Tail(s) \in Seq(S)
<1>1. CASE s = <<>>
    BY <1>1, EmptySeq
<1>2. CASE s # <<>>
    BY <1>2, HeadTailProperties
<1>3. QED
    BY <1>1, <1>2

USE ConstantsAssumption

(* The initial state satisfies the inductive invariant.                   *)
LEMMA InitIInv == Init => IInv
<1> SUFFICES ASSUME Init PROVE IInv
    OBVIOUS
<1>1. TypeOK
    BY EmptySeq DEF Init, TypeOK, WStatus, Stages
<1>2. LockInv /\ CallerInv /\ CallsSeeCurrent
    BY DEF Init, LockInv, CallerInv, CallsSeeCurrent, Busy
<1>3. OwnInv
    BY DEF Init, OwnInv, Holders, Pending
<1>4. QED
    BY <1>1, <1>2, <1>3 DEF IInv

(* Every step of the specification preserves the inductive invariant.     *)
LEMMA IInvStep == IInv /\ [Next]_vars => IInv'
<1> SUFFICES ASSUME IInv, [Next]_vars PROVE IInv'
    OBVIOUS
<1> USE DEF IInv
<1>1. ASSUME NEW w \in Wrappers, NEW i \in Instances, WrapWithReconfigurable(w, i)
      PROVE IInv'
    BY <1>1 DEF WrapWithReconfigurable, WStatus, Owned, TypeOK, LockInv,
       CallerInv, OwnInv, CallsSeeCurrent, Busy, Pending, Holders
<1>2. ASSUME NEW w \in Wrappers, Publish(w) PROVE IInv'
    BY <1>2 DEF Publish, WStatus, TypeOK, LockInv,
       CallerInv, OwnInv, CallsSeeCurrent, Busy, Pending, Holders
<1>3. ASSUME NEW c \in Callers, NEW w \in Wrappers, NEW m \in CallMethods,
             CallMethod(c, w, m)
      PROVE IInv'
    <2>1. \A x \in Wrappers : c \notin readers[x] /\ c \notin blocked[x]
        BY <1>3 DEF CallMethod, LockInv
    <2> USE <1>3 DEF CallMethod
    <2>2. TypeOK'
        BY SingletonSeq DEF TypeOK, Stages
    <2>3. LockInv'
        BY <2>1 DEF LockInv, TypeOK
    <2>4. CallerInv' /\ OwnInv' /\ CallsSeeCurrent'
        BY DEF CallerInv, OwnInv, CallsSeeCurrent, Busy, Pending, Holders, TypeOK
    <2>5. QED
        BY <2>2, <2>3, <2>4
<1>4. ASSUME NEW c \in Callers, NEW w \in Wrappers, NEW spin \in BOOLEAN,
             NEW straight \in BOOLEAN, DoMove(c, w, spin, straight)
      PROVE IInv'
    <2>1. \A x \in Wrappers : c \notin readers[x] /\ c \notin blocked[x]
        BY <1>4 DEF DoMove, LockInv
    <2> USE <1>4 DEF DoMove
    <2>2. TypeOK'
        BY MoveLegsType DEF TypeOK, Stages
    <2>3. LockInv'
        BY <2>1 DEF LockInv, TypeOK
    <2>4. CallerInv' /\ OwnInv' /\ CallsSeeCurrent'
        BY DEF CallerInv, OwnInv, CallsSeeCurrent, Busy, Pending, Holders, TypeOK
    <2>5. QED
        BY <2>2, <2>3, <2>4
<1>5. ASSUME NEW c \in Callers, NEW w \in Wrappers, NEW n \in Wrappers \cup {Foreign},
             StartReconfigure(c, w, n)
      PROVE IInv'
    <2> USE <1>5 DEF StartReconfigure
    <2>1. TypeOK'
        BY DEF TypeOK, Stages, WStatus
    <2>2. LockInv' /\ CallsSeeCurrent'
        BY DEF LockInv, CallsSeeCurrent
    <2>3. CallerInv'
        BY DEF CallerInv, Busy, TypeOK
    <2>4. OwnInv'
        BY DEF OwnInv, Pending, Holders, TypeOK
    <2>5. QED
        BY <2>1, <2>2, <2>3, <2>4
<1>6. ASSUME NEW c \in Callers, RLock(c) PROVE IInv'
    <2> DEFINE rw == wrapper[c]
    <2>1. rw \in Wrappers /\ pc[c] = "start"
        BY <1>6 DEF RLock, CallerInv, Busy
    <2>2. \A x \in Wrappers : c \notin readers[x] /\ c \notin blocked[x]
        BY <2>1 DEF LockInv
    <2> USE <1>6, <2>1 DEF RLock
    <2>3. CallerInv' /\ OwnInv' /\ CallsSeeCurrent'
        BY DEF CallerInv, OwnInv, CallsSeeCurrent, Busy, Pending, Holders, Stages
    <2>4. /\ pc' = [pc EXCEPT ![c] = "rlock"]
          /\ UNCHANGED wrapper
        OBVIOUS
    <2>5. CASE writer[rw] = None
        <3> USE <2>5
        <3>1. /\ readers' = [readers EXCEPT ![rw] = @ \cup {c}]
              /\ blocked' = blocked
            OBVIOUS
        <3>2. TypeOK'
            BY <3>1, <2>4 DEF TypeOK, Stages
        <3>3. LockInv'
            BY <3>1, <2>2, <2>4 DEF LockInv, TypeOK
        <3>4. QED
            BY <3>2, <3>3, <2>3
    <2>6. CASE writer[rw] # None
        <3> USE <2>6
        <3>1. /\ blocked' = [blocked EXCEPT ![rw] = @ \cup {c}]
              /\ readers' = readers
            OBVIOUS
        <3>2. TypeOK'
            BY <3>1, <2>4 DEF TypeOK, Stages
        <3>3. LockInv'
            BY <3>1, <2>2, <2>4 DEF LockInv, TypeOK
        <3>4. QED
            BY <3>2, <3>3, <2>3
    <2>7. QED
        BY <2>5, <2>6
<1>7. ASSUME NEW c \in Callers, Forward(c) PROVE IInv'
    <2>1. wrapper[c] \in Wrappers
        BY <1>7 DEF Forward, CallerInv, Busy
    <2>2. \A x \in Wrappers : c \notin blocked[x]
        BY <1>7, <2>1 DEF Forward, LockInv
    <2> USE <1>7, <2>1 DEF Forward
    <2>3. LockInv'
        BY <2>2 DEF LockInv, TypeOK
    <2>7. TypeOK'
        BY DEF TypeOK, Stages
    <2>4. CallsSeeCurrent'
        BY DEF CallsSeeCurrent, TypeOK
    <2>5. CallerInv' /\ OwnInv'
        BY DEF CallerInv, OwnInv, Busy, Pending, Holders
    <2>6. QED
        BY <2>7, <2>3, <2>4, <2>5
<1>8. ASSUME NEW c \in Callers, NEW ok \in BOOLEAN, Finish(c, ok) PROVE IInv'
    <2> DEFINE w == wrapper[c]
               rest == IF ok THEN Tail(legs[c]) ELSE <<>>
    <2>1. w \in Wrappers /\ status[w] = "live"
        BY <1>8 DEF Finish, CallerInv, Busy
    <2>2. rest \in Seq(BaseMethods)
        BY TailType, EmptySeq DEF TypeOK
    <2> USE <1>8, <2>1 DEF Finish
    <2>3. TypeOK'
        BY <2>2 DEF TypeOK, Stages
    <2>4. LockInv' /\ CallsSeeCurrent'
        BY DEF LockInv, CallsSeeCurrent, TypeOK
    <2>5. CallerInv' /\ OwnInv'
        BY DEF CallerInv, OwnInv, Busy, Pending, Holders, TypeOK
    <2>6. QED
        BY <2>3, <2>4, <2>5
<1>9. ASSUME NEW c \in Callers, Lock(c) PROVE IInv'
    <2>1. wrapper[c] \in Wrappers
        BY <1>9 DEF Lock, CallerInv, Busy
    <2> USE <1>9, <2>1 DEF Lock
    <2>2. TypeOK'
        BY DEF TypeOK, Stages
    <2>3. LockInv' /\ CallsSeeCurrent' /\ CallerInv' /\ OwnInv'
        BY DEF LockInv, CallsSeeCurrent, CallerInv, OwnInv, Busy, Pending, Holders
    <2>4. QED
        BY <2>2, <2>3
<1>10. ASSUME NEW c \in Callers, NEW closeOk \in BOOLEAN, Reconfigure(c, closeOk)
       PROVE IInv'
    <2> DEFINE r == wrapper[c]
               n == newBase[c]
    <2>1. /\ pc[c] = "drain" /\ readers[r] = {}
          /\ r \in Wrappers /\ status[r] = "live"
          /\ n \in Wrappers \cup {Foreign}
        BY <1>10 DEF Reconfigure, CallerInv, Busy
    <2>2. \A d \in Callers : d \in readers[r] \/ d \in blocked[r] => d # c
        BY <2>1 DEF LockInv
    <2>3. \A d \in Callers : pc[d] = "inCall" => wrapper[d] # r
        BY <2>1 DEF LockInv
    <2> USE <1>10, <2>1 DEF Reconfigure
    <2>4. /\ readers' = [readers EXCEPT ![r] = blocked[r]]
          /\ blocked' = [blocked EXCEPT ![r] = {}]
          /\ pc' = [pc EXCEPT ![c] = "idle"]
          /\ wrapper' = [wrapper EXCEPT ![c] = None]
          /\ UNCHANGED <<status, legs, inst>>
        OBVIOUS
    <2>5. CallerInv'
        BY <2>4 DEF CallerInv, Busy, TypeOK, Stages
    <2>9. LockInv'
        <3>1. \A w \in Wrappers, d \in Callers :
                 d \in readers'[w] => pc'[d] \in {"rlock", "inCall"} /\ wrapper'[d] = w
            BY <2>2, <2>4 DEF LockInv, TypeOK
        <3>2. \A w \in Wrappers, d \in Callers :
                 d \in blocked'[w] => pc'[d] = "rlock" /\ wrapper'[d] = w /\ d \notin readers'[w]
            BY <2>2, <2>4 DEF LockInv, TypeOK
        <3>3. \A d \in Callers : pc'[d] = "inCall" => d \in readers'[wrapper'[d]]
            BY <2>3, <2>4 DEF LockInv, TypeOK
        <3>4. QED
            BY <3>1, <3>2, <3>3 DEF LockInv
    <2>6. CASE n = Foreign
        <3> USE <2>6
        <3>1. TypeOK'
            BY DEF TypeOK, Stages
        <3>2. CallsSeeCurrent'
            BY <2>3, <2>4 DEF CallsSeeCurrent, TypeOK
        <3>5. Pending' = Pending /\ Holders' = Holders
            BY <2>4 DEF Pending, Holders, TypeOK
        <3>7. /\ actual' = actual /\ closed' = closed
              /\ newBase' = [newBase EXCEPT ![c] = None]
              /\ c \notin Pending
            BY DEF Pending
        <3>8. \A d \in Pending : newBase'[d] = newBase[d]
            BY <3>7 DEF Pending, TypeOK
        <3>6. OwnInv'
            BY <3>5, <3>7, <3>8, <2>4 DEF OwnInv
        <3>3. OwnInv' /\ CallsSeeCurrent'
            BY <3>2, <3>6
        <3>4. QED
            BY <3>1, <2>9, <3>3, <2>5
    <2>7. CASE n # Foreign
        <3> USE <2>7
        <3>1. c \in Pending /\ n \in Holders /\ r \in Holders
            BY DEF Pending, Holders
        <3>2. /\ status[n] = "dropped" /\ n # r /\ n \in Wrappers
              /\ actual[n] \in Instances \ closed
              /\ actual[r] \in Instances \ closed
              /\ actual[n] # actual[r]
            BY <3>1 DEF OwnInv
        <3>3. /\ closed' \subseteq closed \cup {actual[r]}
              /\ actual' = [actual EXCEPT ![r] = actual[n]]
            OBVIOUS
        <3>4. TypeOK'
            BY <3>2, <3>3 DEF TypeOK, Stages
        <3>6. CallsSeeCurrent'
            BY <2>3, <3>3 DEF CallsSeeCurrent, TypeOK
        <3>7. Pending' = Pending \ {c}
            BY <2>4 DEF Pending, TypeOK
        <3>8. Holders' = Holders \ {n}
            BY <3>1, <3>2, <3>7, <2>4 DEF Holders, OwnInv, Pending
        <3>9. \A w \in Holders' : actual'[w] \in Instances \ closed'
            BY <3>2, <3>3, <3>8 DEF OwnInv, TypeOK, Holders
        <3>10. \A w1, w2 \in Holders' : w1 # w2 => actual'[w1] # actual'[w2]
            BY <3>1, <3>2, <3>3, <3>8 DEF OwnInv, TypeOK
        <3>11. /\ \A w \in Wrappers : status'[w] = "unused" => actual'[w] = None
               /\ \A d \in Pending' : status'[newBase'[d]] = "dropped"
               /\ \A d1, d2 \in Pending' : d1 # d2 => newBase'[d1] # newBase'[d2]
            BY <2>4, <3>3, <3>7 DEF OwnInv, TypeOK
        <3>12. OwnInv'
            BY <3>9, <3>10, <3>11 DEF OwnInv
        <3>13. QED
            BY <3>4, <2>9, <3>6, <3>12, <2>5
    <2>8. QED
        BY <2>6, <2>7
<1>11. CASE UNCHANGED vars
    BY <1>11 DEF vars, TypeOK, LockInv, CallerInv, OwnInv, CallsSeeCurrent,
       Busy, Pending, Holders
<1>12. QED
    BY <1>1, <1>2, <1>3, <1>4, <1>5, <1>6, <1>7, <1>8, <1>9, <1>10, <1>11
       DEF Next, Environment, Step

(* The specification keeps every variable in its type.                     *)
THEOREM TypeCorrect == Spec => []TypeOK
<1>1. IInv => TypeOK
    BY DEF IInv
<1>2. QED
    BY <1>1, InitIInv, IInvStep, PTL DEF Spec

(* A domain call in flight always runs on its wrapper's current driver,   *)
(* and never on one that Reconfigure has released.                         *)
THEOREM WrapperSafety == Spec => [](CallsSeeCurrent /\ NoCallOnClosed)
<1>1. IInv => CallsSeeCurrent /\ NoCallOnClosed
    BY DEF IInv, CallerInv, OwnInv, Busy, Holders, CallsSeeCurrent, NoCallOnClosed
<1>2. QED
    BY <1>1, InitIInv, IInvStep, PTL DEF Spec

(* A domain call in flight always runs on its wrapper's current driver:   *)
(* no Reconfigure commits between the driver call's dispatch and return.  *)
THEOREM DispatchToCurrent == Spec => []CallsSeeCurrent
<1>1. IInv => CallsSeeCurrent
    BY DEF IInv
<1>2. QED
    BY <1>1, InitIInv, IInvStep, PTL DEF Spec

-----------------------------------------------------------------------------
(* Refinement of AtomicBase.                                               *)

(* Moving one goroutine to stage s moves its abstract stage to AbsStage(s).*)
LEMMA AbsPcExcept ==
    ASSUME pc \in [Callers -> Stages], NEW c \in Callers, NEW s \in Stages,
           pc' = [pc EXCEPT ![c] = s]
    PROVE  AbsPc' = [AbsPc EXCEPT ![c] = AbsStage(s)]
BY DEF AbsPc

(* The initial state maps to the abstract initial state.                  *)
LEMMA InitRefines == Init => Abs!Init
BY DEF Init, Abs!Init, AbsPc, AbsStage

(* Every step maps to an abstract step or to a stutter.                   *)
LEMMA StepRefines == IInv /\ [Next]_vars => [Abs!Next]_Abs!vars
<1> SUFFICES ASSUME IInv, [Next]_vars PROVE [Abs!Next]_Abs!vars
    OBVIOUS
<1> USE DEF IInv
<1>0. pc \in [Callers -> Stages]
    BY DEF TypeOK
<1>1. ASSUME NEW w \in Wrappers, NEW i \in Instances, WrapWithReconfigurable(w, i)
      PROVE Abs!Wrap(w, i)
    BY <1>1 DEF WrapWithReconfigurable, Abs!Wrap, AbsPc, Owned, Abs!Owned
<1>2. ASSUME NEW w \in Wrappers, Publish(w) PROVE Abs!Publish(w)
    BY <1>2 DEF Publish, Abs!Publish, AbsPc
<1>3. ASSUME NEW c \in Callers, NEW w \in Wrappers, NEW m \in CallMethods,
             CallMethod(c, w, m)
      PROVE Abs!Call(c, w, <<m>>)
    <2>1. AbsPc' = [AbsPc EXCEPT ![c] = "call"]
        BY <1>0, <1>3, AbsPcExcept DEF CallMethod, AbsStage, Stages
    <2>2. AbsPc[c] = "idle"
        BY <1>3 DEF CallMethod, AbsPc, AbsStage
    <2>3. QED
        BY <1>3, <2>1, <2>2 DEF CallMethod, Abs!Call
<1>4. ASSUME NEW c \in Callers, NEW w \in Wrappers, NEW spin \in BOOLEAN,
             NEW straight \in BOOLEAN, DoMove(c, w, spin, straight)
      PROVE Abs!Call(c, w, Abs!Legs(spin, straight))
    <2>1. AbsPc' = [AbsPc EXCEPT ![c] = "call"]
        BY <1>0, <1>4, AbsPcExcept DEF DoMove, AbsStage, Stages
    <2>2. AbsPc[c] = "idle"
        BY <1>4 DEF DoMove, AbsPc, AbsStage
    <2>3. MoveLegs(spin, straight) = Abs!Legs(spin, straight)
        BY DEF MoveLegs, Abs!Legs
    <2>4. QED
        BY <1>4, <2>1, <2>2, <2>3 DEF DoMove, Abs!Call
<1>5. ASSUME NEW c \in Callers, NEW w \in Wrappers, NEW n \in Wrappers \cup {Foreign},
             StartReconfigure(c, w, n)
      PROVE Abs!BeginReconfigure(c, w, n)
    <2>1. AbsPc' = [AbsPc EXCEPT ![c] = "reconf"]
        BY <1>0, <1>5, AbsPcExcept DEF StartReconfigure, AbsStage, Stages
    <2>2. AbsPc[c] = "idle"
        BY <1>5 DEF StartReconfigure, AbsPc, AbsStage
    <2>3. QED
        BY <1>5, <2>1, <2>2 DEF StartReconfigure, Abs!BeginReconfigure
<1>6. ASSUME NEW c \in Callers, RLock(c) PROVE UNCHANGED Abs!vars
    <2>1. AbsPc' = AbsPc
        BY <1>0, <1>6, AbsPcExcept DEF RLock, AbsStage, Stages, AbsPc
    <2>2. QED
        BY <1>6, <2>1 DEF RLock, Abs!vars
<1>7. ASSUME NEW c \in Callers, Forward(c) PROVE Abs!Dispatch(c)
    <2>1. AbsPc' = [AbsPc EXCEPT ![c] = "inCall"]
        BY <1>0, <1>7, AbsPcExcept DEF Forward, AbsStage, Stages
    <2>2. AbsPc[c] = "call"
        BY <1>7 DEF Forward, AbsPc, AbsStage
    <2>3. QED
        BY <1>7, <2>1, <2>2 DEF Forward, Abs!Dispatch
<1>8. ASSUME NEW c \in Callers, NEW ok \in BOOLEAN, Finish(c, ok) PROVE Abs!Return(c, ok)
    <2> DEFINE rest == IF ok THEN Tail(legs[c]) ELSE <<>>
               s == IF rest = <<>> THEN "idle" ELSE "start"
    <2>1. AbsPc' = [AbsPc EXCEPT ![c] = AbsStage(s)]
        BY <1>0, <1>8, AbsPcExcept DEF Finish, Stages
    <2>2. AbsStage(s) = IF rest = <<>> THEN "idle" ELSE "call"
        BY DEF AbsStage
    <2>3. AbsPc[c] = "inCall"
        BY <1>8 DEF Finish, AbsPc, AbsStage
    <2>4. QED
        BY <1>8, <2>1, <2>2, <2>3 DEF Finish, Abs!Return
<1>9. ASSUME NEW c \in Callers, Lock(c) PROVE UNCHANGED Abs!vars
    <2>1. AbsPc' = AbsPc
        BY <1>0, <1>9, AbsPcExcept DEF Lock, AbsStage, Stages, AbsPc
    <2>2. QED
        BY <1>9, <2>1 DEF Lock, Abs!vars
<1>10. ASSUME NEW c \in Callers, NEW closeOk \in BOOLEAN, Reconfigure(c, closeOk)
       PROVE Abs!Swap(c, closeOk)
    <2>1. AbsPc' = [AbsPc EXCEPT ![c] = "idle"]
        BY <1>0, <1>10, AbsPcExcept DEF Reconfigure, AbsStage, Stages
    <2>2. AbsPc[c] = "reconf"
        BY <1>10 DEF Reconfigure, AbsPc, AbsStage
    <2>3. \A d \in Callers : AbsPc[d] = "inCall" => wrapper[d] # wrapper[c]
        <3>1. \A d \in Callers : AbsPc[d] = "inCall" => pc[d] = "inCall"
            BY <1>0 DEF AbsPc, AbsStage
        <3>2. \A d \in Callers : pc[d] = "inCall" => wrapper[d] # wrapper[c]
            BY <1>10 DEF Reconfigure, LockInv
        <3>3. QED
            BY <3>1, <3>2
    <2>4. QED
        BY <1>10, <2>1, <2>2, <2>3 DEF Reconfigure, Abs!Swap
<1>11. CASE UNCHANGED vars
    BY <1>11 DEF vars, Abs!vars, AbsPc
<1>12. QED
    BY <1>1, <1>2, <1>3, <1>4, <1>5, <1>6, <1>7, <1>8, <1>9, <1>10, <1>11
       DEF Next, Environment, Step, Abs!Next

(* The lock-based wrapper implements the atomic swap of spec 4.2, for     *)
(* every number of callers, wrappers and drivers.                          *)
THEOREM AtomicSwap == Spec => AtomicSwapRefinement
<1>1. QED
    BY InitRefines, StepRefines, InitIInv, IInvStep, PTL
       DEF Spec, AtomicSwapRefinement, Abs!Spec

-----------------------------------------------------------------------------
(* The step a goroutine makes when its Reconfigure, called with a foreign *)
(* argument, returns: it changes neither the drivers nor the closed set.  *)
ForeignReturnHarmless ==
    \A c \in Callers :
        (pc[c] = "drain" /\ newBase[c] = Foreign /\ pc'[c] = "idle")
           => (actual' = actual /\ closed' = closed)

LEMMA ForeignStep == IInv /\ [Next]_vars => [ForeignReturnHarmless]_vars
<1> SUFFICES ASSUME IInv, [Next]_vars, NEW c \in Callers,
                    pc[c] = "drain", newBase[c] = Foreign, pc'[c] = "idle"
             PROVE  actual' = actual /\ closed' = closed
    BY DEF ForeignReturnHarmless
<1>0. pc \in [Callers -> Stages]
    BY DEF IInv, TypeOK
<1>1. ASSUME NEW w \in Wrappers, NEW i \in Instances, WrapWithReconfigurable(w, i)
      PROVE FALSE
    BY <1>1 DEF WrapWithReconfigurable
<1>2. ASSUME NEW d \in Callers, NEW closeOk \in BOOLEAN, Reconfigure(d, closeOk)
      PROVE actual' = actual /\ closed' = closed
    <2>1. CASE d = c
        BY <1>2, <2>1 DEF Reconfigure
    <2>2. CASE d # c
        <3>1. pc'[c] = pc[c]
            BY <1>0, <1>2, <2>2 DEF Reconfigure
        <3>2. QED
            BY <3>1
    <2>3. QED
        BY <2>1, <2>2
<1>3. CASE UNCHANGED vars \/ (\E w \in Wrappers : Publish(w))
            \/ (\E d \in Callers, w \in Wrappers :
                  \/ \E m \in CallMethods : CallMethod(d, w, m)
                  \/ \E spin, straight \in BOOLEAN : DoMove(d, w, spin, straight)
                  \/ \E n \in Wrappers \cup {Foreign} : StartReconfigure(d, w, n))
            \/ (\E d \in Callers : RLock(d) \/ Forward(d) \/ Lock(d)
                                   \/ \E ok \in BOOLEAN : Finish(d, ok))
    BY <1>3 DEF vars, Publish, CallMethod, DoMove, StartReconfigure, RLock,
       Forward, Lock, Finish
<1>4. QED
    BY <1>1, <1>2, <1>3 DEF Next, Environment, Step

(* A Reconfigure whose argument is not a reconfigurableBase returns its    *)
(* error with the wrapper's driver in place and no driver closed: the type *)
(* assertion comes before TryClose, in every behaviour.                    *)
THEOREM MismatchIntact == Spec => MismatchLeavesIntact
<1>1. []IInv /\ [][Next]_vars => [][ForeignReturnHarmless]_vars
    BY ForeignStep, PTL
<1>2. QED
    BY <1>1, InitIInv, IInvStep, PTL DEF Spec, MismatchLeavesIntact, ForeignReturnHarmless

=============================================================================
