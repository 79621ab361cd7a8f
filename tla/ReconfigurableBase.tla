------------------------- MODULE ReconfigurableBase -------------------------
(***************************************************************************)
(* The reconfigurable Base wrapper of package base (src/unnamed/part_000,  *)
(* lines 144-247): a stable handle around one live Base driver, guarded by *)
(* a sync.RWMutex.  Every domain method takes the read lock for the whole  *)
(* driver call; Reconfigure takes the write lock, releases the old driver  *)
(* with TryClose and installs the driver held by the new wrapper.  DoMove  *)
(* issues a Spin and then a MoveStraight through the same wrapper.         *)
(*                                                                         *)
(* The RWMutex is modelled with Go's semantics: a Lock first takes the     *)
(* writer mutex and announces itself, after which new RLock calls block;   *)
(* it enters once the readers present at that moment have left, and its   *)
(* Unlock admits every reader that blocked meanwhile.                      *)
(***************************************************************************)
EXTENDS Naturals, Sequences

CONSTANTS
    Callers,      \* goroutines that call into the wrappers
    Wrappers,     \* reconfigurableBase values that can be allocated
    Instances,    \* Base driver values that constructors can produce
    Foreign,      \* a resource.Reconfigurable that is not a reconfigurableBase
    None,         \* nil
    CallMethods   \* the Base methods the environment calls directly

BaseMethods == {"MoveStraight", "MoveArc", "Spin", "Stop", "WidthGet", "ProxyFor"}

ASSUME ConstantsAssumption ==
    /\ None \notin Callers \cup Wrappers \cup Instances
    /\ Foreign \notin Wrappers \cup {None}
    /\ CallMethods \subseteq BaseMethods

VARIABLES
    actual,   \* actual[w]: the driver field r.actual of wrapper w
    status,   \* lifecycle of the wrapper value, set by its owner
    readers,  \* readers[w]: goroutines holding w.mu for reading
    blocked,  \* blocked[w]: goroutines in RLock behind a pending writer
    writer,   \* writer[w]: goroutine holding the writer side of w.mu
    closed,   \* drivers that TryClose has released
    pc,       \* control point of each goroutine
    wrapper,  \* the receiver r of the goroutine's current call
    newBase,  \* the argument newBase of the goroutine's Reconfigure
    legs,     \* the Base calls the goroutine still has to make
    inst      \* the driver the goroutine's current call was forwarded to

vars == <<actual, status, readers, blocked, writer, closed,
          pc, wrapper, newBase, legs, inst>>

(* "unused": not allocated; "fresh": returned by WrapWithReconfigurable    *)
(* and not yet handed out; "live": the robot's published handle;           *)
(* "dropped": a new wrapper whose owner let go of it after Reconfigure.    *)
WStatus == {"unused", "fresh", "live", "dropped"}

Stages == {"idle", "start", "rlock", "inCall", "lock", "drain"}

Owned == {actual[w] : w \in Wrappers}

Init ==
    /\ actual = [w \in Wrappers |-> None]
    /\ status = [w \in Wrappers |-> "unused"]
    /\ readers = [w \in Wrappers |-> {}]
    /\ blocked = [w \in Wrappers |-> {}]
    /\ writer = [w \in Wrappers |-> None]
    /\ closed = {}
    /\ pc = [c \in Callers |-> "idle"]
    /\ wrapper = [c \in Callers |-> None]
    /\ newBase = [c \in Callers |-> None]
    /\ legs = [c \in Callers |-> <<>>]
    /\ inst = [c \in Callers |-> None]

-----------------------------------------------------------------------------
(* WrapWithReconfigurable(i) for a Base i fresh from its constructor.      *)
(* Wrapping a value that is already a reconfigurableBase returns it and    *)
(* wrapping a non-Base fails; neither changes any state.                   *)
WrapWithReconfigurable(w, i) ==
    /\ status[w] = "unused"
    /\ i \notin Owned \cup closed
    /\ actual' = [actual EXCEPT ![w] = i]
    /\ status' = [status EXCEPT ![w] = "fresh"]
    /\ UNCHANGED <<readers, blocked, writer, closed, pc, wrapper, newBase, legs, inst>>

(* The resource manager publishes a fresh wrapper as the robot's Base.     *)
Publish(w) ==
    /\ status[w] = "fresh"
    /\ status' = [status EXCEPT ![w] = "live"]
    /\ UNCHANGED <<actual, readers, blocked, writer, closed, pc, wrapper, newBase, legs, inst>>

(* A goroutine calls one method (MoveStraight ... WidthGet, ProxyFor) of a *)
(* published wrapper.                                                      *)
CallMethod(c, w, m) ==
    /\ pc[c] = "idle"
    /\ status[w] = "live"
    /\ pc' = [pc EXCEPT ![c] = "start"]
    /\ wrapper' = [wrapper EXCEPT ![c] = w]
    /\ legs' = [legs EXCEPT ![c] = <<m>>]
    /\ UNCHANGED <<actual, status, readers, blocked, writer, closed, newBase, inst>>

(* DoMove(move, base): a Spin when AngleDeg # 0, then a MoveStraight when  *)
(* DistanceMillis # 0.  A move with neither returns nil at once.           *)
MoveLegs(spin, straight) ==
    (IF spin THEN <<"Spin">> ELSE <<>>) \o (IF straight THEN <<"MoveStraight">> ELSE <<>>)

DoMove(c, w, spin, straight) ==
    /\ pc[c] = "idle"
    /\ status[w] = "live"
    /\ MoveLegs(spin, straight) # <<>>
    /\ pc' = [pc EXCEPT ![c] = "start"]
    /\ wrapper' = [wrapper EXCEPT ![c] = w]
    /\ legs' = [legs EXCEPT ![c] = MoveLegs(spin, straight)]
    /\ UNCHANGED <<actual, status, readers, blocked, writer, closed, newBase, inst>>

(* Mutant: an RLock that does not yield to a waiting writer.             *)
RLock_ReaderPreference(c) ==
    /\ pc[c] = "start"
    /\ readers' = [readers EXCEPT ![wrapper[c]] = @ \cup {c}]
    /\ pc' = [pc EXCEPT ![c] = "rlock"]
    /\ UNCHANGED <<actual, status, blocked, writer, closed, wrapper, newBase, legs, inst>>

(* r.mu.RLock() at the top of a domain method: it blocks while a writer    *)
(* holds or waits for the lock.                                            *)
RLock(c) ==
    LET w == wrapper[c] IN
    /\ pc[c] = "start"
    /\ IF writer[w] = None
         THEN /\ readers' = [readers EXCEPT ![w] = @ \cup {c}]
              /\ UNCHANGED blocked
         ELSE /\ blocked' = [blocked EXCEPT ![w] = @ \cup {c}]
              /\ UNCHANGED readers
    /\ pc' = [pc EXCEPT ![c] = "rlock"]
    /\ UNCHANGED <<actual, status, writer, closed, wrapper, newBase, legs, inst>>

(* Mutant: the method reads r.actual under the lock and unlocks before it *)
(* calls the driver.                                                       *)
Forward_EarlyUnlock(c) ==
    /\ pc[c] = "rlock"
    /\ c \in readers[wrapper[c]]
    /\ readers' = [readers EXCEPT ![wrapper[c]] = @ \ {c}]
    /\ pc' = [pc EXCEPT ![c] = "inCall"]
    /\ inst' = [inst EXCEPT ![c] = actual[wrapper[c]]]
    /\ UNCHANGED <<actual, status, blocked, writer, closed, wrapper, newBase, legs>>

(* return r.actual.M(...): once the read lock is held the call is          *)
(* forwarded to the driver the wrapper holds at that moment.               *)
Forward(c) ==
    /\ pc[c] = "rlock"
    /\ c \in readers[wrapper[c]]
    /\ pc' = [pc EXCEPT ![c] = "inCall"]
    /\ inst' = [inst EXCEPT ![c] = actual[wrapper[c]]]
    /\ UNCHANGED <<actual, status, readers, blocked, writer, closed, wrapper, newBase, legs>>

(* The driver call returns (with ok or an error, including a cancelled     *)
(* context) and the deferred RUnlock runs.  DoMove goes on to its next leg *)
(* only after a leg that returned nil.                                     *)
Finish(c, ok) ==
    LET w    == wrapper[c]
        rest == IF ok THEN Tail(legs[c]) ELSE <<>>
    IN
    /\ pc[c] = "inCall"
    /\ readers' = [readers EXCEPT ![w] = @ \ {c}]
    /\ pc' = [pc EXCEPT ![c] = IF rest = <<>> THEN "idle" ELSE "start"]
    /\ wrapper' = [wrapper EXCEPT ![c] = IF rest = <<>> THEN None ELSE w]
    /\ legs' = [legs EXCEPT ![c] = rest]
    /\ inst' = [inst EXCEPT ![c] = None]
    /\ UNCHANGED <<actual, status, blocked, writer, closed, newBase>>

(* The resource manager builds a new wrapper n, calls r.Reconfigure(n) on  *)
(* the published r and then drops n.  n may also be a Reconfigurable of    *)
(* another subtype.                                                        *)
StartReconfigure(c, r, n) ==
    /\ pc[c] = "idle"
    /\ status[r] = "live"
    /\ n \in {x \in Wrappers : status[x] = "fresh"} \cup {Foreign}
    /\ pc' = [pc EXCEPT ![c] = "lock"]
    /\ wrapper' = [wrapper EXCEPT ![c] = r]
    /\ newBase' = [newBase EXCEPT ![c] = n]
    /\ status' = IF n = Foreign THEN status ELSE [status EXCEPT ![n] = "dropped"]
    /\ UNCHANGED <<actual, readers, blocked, writer, closed, legs, inst>>

(* r.mu.Lock(), first half: take the writer mutex and announce the writer *)
(* so that later RLock calls block.                                        *)
Lock(c) ==
    /\ pc[c] = "lock"
    /\ writer[wrapper[c]] = None
    /\ writer' = [writer EXCEPT ![wrapper[c]] = c]
    /\ pc' = [pc EXCEPT ![c] = "drain"]
    /\ UNCHANGED <<actual, status, readers, blocked, closed, wrapper, newBase, legs, inst>>

(* Mutant: Lock that does not wait for the readers to drain.              *)
Reconfigure_NoDrain(c, closeOk) ==
    LET r == wrapper[c]
        n == newBase[c]
    IN
    /\ pc[c] = "drain"
    /\ IF n = Foreign
         THEN UNCHANGED <<actual, closed>>
         ELSE /\ closed' = IF closeOk THEN closed \cup {actual[r]} ELSE closed
              /\ actual' = [actual EXCEPT ![r] = actual[n]]
    /\ readers' = [readers EXCEPT ![r] = @ \cup blocked[r]]
    /\ blocked' = [blocked EXCEPT ![r] = {}]
    /\ writer' = [writer EXCEPT ![r] = None]
    /\ pc' = [pc EXCEPT ![c] = "idle"]
    /\ wrapper' = [wrapper EXCEPT ![c] = None]
    /\ newBase' = [newBase EXCEPT ![c] = None]
    /\ UNCHANGED <<status, legs, inst>>

(* Mutant: TryClose of the old driver before the type assertion.         *)
Reconfigure_CloseFirst(c, closeOk) ==
    LET r == wrapper[c]
        n == newBase[c]
    IN
    /\ pc[c] = "drain"
    /\ readers[r] = {}
    /\ closed' = IF closeOk THEN closed \cup {actual[r]} ELSE closed
    /\ actual' = IF n = Foreign THEN actual ELSE [actual EXCEPT ![r] = actual[n]]
    /\ readers' = [readers EXCEPT ![r] = blocked[r]]
    /\ blocked' = [blocked EXCEPT ![r] = {}]
    /\ writer' = [writer EXCEPT ![r] = None]
    /\ pc' = [pc EXCEPT ![c] = "idle"]
    /\ wrapper' = [wrapper EXCEPT ![c] = None]
    /\ newBase' = [newBase EXCEPT ![c] = None]
    /\ UNCHANGED <<status, legs, inst>>

(* Mutant: an Unlock that does not release the readers that blocked.     *)
Reconfigure_NoWake(c, closeOk) ==
    LET r == wrapper[c]
        n == newBase[c]
    IN
    /\ pc[c] = "drain"
    /\ readers[r] = {}
    /\ IF n = Foreign
         THEN UNCHANGED <<actual, closed>>
         ELSE /\ closed' = IF closeOk THEN closed \cup {actual[r]} ELSE closed
              /\ actual' = [actual EXCEPT ![r] = actual[n]]
    /\ writer' = [writer EXCEPT ![r] = None]
    /\ pc' = [pc EXCEPT ![c] = "idle"]
    /\ wrapper' = [wrapper EXCEPT ![c] = None]
    /\ newBase' = [newBase EXCEPT ![c] = None]
    /\ UNCHANGED <<status, readers, blocked, legs, inst>>

(* Mutant: a TryClose failure is returned as Reconfigure's error and the *)
(* swap is not committed (the hard failure the spec's open question       *)
(* rejects).                                                               *)
Reconfigure_AbortOnCloseErr(c, closeOk) ==
    LET r == wrapper[c]
        n == newBase[c]
    IN
    /\ pc[c] = "drain"
    /\ readers[r] = {}
    /\ IF n = Foreign \/ ~closeOk
         THEN UNCHANGED <<actual, closed>>
         ELSE /\ closed' = closed \cup {actual[r]}
              /\ actual' = [actual EXCEPT ![r] = actual[n]]
    /\ readers' = [readers EXCEPT ![r] = blocked[r]]
    /\ blocked' = [blocked EXCEPT ![r] = {}]
    /\ writer' = [writer EXCEPT ![r] = None]
    /\ pc' = [pc EXCEPT ![c] = "idle"]
    /\ wrapper' = [wrapper EXCEPT ![c] = None]
    /\ newBase' = [newBase EXCEPT ![c] = None]
    /\ UNCHANGED <<status, legs, inst>>

(* The body of Reconfigure, run once the readers have drained: the type   *)
(* assertion on newBase, TryClose of the old driver (a failure is only     *)
(* logged), r.actual = actual.actual, and the deferred Unlock, which       *)
(* admits the readers that blocked meanwhile.                              *)
Reconfigure(c, closeOk) ==
    LET r == wrapper[c]
        n == newBase[c]
    IN
    /\ pc[c] = "drain"
    /\ readers[r] = {}
    /\ IF n = Foreign
         THEN UNCHANGED <<actual, closed>>
         ELSE /\ closed' = IF closeOk THEN closed \cup {actual[r]} ELSE closed
              /\ actual' = [actual EXCEPT ![r] = actual[n]]
    /\ readers' = [readers EXCEPT ![r] = blocked[r]]
    /\ blocked' = [blocked EXCEPT ![r] = {}]
    /\ writer' = [writer EXCEPT ![r] = None]
    /\ pc' = [pc EXCEPT ![c] = "idle"]
    /\ wrapper' = [wrapper EXCEPT ![c] = None]
    /\ newBase' = [newBase EXCEPT ![c] = None]
    /\ UNCHANGED <<status, legs, inst>>

-----------------------------------------------------------------------------
Environment ==
    \/ \E w \in Wrappers, i \in Instances : WrapWithReconfigurable(w, i)
    \/ \E w \in Wrappers : Publish(w)
    \/ \E c \in Callers, w \in Wrappers :
          \/ \E m \in CallMethods : CallMethod(c, w, m)
          \/ \E spin, straight \in BOOLEAN : DoMove(c, w, spin, straight)
          \/ \E n \in Wrappers \cup {Foreign} : StartReconfigure(c, w, n)

Step(c) ==
    \/ RLock(c)
    \/ Forward(c)
    \/ \E ok \in BOOLEAN : Finish(c, ok)
    \/ Lock(c)
    \/ \E closeOk \in BOOLEAN : Reconfigure(c, closeOk)

Next == Environment \/ \E c \in Callers : Step(c)

Spec == Init /\ [][Next]_vars

(* The same call of Reconfigure by a caller that passes a wrapper it did *)
(* not build for the purpose and keeps using it: r itself, or another     *)
(* fresh or published wrapper.  Reconfigure neither rejects such an       *)
(* argument nor takes the driver away from it.                             *)
StartReconfigureReused(c, r, n) ==
    /\ pc[c] = "idle"
    /\ status[r] = "live"
    /\ status[n] \in {"fresh", "live"}
    /\ pc' = [pc EXCEPT ![c] = "lock"]
    /\ wrapper' = [wrapper EXCEPT ![c] = r]
    /\ newBase' = [newBase EXCEPT ![c] = n]
    /\ UNCHANGED <<actual, status, readers, blocked, writer, closed, legs, inst>>

NextReuse == Next \/ \E c \in Callers, r, n \in Wrappers : StartReconfigureReused(c, r, n)

ReuseSpec == Init /\ [][NextReuse]_vars

(* Driver calls return (the context bounds them), a goroutine that holds   *)
(* or may take a lock keeps running, and Go's sync.Mutex hands the writer  *)
(* mutex to a waiter that keeps asking (starvation mode).                  *)
Fairness ==
    \A c \in Callers :
        /\ WF_vars(RLock(c))
        /\ WF_vars(Forward(c))
        /\ WF_vars(\E ok \in BOOLEAN : Finish(c, ok))
        /\ SF_vars(Lock(c))
        /\ WF_vars(\E closeOk \in BOOLEAN : Reconfigure(c, closeOk))

FairSpec == Spec /\ Fairness

-----------------------------------------------------------------------------
(* Every variable holds a value of its kind: a wrapper holds a driver or  *)
(* nothing, and every goroutine is at one of the stages of its call.      *)
TypeOK ==
    /\ actual \in [Wrappers -> Instances \cup {None}]
    /\ status \in [Wrappers -> WStatus]
    /\ readers \in [Wrappers -> SUBSET Callers]
    /\ blocked \in [Wrappers -> SUBSET Callers]
    /\ writer \in [Wrappers -> Callers \cup {None}]
    /\ closed \in SUBSET Instances
    /\ pc \in [Callers -> Stages]
    /\ wrapper \in [Callers -> Wrappers \cup {None}]
    /\ newBase \in [Callers -> Wrappers \cup {Foreign, None}]
    /\ legs \in [Callers -> Seq(BaseMethods)]
    /\ inst \in [Callers -> Instances \cup {None}]

(* A domain call in flight is running on the driver its wrapper holds now: *)
(* no Reconfigure of that wrapper can commit while the call is running     *)
(* (spec 4.2, "no caller ever observes a call dispatched to an instance    *)
(* that has already been replaced").                                       *)
CallsSeeCurrent ==
    \A c \in Callers : pc[c] = "inCall" => inst[c] = actual[wrapper[c]]

(* No domain call is ever running on a driver that TryClose has released, *)
(* whatever the interleaving of calls, DoMove legs and Reconfigures of    *)
(* several wrappers.                                                       *)
NoCallOnClosed ==
    \A c \in Callers : pc[c] = "inCall" => inst[c] \notin closed

(* A Reconfigure whose argument is not a reconfigurableBase fails without *)
(* touching the wrapper: the driver is neither replaced nor closed (spec  *)
(* section 8, "leaves the original instance fully intact").                *)
MismatchLeavesIntact ==
    [][\A c \in Callers :
          (pc[c] = "drain" /\ newBase[c] = Foreign /\ pc'[c] = "idle")
             => (actual' = actual /\ closed' = closed)]_vars

(* Every Reconfigure returns: the writer-preferring RWMutex keeps a stream *)
(* of overlapping domain calls from starving it.                           *)
ReconfigureCompletes ==
    \A c \in Callers : pc[c] \in {"lock", "drain"} ~> pc[c] = "idle"

(* Every domain call and every DoMove returns, also one that blocked in   *)
(* RLock behind a pending Reconfigure.                                     *)
CallCompletes ==
    \A c \in Callers : pc[c] \in {"start", "rlock", "inCall"} ~> pc[c] = "idle"

-----------------------------------------------------------------------------
(* The refinement mapping onto AtomicBase hides the RWMutex: a goroutine  *)
(* waiting for or holding the read lock before its driver call is still   *)
(* waiting to be dispatched, and one in Lock is still in Reconfigure.      *)
AbsStage(s) ==
    IF s \in {"start", "rlock"} THEN "call"
    ELSE IF s \in {"lock", "drain"} THEN "reconf"
    ELSE s

AbsPc == [c \in Callers |-> AbsStage(pc[c])]

Abs == INSTANCE AtomicBase WITH pc <- AbsPc

(* The wrapper implements the atomic swap of spec 4.2: every behaviour of *)
(* the lock-based code, with its RLock/Lock interleavings, is one where    *)
(* each driver call is dispatched to the current driver and each          *)
(* Reconfigure swaps drivers in one step while no call runs on the wrapper.*)
AtomicSwapRefinement == Abs!Spec

=============================================================================
