# TLA+ verification of the component abstraction layer

This directory holds TLA+ models of the Go code under `src/`, the TLC configurations
that check them on small instances, and TLAPS proofs of their main safety properties.

## 1. The system and its parts

`src/` holds four files:

| file | lines | content |
|---|---|---|
| `src/unnamed/part_000` | 1-89 | servo gRPC client adapter (`serviceClient`, `client`: `Move`, `AngularOffset`, `Close`) |
| `src/unnamed/part_000` | 90-247 | base package: `Base` contract, `reconfigurableBase` (RWMutex + current driver), `Reconfigure`, `WrapWithReconfigurable`, `Move` / `DoMove` |
| `src/component/sensor/server_test.go` | 1-73 | test of the sensor RPC server adapter over a subtype registry (the server itself is not in `src/`) |
| `src/robots/fake/input.go` | 1-71 | fake input controller driver, its registration and attribute converter |
| `src/cli/viam/main.go` | 1-546 | the `viam` command-line tool: a urfave/cli command table and `app.Run` |
| `src/cli/viam/main.go` | 547-579 | a compass `MedianHeading` test (no code under test in `src/`) |

How they interact (spec, "Data flow"): a caller invokes a component contract (e.g. `Base`,
`Servo`) either locally, on a reconfigurable wrapper that forwards to the current driver, or
remotely, through an RPC client adapter whose requests the server adapter resolves in the
subtype registry and forwards to a wrapper. The wrapper is the only place where several
goroutines meet: callers of the domain methods and the goroutine that reconfigures the robot.
The client adapter meets an unreliable network and its deadlines.

## 2. Components and modules

| component | module(s) | status |
|---|---|---|
| reconfigurable Base wrapper | `ReconfigurableBase`, `AtomicBase`, `ReconfigurableBase_proofs`, `MC_ReconfigurableBase` | modelled |
| servo RPC client adapter | `ServoClient`, `AtMostOnceServo`, `ServoClient_proofs`, `MC_ServoClient` | modelled |
| sensor RPC server adapter + subtype registry | none | not modelled: `src/` holds only the test; the server and the registry it exercises are not in `src/`, and a model of them from the spec alone would only restate the spec |
| fake input controller | `FakeInput`, `MC_FakeInput` | modelled |
| `viam` CLI | `ViamCommands`, `ViamApp`, `ViamCLI`, `MC_ViamCLI` | partly: command table, dispatch and the error path; the actions' remote calls are a nondeterministic success or error |
| compass test | none | not modelled: a test of code that is not in `src/` |

### 2.1 `ReconfigurableBase` (part_000 lines 119-247)

State:

* `actual[w]` is the field `reconfigurableBase.actual` of wrapper `w`; drivers are the
  model values `Instances`, and `closed` is the set of drivers on which `TryClose` ran.
* `readers[w]`, `blocked[w]`, `writer[w]` model `sync.RWMutex` `mu` with Go's writer
  preference: once `Lock` has announced itself, new `RLock` calls block; the writer enters
  when the readers present have left; `Unlock` admits every reader that blocked meanwhile.
* `pc[c]`, `wrapper[c]`, `newBase[c]`, `legs[c]`, `inst[c]` are the program counter and
  locals of caller goroutine `c`; `status[w]` records whether wrapper `w` is unused,
  freshly built, published to callers, or handed to a `Reconfigure` as `newBase`.

Actions, in code order:

* `CallMethod` starts one of `MoveStraight`, `MoveArc`, `Spin`, `Stop`, `WidthGet` or
  `ProxyFor` (they share one shape: `RLock`; `defer RUnlock`; forward to `r.actual`).
* `DoMove` starts `DoMove`: a `Spin` leg if `AngleDeg != 0`, then a `MoveStraight` leg if
  `DistanceMillis != 0`, each a separate locked call; an error ends it early.
* `RLock`, `Forward` (reads `r.actual` and calls the driver), `Finish` (returns, `RUnlock`).
* `StartReconfigure`, `Lock`, and `Reconfigure`: the type assertion (a foreign newBase
  returns the error and changes nothing), `TryClose` of the old driver (its failure is only
  logged: `closeOk` chooses), `r.actual = actual.actual`, and `Unlock`.
* `WrapWithReconfigurable` builds a wrapper around a driver nobody owns; `Publish`
  hands it to callers. "Nobody owns" (`i \notin Owned \cup closed`) is not a check in
  lines 208-219. It is an assumption about callers: constructors hand over fresh drivers.
  Wrapping a value that is already wrapped, or one that is not a Base, changes no state.
  `actual` has static type `Base`, so nothing but a driver is ever stored in it.

### 2.1.1 `AtomicBase`: what the wrapper promises

`AtomicBase` is the wrapper as spec 4.2 describes it, with no lock: `Call` starts a method
or a `DoMove`, `Dispatch` runs it on the driver held at that moment, `Return` ends a leg,
and `Swap` replaces the driver in one step, only while no call runs on that wrapper (a
foreign argument fails without change; a failed release still commits the swap).
`ReconfigurableBase` refines it under the mapping `AbsPc`, which hides `readers`,
`blocked` and `writer` and merges the stages `start`/`rlock` into `call` and
`lock`/`drain` into `reconf`. `RLock` and `Lock` map to stutters, `Forward` to `Dispatch`,
`Finish` to `Return` and `Reconfigure` to `Swap`; `AtomicSwapRefinement == Abs!Spec` is
checked as a property and proved.

### 2.2 `ServoClient` (part_000 lines 16-89)

`conn` and `closes` model the `dialer.ClientConn` and the calls of its `Close`; each caller
goroutine makes unary calls (`Move`, `AngularOffset`) whose requests and replies travel in
`net`; `Lose` drops either, `Fail` ends a call with a deadline/cancellation error (returned
verbatim, `if err != nil { return err }`), `Reply` returns success. The servo service at
the other end (`Serve`) is modelled from the spec: it runs each request it receives once.
`applied` counts how often the server executed each Move.

`AtMostOnceServo` is what the client promises its callers, with the network hidden: a call
sends its request once (or fails at once on a closed client); a live request may
`Execute` once or be `Drop`ped; `Return` reports success for a Move only after it ran;
`Fail` returns an error whatever became of the request. `ServoClient` implements it under
the mapping `live <- LiveRequests` (the requests in `net`; replies are hidden): `Serve`
of a request is `Execute`, `Lose` of a request is `Drop`, `Lose` of a reply is a
stutter, `Move`/`AngularOffset` are `Invoke`, `Reply` is `Return`, `Fail` is `Fail`. `AtMostOnceRefinement == AMO!Spec` is checked and proved.

### 2.3 `FakeInput` (src/robots/fake/input.go)

`RegisterModel` is `init()`; `ConvertAttributes` is the registered converter, whose
`mapstructure` decode (`Decode`) sets only exported fields of `Config`;
`NewInputController` copies `Config.controls`; `CallControls`, `CallLastEvents` and
`RegisterControlCallback` are the three methods.

### 2.4 `ViamCommands`, `ViamApp`, `ViamCLI` (src/cli/viam/main.go)

`ViamCommands` holds the command table of `main`: a sequence of records (path, aliases,
flags, required flags, action) built by `Cmd`. `Walk` resolves argv as urfave/cli does
(the first name-or-alias match wins). `Sprintf` is what `fmt.Sprintf` prints for a format
with no operands (`%d` with no operand, `%%`, a trailing `%`). Both are RECURSIVE
operators.

`ViamApp` is `main`'s run and error path, with the resolver and the formatter as constant
operators `Resolve(_)` and `Format(_)`:
* `Dispatch` chooses help, unknown command, unknown or missing flag, or the action;
* `RunAction` ends with success or an error;
* `Report` is `rdkcli.Errorf(app.ErrWriter, err.Error())`, which writes
  `Format(ErrorLine(err))` and exits 1.

An unknown subcommand is modelled as an error that `main` reports with status 1. In
urfave/cli v2, the help action returns an exit code that `app.Run` handles itself. No
property depends on this.

`ViamCLI` extends both modules and adds `ResolveArgs(w) == Walk(Root, w)` and the table
property `ResolutionUnambiguous`. The cfgs give `Resolve <- ResolveArgs` and
`Format <- Sprintf`, so TLC runs the real resolution and formatting.

## 3. Runs

| run | cfg | bounds | checks |
|---|---|---|---|
| base_safety | `ReconfigurableBase_safety.cfg` | 3 callers, 3 wrappers, 3 drivers, symmetry | `CallsSeeCurrent`, `NoCallOnClosed`, `MismatchLeavesIntact`, `AtomicSwapRefinement` |
| base_liveness | `ReconfigurableBase_liveness.cfg` | 3 callers, 2 wrappers, 2 drivers | `ReconfigureCompletes`, `CallCompletes` under `FairSpec` |
| base_reuse | `ReconfigurableBase_reuse.cfg` | 2 callers, 2 wrappers, 2 drivers | violation of `NoCallOnClosed` when newBase stays in use |
| servo_safety | `ServoClient_safety.cfg` | 2 callers, 2 calls each, angles {0, 200}, 1 Close | `TypeOK`, `SuccessImpliesApplied`, `AppliedAtMostOnce`, `AtMostOnceRefinement` |
| servo_close_twice | `ServoClient_close.cfg` | 1 caller, 2 Close | violation of `CloseOnce` |
| fake_controls | `FakeInput.cfg` | 2 controls, 1 caller | violation of `ConfiguredControlsListed` |
| cli_dispatch | `ViamCLI.cfg` | 13 argvs covering every command group, help, unknown command/flag, missing flag | `ResolutionUnambiguous` |
| cli_errorf | `ViamCLI_errorf.cfg` | error texts "e" and "50%done" | violation of `ErrorPrintedVerbatim` |

What the properties say:

* `CallsSeeCurrent`: a caller inside the driver call runs on its wrapper's current driver.
  A reconfiguration that does not wait for readers, or a read lock released before the
  driver call, breaks it.
* `NoCallOnClosed`: no driver call runs on a driver that `Reconfigure` closed.
* `MismatchLeavesIntact`: a `Reconfigure` whose type assertion fails changes neither the
  driver nor the closed set (the assertion must come before `TryClose`).
* `AtomicSwapRefinement`: every behaviour of the lock-based wrapper is a behaviour of
  `AtomicBase`. A `Reconfigure` that returns a `TryClose` failure without committing the
  swap (the "hard failure" the spec's open question rejects) breaks it.
* `ReconfigureCompletes`, `CallCompletes`: every reconfiguration and every call ends.
* `SuccessImpliesApplied`: a Move reported as done was executed by the servo.
* `AppliedAtMostOnce`: no Move is executed twice (no retry at this layer).
* `AtMostOnceRefinement`: every behaviour of the client over the lossy network is one of
  `AtMostOnceServo`. A client that sends the request even after `Close` breaks it.
* `ResolutionUnambiguous`: no argv word matches two subcommands, and the command reached
  defines no flag name twice (urfave/cli would panic or silently take the first). It is
  checked only for the commands and words the 13 argvs reach.

Bounds: three callers are the fewest for two readers and a writer to interleave; three
wrappers and drivers let a reconfiguration take a fresh wrapper's driver while a third stays
live. For the servo, two callers with two calls each let a late reply of a timed-out call
meet the next call. The CLI
argvs reach every group of the table and every branch of `Dispatch`. Each property has a mutant (PROJECT.json) that TLC kills at these bounds.

Deadlock is not checked for `servo_safety` and `cli_dispatch`: each goroutine makes a bounded number of calls,
after which the program has nothing left to do.

### Fairness

`FairSpec` assumes weak fairness of each caller's `RLock`, `Forward`, `Finish` and
`Reconfigure` steps (a goroutine that can run keeps running: drivers return) and strong
fairness of `Lock`. `Lock` is enabled only intermittently, because other Reconfigures of
the same wrapper take and release the writer mutex. Go's `sync.Mutex` hands it to a
waiter that keeps asking (starvation mode), which is strong fairness. Readers do not need
it: Go's RWMutex lets a pending writer in by blocking later readers, which is what the
model's `RLock` does, so the reader drain needs only weak fairness of `Reconfigure`. Environment actions (new calls, new reconfigurations) get no
fairness.

## 4. Findings

* `base_reuse`: `Reconfigure` accepts any `*reconfigurableBase` as `newBase`, itself
  included. It closes its own driver and copies `actual.actual` without taking it from
  `newBase`. A wrapper can then forward to a closed driver (line 204).
* `servo_close_twice`: `serviceClient.Close` has no guard; a second `Close` reaches
  `conn.Close()` again, while the spec says the connection is closed exactly once (line 46).
* `fake_controls`: `Config.controls` is unexported, so `mapstructure` never sets it; a
  configured list of controls is dropped and `Controls` returns nil (input.go line 44).
* `cli_errorf`: `main` prints the action's error through a format string
  (`Errorf(err.Error())`, main.go line 544); an error text containing `%` is mangled
  (`50%done` prints `50%!d(MISSING)one`).

## 5. Proofs

`ReconfigurableBase_proofs` proves, for every value of the constants:

* `TypeCorrect`: `Spec => []TypeOK`;
* `WrapperSafety`: `Spec => [](CallsSeeCurrent /\ NoCallOnClosed)`;
* `DispatchToCurrent`: `Spec => []CallsSeeCurrent`;
* `AtomicSwap`: `Spec => AtomicSwapRefinement`, the refinement of `AtomicBase`;
* `MismatchIntact`: `Spec => MismatchLeavesIntact`, from the lemma `ForeignStep`
  (`IInv /\ [Next]_vars => [ForeignReturnHarmless]_vars`): the only step taking a caller
  from `drain` with a foreign argument back to `idle` is its `Reconfigure`, which changes
  neither `actual` nor `closed`.

`TypeOK` is not inductive by itself, and neither is `NoCallOnClosed`: they rely on the
lock discipline and on ownership. The inductive invariant `IInv` conjoins

* `LockInv`: readers of a wrapper are callers at `rlock`/`inCall` on it; blocked callers
  are not readers; a caller inside a driver call is a reader;
* `CallerInv`: busy callers address a published wrapper;
* `OwnInv`: the drivers held by fresh or live wrappers and by pending newBases are open
  and pairwise distinct;
* `CallsSeeCurrent`.

`Init => IInv` and `IInv /\ [Next]_vars => IInv'` are proved with one step per action and
one sub-step per conjunct; `IInv => NoCallOnClosed` follows because a caller in a call reads
the current driver of a live wrapper, which `OwnInv` keeps open.

The refinement proof shows `Init => Abs!Init` and `IInv /\ [Next]_vars => [Abs!Next]_Abs!vars`
with one step per action. The lemma `AbsPcExcept` says how moving one goroutine changes
`AbsPc`. The only step that needs the invariant is `Reconfigure`: its guard
`readers[r] = {}` gives `Swap`'s guard (no call in flight on `r`), because `LockInv` makes
every goroutine in a driver call a reader of its wrapper.

`ServoClient_proofs` proves, for every number of callers, calls and closes:

* `MoveAtMostOnce`: `Spec => []AppliedAtMostOnce`;
* `ReportedMovesApplied`: `Spec => []SuccessImpliesApplied`;
* `ServoTypeCorrect`: `Spec => []TypeOK`;
* `AtMostOnce`: `Spec => AtMostOnceRefinement`, the refinement of `AtMostOnceServo`.

Their inductive invariant adds to `TypeOK` facts about the network: `NetInv` (every message
belongs to a call already started; each call has at most one request in flight; a message
of a caller's current call carries that call's method), `ReqInv` (`req[c]` is the request
of `c`'s latest call) and `AppliedInv` (an unstarted call was never executed; once a Move
is executed its request is gone from the network; a Move reply exists only for an executed
Move). They are needed because a late reply or request of an earlier call must never be
taken for the current one, which the identifiers `<<c, k>>` guarantee. The refinement
proof (`InvokeRefines`, `StepRefines`) needs them once: a `Reply` of success to a Move
meets `Return`'s guard because `AppliedInv` says a Move reply exists only for an executed
Move, and `NetInv` says it belongs to the caller's current call.

Only model-checked:

* the liveness properties `ReconfigureCompletes` and `CallCompletes`: TLAPS does not
  reason about fairness and ENABLED;
* `ResolutionUnambiguous`, a property of the command table and of what the RECURSIVE
  `Walk` computes. The prover loses its SMT backend in a module that reaches a RECURSIVE
  declaration. Rewriting it as recursive functions or folds would not help, because what
  such a definition computes for every input needs an induction or fixed-point theorem
  that takes an operator parameter, and no installed prover can instantiate one;
* the violation runs, which are counterexamples and need no proof.

## 6. Not modelled

* The compass test and the sensor server test are tests of code that is not in `src/`.
* Data of calls (distances, speeds, readings) is abstracted away: no property depends on it.
* Logging (`rlog.Logger.Errorw`) and error wording.
