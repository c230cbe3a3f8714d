# A TLA+ model of libinger

libinger runs a function call with a time budget.  `launch(fun, us)` starts
`fun`, and hands back a `Linger`: a `Completion` if the function returned in
time, otherwise a `Continuation` that `resume()` continues, possibly on another
thread, or whose drop cancels the call.  This directory holds TLA+ modules that
model the library, TLC configurations that check them on small instances, and
proofs, checked by TLAPS, that hold for every value of the constants.

Paths below are relative to the repository, e.g. `src/linger.rs`.

## The system

| Part | Source | Module | State of the model |
|------|--------|--------|--------------------|
| preemptible functions: `launch`, `resume`, `pause`, `schedule`, the handler `preempt`, drop | `src/linger.rs` | `Preemption`, `Linger`, `TimeSlice`, `Resources` | all but nested calls and errno values |
| enabling, disabling and deferring preemption; thread setup | `src/preemption.rs` | `Preemption` | all but `errno_group()` |
| a thread's signal and timer, from its first `resume()` to its end | `src/preemption.rs`, `src/signals.rs` | `ThreadSignal`, `Pool` | complete |
| time budgets: `stamp`, `pause`, `preempt`, the interval timer | `src/linger.rs`, `src/preemption.rs`, `src/timer.rs` | `Deadline`, `TimeSlice` | complete, with a clock that may be set |
| pools of reusable values | `src/reusable.rs` | `Pool`, `Allocator` | complete (the `Sync` variant, which is the one in use) |
| libsets, TCBs and stacks of a function | `src/groups.rs`, `src/localstores.rs`, `src/stacks.rs`, `src/linger.rs` | `Resources`, `Allocator` | complete |
| virtual thread-control blocks | `src/tcb.rs`, `src/tcbstub.rs` | `Tcb` | complete |
| C interface | `src/ffi.rs`, `src/force.rs` | `CInterface` | complete |
| futures adapter | `src/future.rs` | `PreemptiveFuture` | complete |
| POSIX timers, libsignal | `src/timer.rs`, `internal/libsignal/src` | `Preemption`, `Deadline`, `ThreadSignal` | as far as preemption uses them |
| profiler, header generator, small helpers | `src/profiler.rs`, `src/main.rs`, `src/lib.rs`, ... | - | no state that matters |
| compiler wrapper | `compiler/` | - | a source transformation; not part of the running system |
| libgotcha, libtimetravel | not in this tree | `Preemption` | modelled from how `src/` uses them |

How the parts interact.  `launch()` takes a *libset* (a copy of every library,
called a group in the code) and a *virtual TCB* (a copy of the thread-local
storage) from pools; the first `resume()` takes a stack.  `resume()` installs
the TCB, gives the thread a preemption signal and a periodic timer if it has
none, and switches to the function's stack.  There `schedule()` enables
preemption, calls the function, and disables preemption again.  Every timer
tick runs `preempt()`: if the function is in its own libset and its deadline has
passed, the handler exchanges the interrupted context with the one saved in
`resume()`; if the function is inside a nonpreemptible call (the shared libset),
it sets `DEFERRED` and masks the signal, and the hook that libgotcha runs at the
end of such a call raises the signal again.  `pause()` uses the same mechanism.

## The modules

### Preemption, Linger

`Preemption` is the core: kernel threads and their signal masks, pending
signals, the thread-local variables of each virtual TCB (`TASK`, `BOOTSTRAP`,
`DEADLINE`, `SIGNAL`, `DEFERRED`), the position on each function's stack, and
the `Linger` values.  The variables have the names of the source.

* A *slot* `c` in `Cont` is a libset, a TCB and a stack used together; its TLS
  outlives the function, as it does in the code.  That they may be combined
  differently by the pools is the subject of `Resources`.
* A thread's signal is identified with the thread.
* An action is the code between two points at which a signal can make a
  difference.  `disable_preemption()` is five actions, since it starts with the
  signal unmasked; code that runs with the thread's signal masked and touches
  nothing that another thread's signal can affect is one.
* Signals.  Timers signal the *process* (`SIGEV_SIGNAL`), so `procPend` can be
  taken by any thread that does not mask the signal; `pthread_kill()` signals
  the *thread*.  A pending unmasked signal of `pthread_kill()` is delivered
  before the next instruction (`Quiet`).  Signals of a kind do not queue.
* The handler has one action per path.  `PreemptPanic` is the path on which
  `thread_signal()` finds `SIGNAL` mutably borrowed by the code it interrupts;
  it can occur in builds where the borrow flag of the `RefCell` is really
  written during `replace()`.
* `CallShared`, `ReturnShared` and `Deliver` model libgotcha and the kernel.
* `May` says which thread may hold which `Linger`; in the runs, any (`Movable`).
* `asked` and `dirty` are history: they are read by properties only.

`Linger` is the interface the caller sees: a `Linger` is none, fresh, paused,
completed or poisoned, and `yielded()` says of a paused one whether it called
`pause()`.  `Preemption` implements it under the mapping `apiState`,
`apiOutcome`, `apiYielded` (property `ApiSpec`): an interrupted call never
appears completed, a result never changes, and a timeout is never reported as a
yield.

### Deadline

`Preemption` abstracts `DEADLINE` to five values (zero, a raw budget, unlimited,
future, past).  `Deadline` keeps the arithmetic: numbers up to `Max` (`u64`),
`K` (1000) nanoseconds in a microsecond, a timer with period `Quantum`, and
`stamp()` with its `checked_mul()` and its addition, which wraps around in a
release build and panics in a debug build (`StampPanics`).  `nsnow()` reads the
wall clock (`wall`), which may be set in either direction at any time
(`SetAhead`, `SetBack`), while the timer's relative interval follows the time
that really passes (`now`).  The properties account for how far the clock was
set during the slice (`ahead`, `back`, history).

### TimeSlice

What a budget promises to one function, between one `resume()` and its return: a
slice ends because the function returned, because it called `pause()`, or
because a budget that is not `max_value()` has passed, and the caller can tell
which.  It is the common abstraction of `Preemption`, which has the threads and
signals, and `Deadline`, which has the numbers; that both implement it is proved
and links the two.  No run needs it.

### ThreadSignal

The life of a thread's `PreemptionSignal`.  `new()` is one action per system
call (`AssignSignal`, `Register`, `Block`, `StartTimer`), since ticks of the
signal's previous owner may arrive between any two; each call may fail
(`NewFails`), and the signals may run out (`NoSignalLeft`).  A preemptible
function is only entered and left, with the mask of its call site.  The end of
the thread runs `drop()`: `DeleteTimer` or `DeleteFails`, after which the timer
ticks on (`stray`); `Unregister`; and the return of the signal to the pool.
Threads inherit the mask of the thread that creates them (`Spawn`), and the
kernel gives a pending signal to any thread that does not mask it.

`Unregister` changes nothing.  `sigaction()` is called with `&()`, which
`Actionable` turns into a null pointer, so the disposition stays `preempt()`.
It has to: a tick may still be pending, and with the default action it would
kill the process (the variant `Reset` violates `NeverKilled`).

### Tcb

`src/tcb.rs`: which block is in a thread's FS register, whose `KERNEL_THREAD`
it carries, and how often its destructors have run.  A real control block is
identified with its thread.  Of `__ctype_init()` only its absence is modelled,
which aborts.
`install_unguarded()` is used by `install()`, by the drop of a block
(`dropping`) and, for the parent, by the drop of a guard (`Restore`).  Every
`arch_prctl()` may fail: in `install()` the block is dropped, which tries once
more and then leaks it; in the guard's drop `unwrap()` panics.  The panic unwinds
to the caller of `resume()` with the virtual block still in FS (`RestoreFails`),
and the thread goes on from there (`stranded`, history): a later `install()`
takes that block for the parent.  If `resume()` was unwinding already, the
second panic aborts (`RestoreAborts`).

### Pool, Allocator

`Pool` is `src/reusable.rs`: the vector of free values, the handles of each
thread, `prealloc()`, the builder that may run out (`assign_signal()` after 16
values, `assign_group()` at its limit) or panic while it holds the lock, also in
`prealloc()` (`PreallocPanics`, after which nobody gets a value), and the drop of
a handle.  `Allocator` is what a client relies on: a value has one
holder, a new one is made only if none is free, and only a poisoned lock loses
one.  `Pool` implements it (`AllocSpec`).

### Resources

How `launch()`, `resume()` and the drop acquire and release libset, TCB and
stack, with each pool abstracted to the promise of `Allocator`, whose clients
here are the Lingers (theorem `ImplementsAllocators`).  Threads
interleave between acquisitions, and between the drops of a `Continuation`'s
fields, which Rust drops in the order of declaration.  Every call that can
return an error or panic may do so: `install()` and `setup_thread()`
(`InstallFails`), `makecontext()` and `restorecontext()` (`SwitchFails`),
`pthread_sigmask()` for a paused function, whose error is returned only after the
function has run (`MaskFails`), `uninstall()` (`UninstallFails`), `renew()`
(`RenewFails`), and `assign_group()` with no libset left.  Which slots have lost
their TCB in this way is kept in `lost`, and which libsets a failing `renew()`
left as they were in `unrenewed` (history).

### CInterface

`src/ffi.rs` on top of `Resources`: the Lingers in `C` belong to a C program,
whose `linger_t` has the flag `is_complete`; the others belong to Rust callers.
An error or a panic in a call from C, one of the function itself included, aborts
the process.  Every behaviour of
`CSpec` is one of `Resources` (theorem `CallersInC`), so that the properties of
`Resources` hold for callers of both kinds.

### PreemptiveFuture

`poll_fns()` and `PreemptiveFuture::poll()`: the bounded channel, the function's
loop, timeouts at any point of it, errors and panics.  `recv()`, the closure,
`fun()`, the moment at which `fun()` leaves its waker, and `pause()` are steps of
their own, since a slice can be cut between any two.  The environment is the
executor, which polls a task that was woken (also spuriously, also after
`Ready`), and the user's function, which arranges for a wakeup when it returns
`Pending`.

## What TLC checks

| Run | Instance | What it shows |
|-----|----------|---------------|
| `movable` | 2 threads, 1 function, all budgets | all safety properties below, `ApiSpec`, `AbortCause`, `NonpreemptibleAtomic` |
| `solo` | 1 thread, 2 functions, all budgets, `FairSpec` | `BudgetEnforced` |
| `zero_budget` | 1 thread, 1 function | finding 1 |
| `migrated` | 2 threads, 1 function | finding 2 |
| `deadline` | `Max` 15, `K` 2, `Quantum` 3, time 1..10, clock set by up to 2 | `NeverEarly`, `Timely`, `YieldedTruthful` |
| `pool` | 2 threads, 4 values, 2 preallocated | `Exclusive`, `NothingLost`, `HighWater`, `AllocSpec` |
| `resources` | 2 threads, 3 functions (1 from C), 2 libsets; threads symmetric, and the functions of Rust callers | `Renewed`, `StacksSuffice`, `TcbsBounded`, `Separate`, `TcbsAccounted`, `FlagTruthful` |
| `missing_tcb` | 2 threads, 2 functions, 1 libset | finding 3 |
| `thread_signal` | 3 threads, 2 signals, threads symmetric | `NeverKilled`, `TimerOwned`, `ShieldedToTheEnd`, `RefusedOnlyIfExhausted`, `AllocSpec` |
| `tcb` | 2 threads, 3 blocks | `OwnIdentity`, `RestoredOutside`, `InstalledOnce`, `DestroyedOnce` |
| `future` | up to 6 polls, limited budget or not | `NoLostWakeup`, `ReadyOnce`, `PrepFresh`, `UnlimitedReturns` |
| `future_timeout` | up to 6 polls | finding 4 |

The properties of `Preemption`:

* `CallerShielded`: outside a preemptible function a thread is in the shared
  libset and its signal is masked.
* `HandlerSafe`: when the handler can pause, there is a checkpoint, and the
  deadline is a stamped one or the 0 of `pause()`.
* `DeferredMasked`, `NoLostPreemption`, `PauseSwitches`: a deferred tick leaves
  the signal masked; a function never runs its own code with the signal masked;
  after `pause()` it does not execute another step.
* `NoDanglingSignal`, `CleanTls`: nothing of a thread, or of the last function,
  is left in the TCB of an idle slot.
* `RenewExactly`: the saved errno tells the drop exactly whether the libset must
  be reinitialised.
* `HomeSignalExcluded`: while a thread replaces `SIGNAL` its own signal is
  masked, unless the function was launched on another thread (finding 2).
* `AbortCause`: `preempt()` finds `SIGNAL` borrowed, and so ends the process, only
  on another thread's signal or in a function that has moved (finding 2).  The
  first does happen with the constants of `movable`: timers signal the process,
  so a thread that is replacing `SIGNAL` may be given another thread's signal,
  which it does not mask.  The comment at `src/preemption.rs:54` considers the
  thread's own signal only.
* `NonpreemptibleAtomic`: whatever signals arrive, control leaves a function only
  in its own code or by the return of `schedule()`, never inside a call into the
  shared libset.
* `BudgetEnforced`, for one thread: a function with a finite budget, or one that
  calls `pause()`, stops running.

Those of the other modules are described where they are defined.  Several have
exceptions, each of which says something about the code.

* `NeverEarly` leaves out budgets whose sum in `stamp()` wraps around, and those
  between `Max / K` and `Max`: they are too large to be converted, but are taken
  for an absolute time that may have passed.  Such a slice can be cut at once.
  `YieldedTruthful` leaves out a sum that wraps around (to 0, it would look like
  a `pause()`).
* `TimerOwned` is about timers that could be deleted; one that could not ticks on,
  and then makes the handler check the deadlines of the signal's next owner more
  often than necessary.  `ShieldedToTheEnd` is about the thread's own signal, not
  about those of other threads.
* `Renewed` is an equivalence.  A libset in the pool contains an unfinished call
  if and only if `renew()` failed for it: the `assert!()` in the drop panics, but
  the unwinding returns the libset to the pool all the same.
* `RestoredOutside` exempts a thread on which the `unwrap()` of
  `src/tcb.rs:161` has panicked.  It is left with the block of that call, which
  nobody else can get.
* `NothingLost` accounts for every value: those that were dropped after the
  builder panicked are lost (the comment at `src/reusable.rs:68` says "Panic
  instead of losing this value"; the panic does not save it), and no others.
* `NoLostWakeup` has one exception.  A slice is cut after `fun()` left its waker,
  the waker is called, and the next poll finds the function about to `pause()`:
  it yields without having called `fun()` again, so nothing will wake the task.
  `PrepFresh` has a related one: after a cut between the closure and `fun()`,
  `fun()` follows the closure of the poll before.  In both cases the closure of
  the running poll is left in the channel, as in finding 4.

Bounds.  In `Preemption`, two threads suffice for a signal that is taken by the
wrong thread and for a function that moves; one function moving between them
reaches every order of launch, pause, move, completion, cancellation and reuse
of the slot.  Two functions on one thread add the signal state that one leaves
for the other.  No counter is bounded: signals are sets.  In `Deadline`, the
budgets cover 0, in width, a product that just fits while the sum overflows,
products that overflow, and `max_value()`; `Horizon` leaves time for several
slices, and `Slip` bounds how far the clock is set in one slice.  In `Pool`,
four values with two preallocated allow reuse, growth and exhaustion.  In
`Resources`, more functions than libsets, so that a launch waits for a drop in
progress; the bound of `TcbsBounded` is reached.  `MCResources` makes the threads
interchangeable, and the Lingers of Rust callers; no property or action singles
one out.  In `ThreadSignal`, one thread
more than signals, so that a signal is refused, and has two owners one after
the other while a third thread receives its ticks.  In `Tcb`, a block can move
between two threads while another is dropped, and a third is new.  In
`PreemptiveFuture`, `Polls` exceeds the two polls after which a timeout blocks.
`movable`, `solo`, `zero_budget`, `migrated`, `resources` and `missing_tcb`
check for deadlock as well.  In the others the system may stop: time ends,
polls run out, all values are lost to a poisoned lock, the process has aborted,
or all blocks are used up.

Fairness.  A thread inside `resume()` is scheduled, nonpreemptible calls return,
timers tick, the clock advances, and a signal that stays pending and unmasked is
delivered; all weak fairness (`FairSpec`).  Nothing is assumed of the preemptible
function, which may loop for ever.  With one thread this is enough for
`BudgetEnforced`.  With two it is not: the other thread can take the signal, which
is sent to the process, as often as it comes, and nothing in the code ensures that
the kernel chooses the right thread.  So `BudgetEnforced` is claimed for programs
that use the library on a single thread.  For the future, weak fairness of the
polling thread; nothing is assumed of wakers.

### Findings

1. `zero_budget`.  A comment says that `resume()` with a budget of 0 is a no-op
   (`src/linger.rs:207`); only `launch()` treats 0 specially, and the function
   runs until its signal is first delivered.
2. `migrated`.  `schedule()` masks the signal that it was given at launch
   (`src/linger.rs:405`).  If the function has moved, the thread's own signal is
   unmasked while `SIGNAL` is replaced.
3. `missing_tcb`.  An error or panic of `resume()` leaves the TCB's slot empty, and
   the next `resume()` that uses the slot panics.
4. `future_timeout`.  A function that timed out has not come back to the
   channel, so that a later `poll()` blocks in `send()` for ever.  The stale
   closure and the lost wakeup described above come from the same mismatch.

## What is proved

Every safety property that a passing run checks is also proved, for every value
of the constants, and so is the type invariant `TypeOK` of every module, which
the runs therefore leave out.  The proofs assume only what the modules assume of
their constants (`ConstantsDistinct`, `DeadlineAssumption`, `PoolAssumption`,
`FutureAssumption`, `ResourcesAssumption`, `CAssumption`, `SignalAssumption`,
`TcbAssumption`): numbers are in their ranges, the set of threads is finite
where threads are counted, and `None` and the like are distinct from values.

* `PreemptionProofs`: `TypeOK`, `CallerShielded`, `HandlerSafe`,
  `DeferredMasked`, `NoLostPreemption`, `NoDanglingSignal`, `PauseSwitches`,
  `CleanTls`, `RenewExactly`, and that `Preemption` implements `Linger`
  (`ImplementsApi`), for any threads, slots, budgets and any `May`.  None of the
  properties is inductive: each depends on how far `resume()` and the function
  have come.  `IInv` therefore says, for each value of `pc[t]`, what holds of the
  thread and of the slot installed on it (`Stages`: `SetupInv`, `SwitchInv`,
  `InInv`, `BackInv`), what holds of an idle slot (`Slots`, `Parked`), what
  holds of a thread anywhere (`Threads`), and that a slot is installed on one
  thread only (`Exclusive`).  Lemma `Local` reduces a step to the one thread and
  the one slot it touches (`Frame`); there is a lemma per action.  The invariant
  and these lemmas are in `PreemptionInv`.
  `HomeSignalExcluded` follows from `IInv` and from the fact that the local of
  `schedule()` stays masked once it has been (`HomeInv`).
  Finding 2 is delimited in both directions.  `AbortsOnlySo`: the handler panics
  only on another thread's signal, or in a function that has moved (`AbortCause`).
  `PinnedSignalExcluded`: if every function stays where it was launched
  (`Pinned`, a condition on `May`), the property that finding 2 refutes holds.
  `PinnedAborts`: then only a timer's signal that the kernel gave to the wrong
  thread can abort the process.  `OneThreadNeverAborts`, for a single thread, is
  a corollary.  `NonpreemptibleIsAtomic` states `NonpreemptibleAtomic`.
  `UnlimitedNeverTimesOut` and `ImplementsTimeSlice` (each slot implements
  `TimeSlice`) rest on `DeadlineInv`, which relates `DEADLINE` to the budget of
  the slice at each stage of `resume()`.
* `DeadlineProofs`: `TypeOK`, `NeverEarly`, `Timely`, `YieldedTruthful`, for
  every width, period and budget, and however often the clock is set.  The
  invariant relates the next expiry to the time that has passed and the wall
  clock to how far it was set (`Clock`), `DEADLINE` to the budget and the start
  of the slice (`Stage`), and says that past the deadline a check is due within
  the period (`Due`).  `ImplementsTimeSlice` maps the numbers to `TimeSlice`.  It
  assumes `FitsWidth`: a budget that can be converted to nanoseconds does not
  overflow when it is added to the time.  With the budgets of the run, which are
  chosen to overflow, this is false, and the sum of `stamp()` wraps around.  A
  `u64` of nanoseconds since 1970 lasts until the year 2554.
* `PoolProofs`: `TypeOK`, `Exclusive`, `NothingLost`, `HighWater`, and that
  `Pool` implements `Allocator`, for any number of threads and values.  The
  invariant adds that only built values are around (`Bounded`) and that nobody
  uses the pool before `prealloc()` is done, or if it failed (`Setup`).  `Ledger`
  counts the values; the refinement rests on the mapping giving each value its one
  holder (`HolderRight`).
* `ThreadSignalProofs`: `TypeOK`, `NeverKilled`, `TimerOwned`,
  `ShieldedToTheEnd`, `RefusedOnlyIfExhausted` and `AllocSpec`, for any number
  of threads and signals.  The invariant says that a signal that was built is
  free or has one owner (`Owned`), that whatever is pending or can still tick
  has a handler (`Handled`), and what a thread has at each stage (`Local`).
  `NeverKilled` needs `Handled`: a signal is registered before its first tick,
  and never unregistered.
* `TcbProofs`: `TypeOK` and all properties of the `tcb` run, for any number of
  threads and blocks, from who has a block (`Unique`), what its state says about
  it (`Blocks`), what a thread has at each stage (`Local`), and which block it
  returns to (`AtHome`): its real one, or the one it is stranded with.
* `ResourcesProofs`: `TypeOK` and all properties of the `resources` run, for any
  number of threads, Lingers and libsets.  The invariant says that the values of a
  pool are divided between its free ones and the Lingers' fields (`Divided`, kept by
  lemmas `Acquired` and `Released`), what a Linger holds at each stage of a call
  (`Holds`), which slots are empty (`Slots`), and which libsets may contain an
  unfinished call (`Libsets`).  `StacksSuffice` then is a
  count: a Linger with a stack has a libset, of which there are no more than
  `Limit` (`StackLeft`).  So is `TcbsBounded`: a Linger with a TCB has a libset,
  or is about to give back its TCB on a thread of its own (`TcbRoom`).
  `FlagTruthful` adds what the flag says while a call is in progress (`FlagOK`).
  `ImplementsAllocators`: the fields of the Lingers and the three pools implement
  three instances of `Allocator`.  A value's holder is the one Linger whose field
  has it (`HolderIn`, well defined by `Divided`).  `RunsOnOwnStack`: a function is
  entered, first or again, only on a stack that it holds alone.  A failed
  `switch_stack()` drops the stack, and what keeps the next `resume()` from going
  on without one is that the TCB's slot is then empty (`StackKept`).
  `CallersInC` carries all this over to `CInterface`, and `TcbPresentInC` shows
  that finding 3 takes a caller in Rust: a C program aborts where it would lose
  a TCB (`NoneLost`).
* `FutureProofs`: `TypeOK`, `NoLostWakeup`, `ReadyOnce` and `PrepFresh`, for any
  number of polls.  The invariant says who owes a wakeup and who owns the `Linger`
  (`Stage`), which of the last two closures is in the channel and which the
  function has taken (`Lag`), and that with an unlimited budget the two never fall
  behind each other (`InStep`).  The safety part of `UnlimitedReturns` is proved as
  well: `send()` never blocks if the budget is unlimited (`UnlimitedSends`).  So
  is finding 4: once blocked, `poll()` stays blocked (`BlocksForGood`).

Only model-checked: liveness (`BudgetEnforced`, `UnlimitedReturns`), which is
out of the prover's reach, and the counterexamples of the findings.  Only proved,
and in no run: the theorems about `TimeSlice`, about the pools of `Resources` as
allocators, and those named above that state no property of a run.

## What is not modelled

* `launch()` and `resume()` inside a preemptible function, which the code only
  excludes by `debug_assert!()`, and signals that interrupt the handler itself:
  the handler of one signal does not mask the others, so this would take a
  stack of interrupted contexts per thread.
* The value of errno and its propagation between libsets (`errno_group()`).
  That errno is saved at all decides whether a function counts as paused, and
  is modelled.
* Contexts beyond their masks, and what `timetravel` does to exchange them.
* `erase()`, which changes only a type; the table of signal numbers; the clocks
  and kinds of notification that the library does not use.
* The profiler, the header generator, the compiler wrapper, build scripts and
  tests.
