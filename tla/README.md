# A TLA+ model of miniss

miniss is a small shared-nothing runtime: one thread ("CPU") per core runs a
reactor loop over a queue of tasks; CPUs call functions on each other through
lock-free queues; blocking system calls go to a worker thread; files are read
and written with Linux AIO; everything is glued together with Seastar's futures.

## The parts of the system

| Part | State | Operations | Hard behaviour | What makes it correct |
|---|---|---|---|---|
| Reactor loop (`lib/cpu.cpp`, `lib/poller/signal_poller.cpp`) | `task_queue_`, `pending_signals_`, the signal mask, the place in the loop | poll the pollers, run at most 8 tasks, mask signals and sleep in `epoll_pwait`, `dispatch_signal` | a wakeup between the last poll and the sleep | no CPU sleeps while it has something to do |
| Cross-CPU calls (`os.h`, `lib/os.cpp`, `lib/cross_cpu_queue.cpp`, `unbounded_spsc_queue`) | per pair of CPUs two deques and two rings; the `Work_item`s on their way | `submit_to`, flush, poll, run, store, respond, complete | interleaving of the two CPUs, full rings, partial flushes, batches, calls nested in calls | each call runs once, in order, is answered once and resolves its future |
| Timers (`lib/io/timer.cpp`) | map of deadlines, one kernel timer | `add_timer`, `complete_timers`, rearm | the race of arming and expiring; the first deadline | none early, none forgotten, in order of deadline |
| System calls (`io/syscall.h`, `lib/io/syscall.cpp`, `util/semaphore`) | semaphore of 128 tokens, two rings, an eventfd, a worker thread | submit, worker run, respond, poll the results | a second thread; a full ring; who wakes whom | each call runs once, no result and no waiter is slept through, failures are reported |
| File I/O (`lib/io/file_io.cpp`) | an AIO context, an eventfd, a semaphore | submit read/write, reap completions | partial failures, the level-triggered eventfd | tokens and requests match, each request resolves |
| File handles (`lib/io/file.cpp`) | a descriptor, or -1 | open, read, write, stat, size, flush, close, move, destroy | close while requests are under way | a descriptor is closed once and used by nobody afterwards |
| Futures (`seastar/future.h`) | promise, future, state, continuation; who points to whom | `then`, `set_value`, moves, destruction, `forward_to` | the pointers between promise and future while either moves | what is written is what is read, once, from one place |
| Uses of futures (`do_with.h`, `future_util.h`, `enable_coroutine.h`) | a kept object, a vector of futures, a suspended coroutine | `do_with`, `with_lock`, `when_all`, `finally`, `co_await` | lifetimes; who drops the last reference | the object outlives its users; all results arrive; no wait is lost |
| Start-up (`lib/os.cpp`, `lib/app.cpp`) | latches, the CPUs, the matrix of queues | `OS::init`, `App::run`, `OS::exit` | a CPU that polls queues which are not built, a thread that all wait for | no CPU runs before every queue is there; all of them come to run |

CPUs share memory in two places only: the rings of `Cross_cpu_queue` and the
rings of `Syscall_runner`. They wake each other with `SIGALRM`
(`CPU::wakeup`); the worker thread wakes its CPU the same way and is woken
through an eventfd. The kernel timer raises the same signal, and a completed
read or write signals an eventfd that `epoll_pwait` waits for. Everything else
runs on one CPU, in the order of its loop. `PROJECT.json` lists the components
with what of each is modelled, and the hazards with the properties that cover
them.

## Modules

| Module | Models | Extends |
|---|---|---|
| `Reactor` | the loop of a CPU without its pollers: `CPU::run`, `Signal_poller::poll`, `run_idle_proc_`, the delivery of `SIGALRM` | |
| `StartUp` | `OS::init`: the CPUs, the three latches, the matrix of queues | `Reactor` |
| `CrossCpu` | `OS::submit_to`, `Cross_cpu_queue`, `Unbounded_spsc_queue`, `OS::poll_queues`, for N CPUs, from their construction on | `StartUp` |
| `RemoteCalls` | what `submit_to` promises: the abstract specification that `CrossCpu` and `Syscalls` implement | |
| `CrossCpuProofs` | theorems of `CrossCpu`: types, start-up, wakeups | `CrossCpu` |
| `PlacesProofs` | theorems of `CrossCpu`: where each call is, what is left behind, the refinement of `RemoteCalls` | `CrossCpuProofs`, `QueueLemmas` |
| `QueueLemmas` | lemmas about sequences: what is in them, once, in which order; a sequence of sequences read as one | `Semaphore`, `Flattening` |
| `Flattening` | names `FlattenSeq` of the community modules, which two refinement mappings use | |
| `Semaphore` | `Semaphore::wait` and `release`, on a value | |
| `Syscalls` | `Syscall_runner`, its worker thread, `Eventfd` | `Reactor`, `Semaphore`, `Flattening` |
| `Timers` | `Timer_service` and the kernel timer | `Reactor`, `Flattening` |
| `SyscallsProofs` | theorems of `Syscalls` | `Syscalls`, `QueueLemmas` |
| `TimersProofs` | theorems of `Timers` | `Timers`, `QueueLemmas` |
| `FileIoProofs` | theorems of `FileIo` | `FileIo`, `QueueLemmas` |
| `FilesProofs` | theorems of `Files` | `Files`, `QueueLemmas` |
| `FuturesProofs` | theorems of `Futures` | `Futures`, `QueueLemmas` |
| `Alarms` | what `schedule_after` promises; `Timers` implements it | |
| `FileIo` | `File_io` and the kernel's AIO context | `Reactor`, `Semaphore` |
| `Files` | `CPU::open_file`, `File`, the process's descriptor table | `Semaphore` |
| `Futures` | `promise`, `future`, `future_state`, `continuation` | |
| `FutureUses` | coroutines, `when_all`, `do_with`, `finally`, the exit of `App::run` | (an instance of `Futures`) |
| `SingleUse` | what a promise and its future promise; `Futures` implements it | |
| `MC...` | the instances TLC checks | |

### Reactor

`pc[c]` is the place of CPU c in `CPU::run`: `signal` and `clear` are the load
and the clear in `Signal_poller::poll`, `decide` is line 61, `tasks` the batch,
`masked` and `asleep` the idle procedure before and inside `epoll_pwait`. A
module that extends `Reactor` puts the places of its own poller between
`signal` and `decide`. `raised` is a `SIGALRM` pending in the kernel (one, since
standard signals merge); `Deliver` is `dispatch_signal`, possible wherever the
signal is not blocked. A step is one access to something another thread or the
kernel can change; what lies between two of them cannot be told apart from
outside. Since `pending_signals_` is read and cleared in two steps, a signal may
be delivered in between.

### StartUp

Each CPU's thread constructs its `CPU`, arrives at a latch and waits for the
others; CPU 0, the main thread, then builds the matrix of queues and arrives at
the last latch, which lets every CPU into its loop. `constructed`, `arrived` and
`built` are that state; a CPU that is not in its loop yet has one of the labels
`Starting`. `CrossCpu` composes it with the loop: a CPU that polls finds the
queues there because of the latches and of nothing else.

### CrossCpu

A lane is one direction of a `Cross_cpu_queue`: `buf` is `queue_buffer`, `ring`
the lock-free ring, `flushing[c]` says that CPU c is inside `flush()`, which
moves items one at a time. `poll_queues` is the sequence `flush_tx`, `poll_rx`,
`flush_rx`, `poll_tx`, `handle` for each peer in turn. User code is whatever a
task, the function of a call or the continuation of a completed call does: it
submits any calls not yet submitted. A function returns a value, the future of
the call it submitted last, or that of a timer (the calls in `Timed`). `st[k]`
follows a call: submitted, executing, stored (its result is in the `Work_item`),
responded (it is in the queue back), completed (its promise is resolved).

### Syscalls, FileIo and Semaphore

`Syscalls` has two threads, the loop of a CPU and `worker_run_`. The slots of a
batch of `consume_all` stay in use until the whole batch has run, as in
`boost::lockfree::spsc_queue`: `calls` keeps them, `taken` and `done` say how
many belong to the batch and have run. `FileIo` has the loop of a CPU and the
kernel, which completes requests in any order, puts the event into the context
and then signals the eventfd. `Refusals` lets `io_submit` fail, `Interruptible`
lets `io_getevents` answer EINTR when it finds nothing and a signal is pending.
A call that the full ring refuses keeps its token, since only a polled result gives one
back. That is why `Syscalls` implements `RemoteCalls` with `MaxLost` as its number of
tokens: when as many calls are lost, what still waits need not run any more.
Both modules use the operators of `Semaphore`, a record of tokens and waiting clients,
with its two peculiarities: `wait` admits only if a token is left over, and
`release` lets in at most one client.

### Timers

`timers` is the map from deadlines to the tasks due then, `armed` the instant the
kernel timer is set for. Adding is one step and arming another, completing
takes a step per entry, and the clock may advance, or the kernel timer expire,
between any two.

### Files

`fd_` is the descriptor in each place user code keeps a `File` in, `table` the
descriptor table, which gives a freed entry to the next open, whatever file that
is. `Files` stands above the two services and takes from the other modules what
they show: the worker runs the calls pushed to it in order, a poll turns results
and completions into tasks and releases the tokens. Both services let a call in
first and push it in a task of its own, and that is what the module is about:
the order of these tasks is all that keeps a close behind the requests made
before it. Each result and each completion schedules one task: the continuation in
`file.cpp` for the result of an open, user code for the others. The ring to the
worker is taken to have room (`Syscalls` has the loss).

### Futures

All steps are calls on one thread, so a step is a whole call; what is hard is
their order. The heap is a record of places: promises, futures and
continuations, with their pointers and their states. A continuation made by
`then()` holds the promise of the future that `then()` returned, which is why
`Writer == Promise \cup Cont`. Each pair has a number, which the program does not
have: it says whose result is where. `Forwarded` is `forward_to`, `Moved` a
promise's move with `migrated`, `Abandoned` its destructor, `Destroyed` that of a
future: it reports an exception nobody read, from a copy, which stays in the promise.

### FutureUses

One program, in the head of the module, whose steps are compositions of the
operators of `Futures`, in the order of the code: the call of the coroutine up to
its `co_await`, and the run of each continuation with what its function holds
(`shared` for the `shared_ptr`s of `When_all_state`, `obj` for the `unique_ptr` of
`do_with`). What the program awaits is resolved by `Resolve`, before, between or
after its tasks, with either outcome. `finally` with a callback that returns a
future is the case of `forward_to` without a result.

## What is checked

| Run | Instance | Distinct states | What it shows |
|---|---|---|---|
| `CallsFullRing` | 2 CPUs, two calls out and one back, rings of 1 item, threshold 2, pops of 1, batches of 2 | 1 112 000 | what is safe whatever stays behind in a `queue_buffer`: the CPUs start in order; no lost wakeup, no call lost, run twice or out of order; if all is quiet and no answer is stranded, all is done |
| `CallsTimed` | 2 CPUs, two calls out and one local, one answered by a timer, rings of 2, pops of 1, batches of 1 | 221 000 | every CPU gets into its loop; no wakeup is lost although a poll leaves items behind; the queues implement `RemoteCalls` with its fairness |
| `CallsStranded` | two calls one way, rings of 1 | | **violated**: an answer left in `queue_buffer` of a sleeping CPU is not delivered |
| `Syscalls` | 5 calls made in one order, queues and semaphore of 2 | 89 364 | tokens match calls; results have room; neither thread sleeps on work; the runner implements `RemoteCalls` with its fairness, but for the calls a full ring refuses and, once these hold every token, for those that wait for one |
| `SyscallsLost` | 3 calls, queues of 2 | | **violated**: a call pushed into a full ring is dropped |
| `SyscallsErrors` | 1 call that uses `wrap_syscall` | | **violated**: its failure is reported as a value |
| `Timers` | 3 timers, intervals 0 and 2, 4 instants | 356 000 | timers run in order, none early or twice; the CPU sleeps past none; the service implements `Alarms` |
| `FileIo` | 3 requests, 2 tokens, refusals and interrupted polls | 223 000 | tokens and requests match (with the tokens that refusals lose); no completion is slept through; requests resolve while a token is left |
| `FileIoInterrupted` | 1 request | | **violated**: EINTR in `io_getevents` ends the thread |
| `Futures` | 2 promises, 2 futures, 2 continuations, 3 pairs | 571 000 | pointers agree, a result is in one place, assertions of `future.h` hold, `SingleUse` is implemented |
| `Files` | 2 opens, 2 places, 1 metadata call, 2 requests, 2 descriptors, 3 and 2 tokens | 148 129 | calls and requests reach the file they were made for; every descriptor is closed in the end |
| `FutureUses` | the program, for each subset of its vector | 587 | every part of `when_all` arrives in its place; the object of `do_with` lives as long as promised; the program exits, with the right code |

The violations are explained in `PROJECT.json`, "findings", with the lines they
come from.

**Bounds.** The code has rings of 1024 (128 for system calls), flushes at 8, pops 8
and runs 8 tasks a batch. What matters is that each limit is met: rings of one
or two items are full with two or three calls, batches of one leave something
behind, and a threshold of two keeps an item back. Three calls are enough for
one in a ring, one in a buffer and one under way, and for a call nested in
another while a third waits. `Syscalls` has five: two that complete before the slots
of their batch are free, two that are then let in and dropped, each with its token,
and a fifth that waits for a token which does not come. Its calls are alike until
they are made, so `InTurn` has them made in one order only (a symmetry, stated
as a constraint because TLC's own is not sound for the liveness the run checks), and
`Failing` lets one of them fail: whether a call fails changes its outcome and nothing
about its way. `SyscallsErrors` is about the outcomes. Two CPUs have the four lanes of a pair; `poll_queues`
treats its peers one after the other and lanes of different pairs share nothing
but the loop, and for any number of CPUs there are the proofs. Three clients
and two tokens give a client that is let in, one that waits for the last token
and one behind it. Timer intervals of zero and two, on four instants, put a new
deadline before, at and after the armed one. Two files and two descriptors are what a
descriptor that is closed twice, or reused too early, needs; the tokens are short
enough for a call and for a request to wait. Two places of each kind are what
moves and assignments need: from one to the other, over one that is in use.
`Horizon`, `Channels` and the set of calls bound the behaviours; nothing else is
cut. Runs without deadlock check are those of programs that really may stop:
all CPUs asleep with nothing left to submit, a dead thread, all the pairs used.

**Fairness.** A thread that can take a step takes one (the operating system's
scheduler), a pending signal that is not blocked is delivered, an armed timer
expires, the kernel completes what `io_submit` took, system calls return, user
code returns. User code need not submit anything, and `Poke`, the wakeups that come from elsewhere, has no fairness: no property relies on somebody else waking a CPU.
No strong fairness is used. In `Files`, tasks run, the worker works and its results
are polled, which `CrossCpu` and `Syscalls` show. `FutureUses` needs none: every
task runs once, so what must happen has happened when nothing is left to run. A violation of a liveness property is found under
these assumptions.

**Mutants.** Each property of a passing run comes with a changed definition that
TLC must find in violation of it: the idle procedure without its check of
`pending_signals_` (`UncheckedSleep`), a flush that takes the newest item first, a
semaphore that lets in whoever comes, a timer service that does not arm again,
a promise that moves without telling its future, a close that leaves its
descriptor in the handle, a shared state that only the last continuation keeps.
They stand beside the definitions they change.

One thing the mutants showed: that the worker of `Syscall_runner` misses no call is
protected twice. `submit_` signals the eventfd after each push, and the worker
looks again after each batch before it waits; a mutant has to break the first
in a way the second does not repair.

## What is proved

`CrossCpuProofs` proves, for every number of CPUs and calls and every size of the
rings and batches (with the assumptions named in `Reactor` and `CrossCpu`):

* `TypeCorrect`: `Safe => []TypeOK`, which includes that no ring is ever pushed
  beyond its capacity. The invariant is `Typing`: `TypeOK`, that the peer of a
  CPU inside `poll_queues` is another CPU, and that user code runs only inside a
  task or the function of a popped call.
* `NoWakeupIsLost`: `Safe => []NoLostWakeup`. A consumer asleep is not enough to
  argue about, since the danger is the way to sleep: the inductive invariant
  `WakeInv` says of every ring that is not empty that its consumer will still
  poll it in this round (`WillPoll`, which follows the order of `poll_queues`), has
  seen activity, has a signal raised or pending, or that the producer is still
  inside the flush that will signal it. `IdleOK` says that a CPU on its way to
  sleep saw no activity and has no task, and, asleep, has no handled signal:
  the check of `pending_signals_` with the signals blocked.
* `NoRunnableCpuSleeps`: `Safe => []NothingRunnableAsleep`, from the same invariant.
* `StartIsOrdered`: `Safe => []StartsInOrder`: no CPU polls before the matrix of
  queues is built, and it is built on CPUs that are all there. `StartInv` adds who
  has arrived at which latch.

`WakeInv` is preserved step by step: `AwaitedReactor` for the loop, `AwaitedPoll` for
`poll_queues`, `AwaitedPush` for a flush, `AwaitedTask` for the tasks; `WakeStep` puts
them together.

`TimersProofs` proves, for any set of timers and intervals and any horizon (under
the assumptions of `Reactor` and `Timers`; the second says that the task user code
starts in is none of the timers' tasks):

* `TypeCorrect`: `Safe => []TypeOK`, which is inductive as it stands.
* `NoTimerIsForgotten`: `Safe => []NoTimerForgotten`, inductive with `TypeOK`: a step
  that arms the kernel timer, or is about to, keeps one side of it, and the
  expiry that disarms it raises the signal, the other side.
* `ServiceImplementsAlarms`: `Safe => Abstract!Safe`, the safety part of
  `ImplementsAlarms`. What waits is the map read in its order (`Held`), what has left
  is what has run and what is in the queue (`Gone`). `MapAround` takes the map apart at an
  entry: what is before it is due earlier, what is behind it later, which is
  `FiledRight` again. So `AddTimer` is `Set` (`SetImplements`), an entry that is completed is
  `Leave` of the whole entry, the first one (`LeaveImplements`), and every other step
  but a tick is a stutter: a task that starts goes from the queue to what has
  run, and `Gone` is the same (`RunTaskKeeps`).
* `TimersRunInOrder`: `Safe => []RunsInOrder`. `Lined` says that what has left and what
  waits are one line, `Gone \o Held`, with every timer that was added in it once and no
  deadline before an earlier one. It is proved of the steps of `Alarms`
  (`LinedLeave`, `LinedSet`), which `StepImplements` makes every step of the service one of:
  an addition in the middle of the line is the only step that changes it. What has run is
  the front of the line; that none runs too early is `FiledRight` with `DueWhenScheduled`,
  on which the refinement rests too (what is in the queue, or has run, was due by the clock
  that `complete_timers` had read).
* `NoDeadlineSleptThrough`: `Safe => []SleepsUntilDue`. `AsleepOK` says that a CPU about to
  sleep has an empty queue and, asleep, no handled signal. So a timer that was
  added and has not run is in the rest of the line, which is the map, and `NoTimerForgotten`
  leaves a signal raised or the kernel armed for the first deadline.

`SyscallsProofs` proves, for any set of calls and any `queue_size` (under the
assumptions of `Reactor` and `Syscalls`):

* `TypeCorrect`: `Safe => []TypeOK`. That the semaphore never counts more than
  `QueueSize` tokens is not a matter of types, so the invariant is that of the
  next two.
* `TokensAreAccounted`: `Safe => []TokensMatchCalls`, and `NoResultIsRefused`:
  `Safe => []ResultsHaveRoom`. The count is preserved because a call is in one
  place at a time: `InPlace` says that a call let in has one task that will push
  it, that one that waits is in the list of the semaphore once, that the slots
  behind those that have run hold each call once, and so does the other ring. A
  poll then returns as many tokens as it finds results, and the results in the
  ring and the call the worker runs are different calls that hold a token.
* `NoCallIsForgotten`, `NoResultIsForgotten` and `NoWaiterIsSleptOn`: `Safe =>`
  `[]NoCallForgotten`, `[]NoResultForgotten` and `[]NoAdmissibleWaiterSleeps`.
  `AwakeInv` says of a result in the ring that the CPU has yet to poll in this
  round, or that a signal is raised, pending, or still to be sent by the worker
  (`ResultsAwaited`), and of a CPU on its way to sleep that no token is left for
  a call that waits (`IdleOK`), which holds only because `poll_results` calls
  `release()` for no results too.
* `NoCallIsUnattended`: `Safe => []EveryCallIsAttended`, the safety half of "every call
  completes". It needs what `InPlace` says the other way round: a call at a stage is
  in the place for it (`Present`), and that the CPU sleeps with an empty queue only
  (`NothingToRun`), so that no call is left at the stages a task would end. The
  three theorems before this one then name who will wake the CPU for each call.
* `AllDoneWhenQuiet`: `Safe => []QuietMeansDone`. Once nothing is to wake either side, a
  call can only be new, completed, lost in the full ring, or waiting; and a call waits
  only if the lost ones hold all the `QueueSize` tokens, which `TokensMatchCalls` counts.
* `RunnerImplementsRemoteCalls`: `Safe => Abstract!Safe`, the safety part of
  `ImplementsFairRemoteCalls`. What the worker has still to run (`ToDo`) is the slots of the
  ring it has not run, then the calls with a task that will push them, then those
  that wait for a token. `InPlace` says how the three meet: a submission
  appends to the last or, when nobody waits, to the second; a poll lets the first that
  waits become the last to be pushed; and a push takes the first task, which either goes to the
  end of the ring or is lost, the one item that leaves the middle of the line (`TakenOut`).

`PlacesProofs` proves the other invariants of `CrossCpu`, under the same
assumptions and from the theorems of `CrossCpuProofs`:

* `EachCallIsInOnePlace`: `Safe => []EachCallInOnePlace`, and `NestedAnswerWaits`:
  `Safe => []NestedAnswersAfterInner`. The invariant is `InPlace`: a queue holds a
  call once and only calls at the stage the queue is for (`Inboxes`, `Outboxes`,
  `Queued`); a call at a stage is in the place for it (`Present`); while its function
  is being run it is on the stack, in a task, with a timer that expired, with one
  still set, or waits for a call of its own, and in no two of these (`Executing`);
  nobody waits for a call that is not under way, or for one that another waits
  for too (`Conts`, and `Lasts` for the call that may be waited for next). Most steps
  leave every call where it is (`Still`: a flush moves an item from the end of a
  buffer to that of its ring, and the two are one line); the others (`Moves`)
  have a lemma each.
* `QueuesImplementRemoteCalls`: `Safe => ImplementsRemoteCalls`. The mapping takes the
  stage of a call, and as the calls that wait between two CPUs those in ring and
  buffer and those popped but not yet run. `SubmitRemote` is `Submit`,
  `SubmitLocal` is `RunInline`, `StartFn` is `Run`, `RunStore` is `Answer`, `PollRx` is
  `Complete` of what it finds, and every other step is a stutter: that the calls
  between two CPUs are run in the order of submission is shown here.
* `StrandedCallsAreBehind`: `Safe => []StrandedCallsHaveForerunner`. `LeftBehind` says that
  what is in a `queue_buffer` will be flushed before its CPU sleeps
  (`WillFlush`), or has a call ahead of it whose answer wakes that CPU.
  `LeftBehind` does not ask whether a sleeping CPU has a signal coming.
* `AllDoneWhenQuiet`: `Safe => []QuietMeansDone`. When all is quiet a call that is under
  way could only wait for another one: for the inner call it is the answer of, or
  in a buffer behind a forerunner. That there is no circle is
  `Ordering`: some relation on the calls puts whatever a call waits for after it, and in
  any set of calls it has one that nothing in the set is after. A call that is submitted or
  started becomes the latest of all (`Latest`), which keeps both, so the proof needs
  neither induction nor that the calls are finitely many.

So every invariant of `CrossCpu` that a run checks is proved.

`FileIoProofs` proves, for any set of requests and any size of the context (under
the assumptions of `Reactor` and `FileIo`):

* `TypeCorrect`: `Safe => []TypeOK`, and `TokensAreAccounted`: `Safe =>`
  `[]TokensMatchRequests`. `InPlace` says that a request has the one task that its
  stage is due (`TasksDue`), waits in the semaphore once (`WaitersWait`), that the
  context holds an event for each request that is done (`EventsDone`) and the kernel
  only what was submitted; `TokensHeld` counts: the tokens are the free ones and
  those of the `Holders`, the requests that were refused and never gave theirs back
  included. A poll gives back as many as it reaps, since the events are of
  different requests.
* `NoCompletionIsForgotten` and `NoWaiterIsSleptOn`: `Safe => []NoCompletionForgotten` and
  `Safe => []NoAdmissibleWaiterSleeps`, from `AwakeInv`: an event in the context has its
  eventfd signalled or about to be (`EventsSignalled`), and a CPU on its way
  to sleep has let in whom it could (`IdleSettled`).
* `NoRequestIsUnattended`: `Safe => []EveryRequestIsAttended`, and `AllDoneWhenQuiet`: `Safe =>`
  `[]QuietMeansDone`, with a `Present` and a `NothingToRun` of this module: when all is quiet
  a request has been resolved unless it waits, and one waits only if requests the
  kernel refused have kept all of the `MaxIo` tokens.

`FilesProofs` proves, for any number of files, handles, calls, requests and
descriptors and any number of tokens (under the assumptions of `Files`):

* `WorkerUsesTheRightFile`: `Safe => []CallsReachTheirFile`, and `KernelUsesTheRightFile`:
  `Safe => []RequestsReachTheirFile`, both from `InvHolds`: `Safe => []Inv`. Of its parts,
  `Reach` and `Overtake` are the two properties, for every call on its way, and
  they need two more: no close is ahead of a call on its descriptor, neither in
  one queue (the ring, the tasks, the list of the semaphore) nor from one queue to the
  next, the tasks of waiting requests excepted (`ClosedLast`), and an open descriptor
  has one owner at most, among the results, the tasks, the handles and the
  closes under way (`Owners`). A move, an assignment over a handle in use and the
  continuation of an open that finds its future gone hand the ownership on.
* `NoDescriptorIsLost`: `Safe => []NoDescriptorLeaks`, the counterpart of `Owners` and the
  safety half of `EveryDescriptorIsClosed`: an open descriptor has an owner at least.
  Each step hands on what it takes from an owner (a step that removes an item from a
  queue adds one to the next), so `WorkLeaksNothing`, `PollLeaksNothing`,
  `RunLeaksNothing` and `UserLeaksNothing` each follow one descriptor through one step.
* `WhatIsOpenIsHeld`: `Safe => []OpenIsHeld`. With the queues empty, what is open is exactly
  what the handles of the program have.

`FuturesProofs` proves, for any sets of promises, futures, continuations and any
number of pairs (under `FuturesAssumption`, that the values which stand for no
place are no places):

* `TypeCorrect`, `NoPointerDangles`, `ResultInOnePlace` and `EndsAlwaysMeet`: `Safe =>`
  `[]TypeOK`, `[]PointersAgree`, `[]ValueInOnePlace` and `[]EndsMeet`, from `InvHolds`: `Safe =>`
  `[]Inv`, where `Inv` is `Good(heap)`. `Good` is about a heap and not about the
  state, so each function of `future.h` (the operators on heaps) gets a lemma that
  takes a good heap to a good heap, and a call that is made of several of
  them, as `then()` on a future which is ready or `forward_to` inside a continuation,
  follows from theirs. It says what a place that is not alive looks like (`Blank`), that
  the two ends of a pair name each other (`Links`), what a promise with a task and what a
  task in the queue are (`Tasks`, `Queued`, `Conts`), and of each pair that not both ends
  are gone while its result is owed, and that its result was read by one
  (`Numbers`, `Writers`, `Readers`).
* `FuturesAreSingleUse`: `Safe => Abstract!Init /\ [][Abstract!Next]_Abstract!vars`, the safety
  part of `ImplementsSingleUse`: what is written to a pair is read from it, at most once, and
  nothing else is.
* `EveryWaitHasASource`: `Safe => []NoWaitIsLost`: each continuation that is attached is
  downstream of a promise the program has and has not resolved, or of a continuation in the
  queue. `Good` finds the promise a continuation is attached to, which may be that of
  another continuation, and so on; that this ends is `Founded`: in no set of promises is each
  that of a continuation which another one of the set resolves. A call that only
  destroys keeps it (`Loosens`); `then()` adds a promise nobody waits for yet (`ChainedWaits`);
  `forward_to` hangs one chain on the end of another (`ForwardedWaits`), which would make a
  circle if the future was downstream of the promise. That the program does not do this is a
  guard of the model (`Downstream`): a program that did would wait for its own result. `Founded` speaks of sets and not of paths, so the proof needs no
  induction, and holds for infinitely many promises.
* `NothingIsLeftWaiting`: `Safe => []AllRunWhenResolved`: with an empty queue and all its
  promises resolved, the program has no continuation that waits.

These modules, `CrossCpuProofs` excepted, share `QueueLemmas`, which says what `Append`,
`Tail`, `SubSeq` and concatenation do to the items of a sequence, to their being there
once and to their order, and what `wait` and `release` do to the list of a
`Semaphore`. Two mappings read a sequence of sequences as one, and the community
modules define that by recursion on the length. What is needed of it (it turns
concatenations into concatenations, `FlattenConcat`; replacing one of the sequences
changes nothing before and behind it, `FlattenAround`; what a queue's items stand for,
`Spelled`) is proved for sequences of every length. The library's induction rules
cannot be used, so `NaturalsAll` argues instead with the least number of a
set, by the well-foundedness of the naturals, about a set of numbers and
not about a predicate.

Only model-checked are: every liveness property, and the fairness of the abstract
specifications (`ImplementsFairRemoteCalls` of `CrossCpu` and `Syscalls`,
`ImplementsAlarms`, `ImplementsSingleUse`), since liveness under fairness and ENABLED are
beyond the prover; and `AllArrive`, `KeptUntilDone` and `ExitsInTheEnd` of `FutureUses`,
which is one program without parameters: the run enumerates all that it can do, and
a proof would show no more. The safety part of every
refinement, and every invariant of the other modules, is proved.

## What is not modelled

* The payload of calls, results and tasks; buffers and offsets.
* The memory order of the lock-free rings: a push and a pop are atomic, as
  `boost::lockfree::spsc_queue` promises.
* Allocation failures, and system calls whose failure ends the program in one
  step (`timer_settime`, `eventfd`, `pthread_kill`).
* Plain tasks that throw: `task::run` is `noexcept`, so the program ends.
* `future::wait` and programs that break the rules of futures (a result written
  twice, a promise dropped while somebody waits, a future used twice).
* All pollers in one loop: each service is composed with `Reactor` alone, and the
  others appear in it as signals that come from elsewhere (`Poke`).
* `with_lock`: it is generic in its lock, and the repository has no lock whose
  `lock()` returns a future.
* `OS::exit` beyond ending the process: destructors do not run.

## What the files module leaves to the program

A request that waits for a token (`file_io.cpp:62`) is submitted with the number
its descriptor had when it was made. If its file is closed meanwhile the kernel
refuses it, and if the number is open again for another file it goes there:
`RequestsReachTheirFile` excepts exactly these requests and shows that every
other one is safe. A program that waits for its requests before it closes a
file does not meet the exception.

## Left for later

1. The four pollers in one loop, N CPUs, `Poke` replaced by the real senders.
2. `FutureUses` for a vector of any length, with its three invariants as theorems: `Good`
   of `FuturesProofs` for its instance of `Futures`, and what each continuation holds.
