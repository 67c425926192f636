# A verification of MMMojo

MMMojo wraps Chromium's Mojo in a C interface: a host process starts a child,
the two are connected by a set of streams, and either side pushes, pulls or
shares data on them, synchronously or not. This directory holds TLA+ models of
the part of it that runs concurrently, TLC configurations that check them, and
TLAPS proofs of their safety: every invariant, the action property and the
refinement the runs check are theorems, for every value of the constants. All
paths below are relative to the repository's root (`src/` here).

## The system

| part | state | operations |
|---|---|---|
| stream, `common/mmmojo_stream.*` | `impl_`, `thread_` | bind and remove the pipes; one task per kind of write info, with and without `Sync`; two functions that take a response |
| service, `common/mmmojo_service_impl.*` | `remote_`, `receiver_`, `user_data_`, `delegate_` | six message handlers (`Hello`, `Hi`, `Hey` and the `ShakeHand` ones), the disconnect handler |
| environment, `common/mmmojo_environment.*` | `default_streams_`, `append_streams_`, `child_process_stream_`, `run_loop_`, `command_line_`, the callbacks | start, stop, send; attach or extract the pipes of an invitation; launch the child |
| IO thread, `common/mmmojo_io_thread.cc` | one thread for all environments | start, shut down, get the task runner |
| C interface, `mmmojo/mmmojo.cc` | write infos and read infos on the heap | create, fill, swap, send, remove |
| Mojo start-up, `common/mojo_ipc_initializer.cc` | the IPC thread | initialise, shut down |

`flmojo/` is `mmmojo/` under another name.

How they interact:

* The application calls the C interface on threads of its own. `Send` posts a
  task to the thread of a stream and, if the write info is synchronous, waits
  for an event the task signals. `Start` and `Stop` post a task to the IO
  thread; `Stop` waits for it, and `Start` may run a loop until the stop.
* A stream owns a thread, an outgoing `remote_` and an incoming `receiver_`. In
  the other process the same two pipes are bound the other way round.
* Mojo calls the handlers of the service on the stream's thread, and they call
  the application's read callbacks. A pull leaves its response callback in the
  read info; the application moves it to a write info and sends that, or deletes
  the read info, and the callback with it.
* A break of the outgoing pipe calls `OnMojoDisconnect`, which drops both pipes.
* `StopEnvironment` runs on the IO thread: it posts a last task to each stream
  and destroys the stream, which joins its thread.
* A host launches its child by a task of the thread pool, which answers on the
  IO thread. `InitializeMMMojo` sets up the IO thread, the pool and Mojo's IPC
  support; `ShutdownMMMojo` takes them down.

What is hard about it: threads that wait for threads that wait for them; tasks
behind a synchronous call; one direction of a stream that breaks alone;
callbacks that outlive what they need; two programs that must take the same
pipes apart in the same way; and a C interface whose functions have an order
that is nowhere written down. `PROJECT.json` lists these hazards at their lines.

What makes each part correct:

* streams: what a synchronous `Send` returns is true; requests arrive in order,
  at most once, and are not lost while the stream is whole; no thread waits for
  nothing; nothing is called after a disconnect; a break reaches both sides.
* connecting: the streams of the two processes meet their counterparts, whatever
  number of pipes was asked for, before the application is told that it may send.
* environment: a blocking call returns, from whatever thread it comes; nothing is
  left running after a stop, and nothing uses an environment that was removed.
* write and read infos: a buffer or callback has one owner; a reply that departs
  from the interface costs its own pull and no other; a pointer the interface
  returned is good for as long as the info that keeps what it points to.
* process: an application that keeps to the order of the functions never meets a
  null pointer or a pool that is down, and its children get the switches it set.

## Modules

| module | what it models |
|---|---|
| `MMMojoCall` | what the two applications are promised: the contract |
| `MMMojoStream` | both ends of all streams between two processes; implements `MMMojoCall` |
| `MC_MMMojoStream` | the requests and callbacks of each run |
| `MMMojoPipes` | how both processes hand out the pipes of an invitation |
| `MMMojoEnvironment` | the threads of one process, and who waits for whom |
| `MC_MMMojoEnvironment` | the blocking calls of each run |
| `MMMojoInfo` | the write infos and read infos of one process and what they own |
| `MC_MMMojoInfo` | the messages and write infos of each run |
| `MMMojoProcess` | one process from `InitializeMMMojo` to `ShutdownMMMojo` |
| `MC_MMMojoProcess` | its instances |
| `SequenceElements` | lemmas about which elements a sequence has, and in what order |
| `MMMojoStreamProofs` | theorems about `MMMojoStream`: types and results |
| `MMMojoDeliveryProofs` | the same: order, loss, waiting, callbacks |
| `MMMojoCallProofs` | `MMMojoStream` implements `MMMojoCall` |
| `MMMojoPipesProofs`, `MMMojoEnvironmentProofs`, `MMMojoInfoProofs`, `MMMojoProcessProofs` | theorems about the module each is named after |

The models overlap where they meet and abstract each other elsewhere.
`MMMojoProcess` ends where an environment starts, `MMMojoPipes` goes on to where
the pipes are bound, and `MMMojoStream` starts there. `MMMojoEnvironment`
replaces the peer by one assumption, that a Mojo call returns, and `MMMojoStream`
says when it does (`BlockedReturns`). `MMMojoStream` has an application that
answers pulls as the interface asks for, `MMMojoInfo` one that does anything with
its infos, and a peer reduced to the messages that arrive.

A name of the code stands for the same thing in the modules. Some operators end
a phrase with what a plausible slip would change (`PostAtFront`,
`OnMojoDisconnectHalf`): they are not part of the specification. Each is a
mutation of the definition after it, to make sure that the properties notice.

### MMMojoStream

An *end* is a stream of one process. Its state: the tasks posted to its thread
(`queue`), `impl_` with its `remote_` (`impl`), its `receiver_` (`recv`), the
synchronous Mojo call the thread is inside (`waiting`), and whether the
environment still holds the stream (`stream`). `requests` and `responses` are
what is in flight on the pipe from an end's remote to its peer's receiver; a
response travels back on it. `held` are the pulls whose read info the
application has; `outcome` and `info` are what `Send` returned and what
`*response_info` points to. Three history variables record what was posted, read
and answered.

A request is a record: sender, method, `sync`, message pipe, and whether a
`response_info` was set. There is one action for each task
(`PushMMMojoWriteInfo`, ...), message handler (`Hello`, ..., `ShakeHandHey`),
response function (`OnPushReqMMMojoReadInfo` and the `Sync` one) and for
`OnMojoDisconnect`. A synchronous call is two steps, the task that makes it and
its end (`SyncResponse` or `SyncDisconnect`); in between the thread runs no
task, and of the messages it takes only synchronous ones, as Mojo does.
`StopStream` is the stop of one stream rather than of all in a row, which allows
more orders than the code has. `Crash` ends a process; `LoseRequest` and
`LoseResponse` take away what it wrote last.

What comes from Mojo is external: pipes keep what is written before the receiver
is bound, deliver in order, and a graceful close delivers what was written
before; a response callback that is destroyed unused closes the receiver of its
pipe, in a task of its own (`RaiseError`) or, if the stream's thread itself
destroys it in a callback, at once (`RemoveMMMojoReadInfoInCallback`); the disconnect handler of a remote runs after the responses
that did arrive.

Assumed of the application: it sends a request once and not before
`remote_on_connect`; it answers a pull with the stream number and `sync` flag of
its read info, and does not send on an append stream after a stop (`MMMojoInfo`
is about what happens otherwise); it does not block in callbacks
(`MMMojoEnvironment` is about those that do). A `Send` that races a stop takes
effect before or after it, as a whole (`MMMojoEnvironment` takes it apart).
`set_disconnect_handlers`, which decides whether the application is told of a
disconnect, does not change the state; `impl = "reset"` is the moment it is told.

### MMMojoCall

No threads, tasks or pipes: for each request the `result` of `Send`, what
`*response_info` points to (`response`), how often it was `read` and its data
given back (`answers`); what was `posted` on each channel, in order; and the
streams something happened to (`broken`). A request is accepted, or refused on a
broken stream; it is read once and in turn, where `InTurn` allows a synchronous
one to overtake; `Succeed` and `Fail` say what a waiting sender is told, and
`Collect` gives the data of a pull to the sender's callback.

`MMMojoStream` implements it (`KeepsContract`, `Call == INSTANCE MMMojoCall WITH
...`). The mapping: `result`, `posted` and `answers` are what `MMMojoStream` has
under `outcome` and in its history; a read counts when the handler ran, with or
without a callback; a stream is broken when one of its processes has ended, one of its ends
was stopped or the receiver of one was closed.

### MMMojoPipes

`message_pipes` are the pairs a process still has to give to append streams,
`posted` the pair in the task of a stream's thread, `impl` the pair it is bound
to, and `step` where the IO thread is. A pair is the two attachment names, as
`remote` and `receiver`. `AttachAndLaunchSubProcess` and `ExtractSubProcess` are
the loops that take the pipes, one step each, since the invitation is seen by
nobody else at that time; the loop that posts them is one step per stream, since
the streams' threads run. The child starts once the host has launched it, and it
may never. Each process chooses its number of append streams. A name the host
did not attach gives the child a pipe without a peer, as Mojo does.

### MMMojoEnvironment

`io_queue` and `io_task` are the IO thread, `next` is the stream its loop has
come to, `child` the stream that lives on it; `thread`, `queue`, `impl`, `incall`
and `callback` are the thread of a stream, and `callback` is the call it is making
from a callback, if any. A call (`Call`) is a synchronous `Send` or a `Stop`, made
once by a given thread: one of the application's, the IO thread inside
`remote_on_connect` or `remote_on_disconnect`, or the thread of a stream inside a
read callback, which may itself be inside a Mojo call, or inside
`remote_on_disconnect`. The destruction of a stream is two steps, posting the last
task (`RemoveDefaultOrAppendStream`) and the join (`JoinStreamThread`). After the
streams a stop has three more: it tests `run_loop_` (`TestRunLoop`, which keeps the
outcome in `found`), calls `Quit()` if it was there (`QuitLoop`), and signals its
caller (`SignalStopped`). The thread in `StartEnvironment` sets `run_loop_` and
resets it between any of them: `quit` is `"called"`, or `"freed"` if the loop had
gone by then.

A `Send` is three steps: it reads the pointer of the stream
(`SendMMMojoWriteInfo`), the task runner of its thread (`GetIOThreadTaskRunner`)
and posts (`PostWriteInfo`). A stop may come in between each. The pointers are
read without a lock: while the stop is destroying the stream its `thread_` may be
null or not, both of which the model allows, and afterwards the use is
`"undefined"`. A post to a thread that has ended is `"lost"`, and the sender waits
for ever. The application removes an environment once a stop of it has returned
and no call on it is under way, a looping `StartEnvironment` included
(`RemoveMMMojoEnvironment`). Nothing in the code enforces that: it is an assumption
on the application, without which a removal frees the loop under its thread.

`StartEnvironmentOnClientThread` is one step up to `remote_on_connect`, because
nothing uses the streams before; `MMMojoPipes` has that order in detail. Each
environment is started once; `MMMojoProcess` starts them again.

### MMMojoInfo

`fields` are the members of an info that own something. Each is an
`absl::optional`: `Unset`, an owner of a buffer, a mapping or a response callback,
or `Moved`, engaged but empty, which is what a move leaves behind. `place` is where
an info is, `queue` the write infos in the tasks of each stream, `fate` what became
of the response callback of a pull: `"held"`, run on its own thread (`"answered"`,
or `"void"` if the stream had gone), run on another thread (`"foreign"`), or
destroyed (`"dropped"`). A `stream` is `"open"`, `"refused"` (the peer closed its end
for a message it turned down), `"error"` (this end was closed for a callback that was
destroyed), `"reset"` (the disconnect handler ran after one of these), `"gone"` (it
ran because the peer went), or `"removed"` by a stop. `pointer` remembers what the getters returned, `taken` and
`given` to which write infos a read info's callback and message were swapped.

The application makes any call on an info it has, in any order, and as often as
the bounds allow. Messages arrive once each (`Arrive`); the tasks that use up a
write info are `WritesMessage`, `SharedMMMojoWriteInfo` and
`PullRespMMMojoWriteInfo`, with an action each for looking into an empty optional
or running a null callback, which ends the process (`abort`). So does a `Send` whose
message pipe is the number of an append stream that does not exist: `Missing` are
such numbers, out of range or, if `AppendStreams` is empty, all there are. A stream
breaks because a callback was dropped (`RaiseError`), because shared memory that was
moved from is sent (`SharedMMMojoWriteInfo`), because its peer goes
(`OnMojoDisconnect`), or stops. A callback that is run for a stream that is broken
counts as void. Sizes and contents are left out.

### MMMojoProcess

`io`, `ipc` and `pool` are what `InitializeMMMojo` sets up; `io_queue` the tasks of
the IO thread. Of an environment there is its command line, the registration of
`remote_on_connect`, whether its streams exist and on which IO thread, and the
launch of its child: handed to the pool (`"launching"`), answered (`"returning"`),
and told to the application. `endpoint` is the invitation a child process is
launched with, good for one start. The application's thread makes any call at any
time except inside another; `fault` is what ended the process or made it undefined,
and the model stops there. The rules are the guards named in `Calls`: a call that
does not meet them counts as a departure.

Mojo, the pool and the launcher are external: IPC support that is replaced shuts
down the new one with the old; a pool that was shut down is not started again and
runs nothing, and must not be shut down once more (`ShutdownPool`); the launcher
drops its answer once it is destroyed.

## Runs

Deadlock is not checked in any run: the applications may stop sending, and the
system then rests.

| run | bounds | checks |
|---|---|---|
| `stream_default` | both default streams, 3 requests, either side lacks a callback, all faults | `TypeOK`, `SyncResultTruthful`, `NoOrphanWait` |
| `stream_append` | one append stream, 5 requests of every kind, two pulls that cross, all faults | `NoGap`, `NoSilentLoss`, `OnlyCrossedPullsDeadlock` |
| `stream_heals` | 3 synchronous requests, all faults, fairness | `BlockedReturns`, `StopReturns`, `BrokenHeals` |
| `stream_contract` | 5 requests on one stream, with pulls by callback and a side without `read_on_push`, all faults | `AtMostOnce`, `QuietAfterDisconnect`, `KeepsContract` |
| `stream_delivers` | 5 requests, no faults, fairness | `Delivered`, `PullAnswered` |
| `pipes` | up to 2 append streams on either side, not necessarily as many | `TypeOK`, `Paired`, `AppendJoinedFromEnd`, `NoSharedEnd`, `ConnectLast` |
| `env_threads` | 2 environments with 2 streams, 5 calls, peers that go | `TypeOK`, `QuietAfterStop`, `NoOrphanCall`, `WritesFindImpl`, `RemovedUnused` |
| `env_returns` | 2 environments, 5 calls: stops by the application, from callbacks of each other and from `remote_on_disconnect`, a looping start, fairness | `CallsReturn`, `StartReturns`, `QuitFindsLoop` |
| `env_callbacks` | 3 environments with 1 stream, 5 calls: stops from callbacks, in a chain and in a cycle, and sends between them, fairness | `CallbackStopReturns` |
| `info_replies` | 2 pulls, 2 replies and a message for a stream that does not exist, each callback swapped up to twice, faults, stop | `TypeOK`, `AnsweredByTheBook`, `BreaksAreDeserved`, `AbortsAreDeserved` |
| `info_pointers` | a shared message, 2 write infos, 2 getters each, the message swapped up to twice, stop | `PointersLive`, `BreaksAreDeserved`, `AbortsAreDeserved` |
| `process_calls` | 2 environments, 2 initialisations, 2 starts, one switch, one departure, fairness | `TypeOK`, `BookIsSafe`, `SwitchesReachChild`, `StoppedIsQuiet`, `LaunchAnswered` |

What they show:

* What `Send` returns can be relied on: true only if the peer's callback ran, and
  for a pull only with its answer; false on a whole stream only if it did not
  run. What `*response_info` points to cannot: after a failed pull it is a read
  info without data.
* Requests of one end are read in the order they were sent and without gaps, even
  if a process dies, except that a synchronous one may overtake asynchronous ones
  on an append stream.
* Two synchronous pulls that cross on one stream block each other for ever: the
  answers are tasks behind the calls. Nothing else does (`OnlyCrossedPullsDeadlock`,
  and with fairness `BlockedReturns`). The default streams have the same hazard,
  as all synchronous requests share one.
* Once a direction breaks, the other follows, and both applications are told;
  after that nothing of that stream is called. `user_data_` is shared by the streams
  of an environment and must outlive them all.
* What was accepted on a whole stream is not lost. After a break, a crash or a stop
  nothing is said of it (`Broken` excuses it in `NoSilentLoss`): then a `Send` that
  does not wait may have returned true for what nobody reads.
* A stop waits for the calls of the streams' threads. Called from a callback of
  the same environment, or from `remote_on_connect`, it waits for itself. Two
  environments whose callbacks stop each other deadlock: the IO thread joins a
  thread whose own stop is queued behind. A stop of another environment from a read
  callback works unless the IO thread is inside a callback, or a thread of an
  environment that is being stopped is inside a call (`CallbackStopReturns`).
  `Knotted` names the cycles, and `CallsReturn` says that there is no other way to
  get stuck.
* A `Send` is only lost, or uses a stream that is freed, if its environment is
  being stopped meanwhile; an accepted one whose stop came later finds its stream
  bound or about to be. When a stop has returned, an environment that nobody is
  calling may be removed.
* A looping start returns after the stop if its loop was there when the stop tested
  `run_loop_`. A loop that begins later is not told, even if the stop has not
  returned yet, and runs for ever. What the test saw is still there when it is quit,
  unless the environment is stopped twice.
* Numbers of append streams that differ do not break the default streams, but
  match append streams from the last one backwards.
* Every step of the streams is one the contract allows: seen from the two
  applications there are requests that are read once and in turn, and results that
  tell the truth about them.
* A reply with the flag and the stream of its pull, that takes no other callback,
  is answered whatever is done with other infos. One that is not may leave its own
  pull unanswered, which breaks the pull's stream. Of the calls modelled here only
  one more breaks a stream: sending shared memory that had been swapped to another
  write info before, which the peer answers by closing its end.
* The calls modelled here end the process in four cases only: a reply with a callback
  taken a second time from the same read info, shared memory that was never allocated
  or was replaced by a message without any, a message pipe for which there is no
  append stream, and a `Send` on an append stream after the stop.
* A pointer of a getter stays good across the swap of its message, until the info
  that has the message now is sent, removed, given another one or asked again.
* The rules that keep a process safe: initialise before and shut down after all
  environments run; shut down once in the life of a process; register
  `remote_on_connect` before the start; give a new `kMMExePath` before every start
  that launches a child, and its switches after it; stop before removing. With them no interleaving of tasks and calls fails.
  A second initialisation after the shutdown does no harm by itself, but launches
  nothing, as the pool stays down, and must not be shut down again.

Why the bounds are enough. The requests on different streams only interact
through stops and crashes, so a run needs few streams; on one stream the
interesting cases are two requests of one side and one or two of the other
(order, overtaking, crossing, an answer behind a call), and 3 to 5 requests have
them all. Pipes are handed out one by one, and two suffice to tell the front of
the list from its end, and to have different numbers; the theorems hold for any
number. Two environments are enough for calls that go from one to the other and
back, and with two streams each a stop is seen in the middle of its loop; a chain of
stops, in which one waits for another that may yet return, takes three
(`env_callbacks`), and there one stream each is enough, as the streams of an
environment are joined one by one. Two
pulls and two replies have every pair of owners and a right and a wrong reply to
either, and one shared message and two write infos every way of passing it on; two swaps and two getters (`MaxTakes`, `MaxGives`, `MaxGets`)
show what a second one finds after the first. Two starts and two initialisations
(`MaxStarts`, `MaxInits`) show what the first leaves to the second, and one
departure from the rules (`MaxDepartures`) is enough to see that the other rules do
not depend on it. `Faulty` and `Stops` choose which streams may break and whether
there is a stop, so that the runs that ask about something else stay small.

## Fairness

`MMMojoStream`: weak fairness, at each end, of its tasks, of the end of a
synchronous call, of reading requests, of reading responses and of the
disconnect handler. The thread's message loop alternates between posted tasks
and pipes, which justifies one condition for each. Mojo's end of a call is also
fair: the message or the break is delivered. Applications are taken to answer or
delete each pull they hold. Nobody has to send, stop or crash.

`MMMojoEnvironment`: weak fairness of the IO thread, of each stream's thread, of
the end of a Mojo call and of the loop's return. That a Mojo call ends is what
`BlockedReturns` shows of the streams, crossed pulls excepted.

`MMMojoProcess`: weak fairness of the IO thread and of the launcher's task while
the pool runs. Nobody has to make a call.

`MMMojoPipes` has none: launching may fail. Neither has `MMMojoInfo`, whose
properties are safety.

## Proofs

The theorems hold for every value of the constants that meets the assumptions of
the modules. These only fix what a value is:

* `ParamAssumption`, `PipesAssumption`: the two processes and the two default
  streams differ, requests are records of the right shape, bounds are naturals.
  The sets of requests and append streams, the callbacks each side registered and
  the faults are arbitrary.
* `EnvironmentAssumption`: the application's thread and the IO thread are not
  threads of streams, and `StopOrder` lists the streams of an environment without
  repetition. Environments, streams and calls are arbitrary.
* `InfoAssumption`, `ContentAssumption`, `ProcessAssumption`: the same for infos
  and processes; `Unset` and `Moved` differ from each other and from what an
  `absl::optional` can hold.

Each component has one inductive invariant, of named parts, and each part its
lemma: what one step can do to the state the part is about (`QueueMoves`,
`EndMoves`, ...: one case per action), then that such a step keeps the part.
The parts were model-checked before they were proved.

`MMMojoStreamProofs`:

* `TypeCorrect`: `Spec => []TypeOK`. `TypeOK` is inductive.
* `SyncResults`: `Spec => []SyncResultTruthful`. The property speaks of a result
  and of what happened elsewhere, so the induction needs what is on the way
  between the two. `AnswerInv`: a pull that is held, or answered by a task, was
  read; a response in flight tells whether the callback got its request; a thread
  waits for, and writes, requests of its own end. `CreateInv`: a stream's thread
  runs `Create` before all else, so that a synchronous write that finds no
  `remote_` finds a broken stream, never one that is not yet bound. `ResultInv`
  is the property without the case of `dispatched = 0`, and it is preserved
  because a broken stream stays broken.

`MMMojoDeliveryProofs`, on top of those, with `DeliveryInv`:

* `EndInv`: what an end that died, closed or was stopped has left; a stop is in
  the queue until its task ran. `EndStays`: none of the three is undone.
* `FlowInv`: the requests of an end are posted once; those on the pipe and in the
  tasks are in the order they were posted, the pipe before the tasks, and none is
  missing unless the end is cut off. `ReadInv`: what was read was posted, and
  once. `OvertakeInv` carries the order over to what was read. From these follow
  `ReadAtMostOnce`, `ReadInOrder` and `NothingLost`.
* `CallbackInv`: the callback of a pull is with the application, in a task, or
  used up by a response, and nowhere twice. That is why it is answered once, and
  why a queue has no task twice.
* `WaitInv`: what a thread inside a call waits for is unread, held, answered or
  the break of its pipe, and for a push it is not a task at the peer; a request
  that may still be answered has a thread that waits for it, or an end that is
  cut off. From it follow `WaitsForSomething` and `DeadlockNeedsPulls`.
* `DisconnectedIsQuiet` is a property of steps: a request is read through an open
  receiver, and a response through a bound remote, which an end that was reset
  does not have.

`MMMojoCallProofs`:

* `ContractKept`: `Spec => KeepsContract`, which is `Call!Spec`. `StepShows` takes
  the steps of `MMMojoStream` one by one: a `Send` shows as `Accept` or `Refuse`, a
  message handler as `Read`, the end of a synchronous call as `Succeed` or `Fail`,
  a response to a callback as `Collect`, a closed receiver or a stop as `Break`, a
  crash as the end of all streams of its side; the rest shows nothing.
  `Read` is in turn by `FlowInv`; a result is right by `ResultInv`, in the state
  before the step and the one after.

`MMMojoPipesProofs`:

* `TypeCorrect`, `StreamsPaired`, `AppendStreamsPaired`, `EndsUsedOnce` and
  `ConnectedLast`. The invariant: the pairs left are a prefix of those taken, each
  the one its place in the loop gives (`PipesInv`); a stream only ever has the
  pair meant for it, which for append stream `j` of `n` is pair `n - j`
  (`GivenInv`); which streams have been given theirs at each step (`OrderInv`).
  The properties follow from `GivenInv` by arithmetic on the attachment names, and
  `ConnectLast` from `OrderInv`.

`MMMojoEnvironmentProofs`:

* `TypeCorrect`, `StoppedIsQuiet`, `CallersAreServed`, `WritesAreInTime` and
  `NothingUsesTheRemoved`. The IO thread has one task of each kind at most
  (`IOInv`), and nothing comes before a start (`StartInv`). A stream's thread runs
  `Create` first and `Remove` before it ends, and has nothing before it is started
  or after it is joined (`ThreadInv`); behind a `Remove` there is neither a
  `Create` nor a write anybody counts on (`OrderInv`). The streams the stop's loop
  is through with are joined, so that all are when it returns (`StopInv`). `CallInv`
  and `CallbackInv` say who may be in which step of a call and in which callback,
  `RemovedInv` that a removed environment was stopped.
* `QuitFindsItsLoop`, with `LoopInv`: a loop that came to its end was told to quit,
  and each that was told has a stop that did it. A stop that finds its loop gone is
  not that one, so that there are two.

`MMMojoInfoProofs`:

* `TypeCorrect`, `SingleOwner`, `BookIsAnswered`, `BreaksDeserved`,
  `AbortsDeserved`, `MappingIsSent` and `PointersStay`. That an owner is the only
  one needs that each field has its own kind of content (`KindInv`), that only an
  info somebody has owns anything (`PlaceInv`) and that what a getter makes is new
  (`FreshInv`). That a pull's callback ends as it should needs where it came from:
  a read info has its own until a swap (`ReadCallbackInv`), a write info has one
  from a swap and an empty one from a second (`WriteCallbackInv`), and by the book
  keeps it (`BookInv`). `StreamInv` has the reasons a stream goes or breaks,
  `MemoryInv` how memory comes to be moved from, `SharedInv` and `PointerInv` what
  mappings and pointers come from. `OneOwner` (no buffer, mapping or callback has two
  owners) and `MappingShowsMemory` (memory and its mapping move together) are parts
  of this invariant, proved and not checked by a run of their own.

`MMMojoProcessProofs`:

* `TypeCorrect`, `RulesSuffice`, `ChildGetsSwitches` and `StopLeavesNothing`. What
  holds of any application: behind a stop there is only an answer of the launcher,
  as the caller waits (`QueueInv`), and what a stop destroyed stays away
  (`QuietInv`). What holds by the book (`BookInv`): IPC and the pool are there as
  long as the IO thread, and nothing runs without it (`RuntimeInv`); what runs
  exists and can tell it is connected (`LifeInv`); a command line is what was asked
  for until it is passed on (`PathInv`); only the first start of all has no path,
  and it finds the endpoint (`EndpointInv`); a queued start finds what it needs and
  is the only one of its environment (`StartInv`).

`SequenceElements` has the facts on `ToSet`, `Append`, `RemoveAt`, `Tail` and `Front`
the steps cite, and on order: `Precedes(s, a, b)`, that `a` comes before `b`, and
`Ordered(s, R)`, that any two elements in their order are in `R`, which posting,
running and reading a request preserve.

Only model-checked: liveness (`BlockedReturns`, `StopReturns`, `BrokenHeals`,
`Delivered`, `PullAnswered`, `CallsReturn`, `CallbackStopReturns`, `StartReturns`,
`LaunchAnswered`). It rests on fairness, that is on `ENABLED`, which this prover
does not reason about.

## Not modelled

* What payloads, attachments and shared memory contain, their sizes, and
  allocations that fail, apart from memory that is not there.
* One info used by two threads at once, which the interface leaves to its callers.
* `OnMojoError`, which forwards to a callback, and the launcher's delegate, which
  returns constants. The launcher itself is Chromium's.
* Callbacks and parameters set after the start: they are read without a lock.
* `flmojo/`, a copy of `mmmojo/` under other names.
* Logging, sandbox set-up, build files, export lists.

## Plan

Done: all components that have behaviour of their own are modelled, and all of
the safety that the runs check is proved, the refinement of the contract
included.

Next, proofs:

1. Of `MMMojoCall` alone: that its steps imply that a request is read once and in
   turn, and that a result is true, so that the contract can be relied on without
   looking at how it is kept.
2. What one module assumes of another, as a theorem of the other where it is
   safety: that a stream's thread binds its pipes before it writes is proved in
   `MMMojoStream` (`CreateInv`) and in `MMMojoEnvironment` (`ThreadInv`) apart.
3. Shorter proofs where two components repeat an argument: the effect of posting
   and running a task is the same in three of them.
