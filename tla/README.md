# Jettison command and video client: a TLA+ verification project

The program under `src/` connects to a Jettison server over two WebSockets. It
sends zoom commands typed at a terminal over the one, and receives H.264 frames
over the other, which it writes into a named pipe for a viewer. These modules
model its control (threads, callbacks, shutdown, pipe and terminal), TLC checks
them on small instances, and TLAPS proves every safety property of those runs
that hold, and every refinement, for every instance. Paths below are relative to
the repository, whose C++ sources are `src/src/*.cpp` and `src/include/*.h`.

Run, in this directory: `tlc -workers 2 -config X.cfg MCM` for a row of the
table of runs, and `tlapm MProofs.tla` for the proofs. `PROJECT.json` maps each
definition to the lines it models, and lists runs, mutants, hazards and theorems.

## 1. Inventory

Five threads run in the process:

| thread | code | shares |
|---|---|---|
| main | `main.cpp:76-226` | `running`, `g_running`, the command queue, all objects it owns |
| video | `VideoReceiver::run` | `running`, its own WebSocket client |
| sender | `CommandSender::run` | `running`, the queue, `SharedTiming`, the command client |
| background thread of the command client | the lambda in `Impl` | `connected` of that client |
| background thread of the video client | the same, and `on_video_frame` | `connected`, `VideoWriter`, `SharedTiming` |

| component | state | operations | who calls it, and what is hard | what makes it correct |
|---|---|---|---|---|
| `CommandQueue` | deque, mutex, condition variable | `push`, `pop_with_timeout` | pushed by main, popped by the sender; a push can meet a wait that is timing out | mutual exclusion, no lost wakeup, FIFO, a timed-out pop never hides a command |
| `WebSocketClient` | `connected` (atomic), `message_callback`, the IXWebSocket object | `connect`, `send`, `service`, `set_message_callback`, destructor | two threads per object; a handshake may outlast `connect`; members are destroyed while a thread may still call them | no thread survives the object, a callback is not outlived, `connect` and the destructor return |
| `KeyboardHandler` | saved termios, flags of standard input | constructor, `check_input`, `handle_key`, destructor | shares standard input with `std::cin.get ()` | keys in order, terminal restored on each way out |
| `CommandSender` | references only | `run` (pop, build, validate, send, ping) | the only consumer; must stop when the flag falls and keep the connection alive | each command handled once and in order, pings, at most one late message |
| `ProtoValidator` | factory (may be null), arena | `validate` | silently absent if its factory cannot be made | no invalid message goes out: kept only where the factory could be made |
| `SharedTiming` | two relaxed atomics | `update`, `read` | written by the video client's background thread, read by the sender, no lock | bounded inconsistency of the two |
| `VideoReceiver` | client, references to writer and timing, statistics | `run`, `on_video_frame` | clears the flag when the stream ends; its callback uses objects of main, and stores the times before it writes the payload | sinks outlive frames, loss of video ends the run, times decoded as sent and carried by what is sent after the frame was seen |
| `VideoWriter` | `fd_`, `opened_`, path | constructor, `write_frame`, destructor | a viewer opens, reads and leaves at any time; the pipe may fill up; another program may use the path, or have left a FIFO there | stream in order, small frames atomic, viewers served, departures survived, a path of its own, also after a crash |
| `main` | all of the above | start, loop, joins, reverse destruction | five ways to stop, at any point | every thread joined before anything it uses is destroyed; it exits |
| `JsonConverter` | none | formats a message for a debug print | | not modelled |
| `VideoProcessor`, `StatusDisplay`, `RtspServer` | | in no build target | | not modelled (section 5) |

The hazards, each at its line and with the properties that would catch it, are in
`PROJECT.json`. Those without a property say why.

## 2. Modules and how they correspond to the code

| module | models | state | actions |
|---|---|---|---|
| `QueueContract` | what `command_queue.h` promises | queue, calls in progress, expired deadlines, last results | `Push`, `Call`, `Deadline`, `Take`, `GiveUp` |
| `CommandQueue` | `command_queue.cpp` at the grain of mutex and condition variable | `mutex_`, `cv_`, `queue_`, program counters | three steps of `push`; lock, wait, wake, relock and the two returns of `pop_with_timeout` |
| `WebSocketClient` | `websocket_client.cpp`, for all clients at once | background thread and connection (`ix`), `connected`, the owner's position | `Open`, `HandshakeFails`, `Close`, `MessageBegin/End`, `ConnectStart/Poll`, the two `disconnect`s and the member destructors |
| `CommandService` | what the program promises about a command | commands waiting and done, whether the program serves, is at work, is connected | `Ask`, `Begin`, `Serve`, `End`, `Lose`, `Stop` |
| `CommandPath` | the way of a command: main loop, `handle_key`, queue, `CommandSender::run`, `ProtoValidator` | the queue (through `QueueContract`), `running`, `signalled`, two program counters, connection, validator | one action per branch of the two loops, and the surroundings (`Signal`, `VideoEnds`, `LinkLost`) |
| `Jettison` | the whole program | that of `WebSocketClient` and `CommandPath`, main's and the video thread's position | start, loop, joins, destruction, `VideoReceiver::run`, with the steps of the two modules |
| `VideoWriter` | `video_writer.cpp`, a FIFO, a viewer | `fd_`, `opened_`, the call and the frame in progress; the pipe, its capacity, the viewer and the block it read last | one per system call and outcome |
| `PipePath` | the path of the FIFO over several starts of the program, `video_writer.cpp` call by call | where each program stands, the FIFO at the path, those open, the viewer | unlink, `mkfifo`, open, write and its failures, close, death at any point, the viewer |
| `SharedTiming` | `shared_timing.cpp` | executed stores, visible stores, last loads | stores, their visibility, loads |
| `FrameHeader` | the header's bytes as `video_receiver.cpp` reads them | none: operators | |
| `FramePath` | the way of a frame: `on_video_frame`, with the sender's reads of the times | that of `SharedTiming`, the callback's position, the values given to `update`, statistics, the newest frame shown, `running`, the sender's position | short frame, parse, two stores, count, write; the sender's test and its two loads; the stop |
| `Terminal` | standard input and the terminal's modes, over several runs | modes, unread keys, stdio's buffer | set and restore mode, prompt, `cin.get`, `check_input`, death and restart |

`CommandQueue` implements `QueueContract` (`ImplementsContract`), `CommandPath`
is built on `QueueContract`, and `Jettison` implements `CommandPath`
(`ImplementsCommandPath`): so what is said of commands holds of the queue's real
locking and of the whole program. `CommandPath` in turn implements
`CommandService` (`ImplementsService`), which knows no thread, queue, timeout or
ping. `Jettison` EXTENDS `WebSocketClient` for the two clients and takes the
steps of `CommandPath` through an instance whose `main` and `linked` are
functions of its own state. `FramePath` EXTENDS `SharedTiming`, whose stores and
loads are made by its callback and its sender; `PipePath` has the life of the
path that `VideoWriter`, which has the contents of the pipe, takes as given.

Each module with code also defines variants of some operators (named as the
operator plus the fault). No action uses them: put in the operator's place
they show that a property fails when the code is wrong in that way.

What is external and modelled from its use: IXWebSocket (callbacks serialised on one
thread, no reconnection as line 49 sets it, `stop` joins), the condition variable
(spurious wakeups included), the kernel's FIFO (atomic up to `PIPE_BUF`, partial
beyond, `SIGPIPE` and `EPIPE`, contents dropped when both ends close), the
terminal's line discipline and what a shell does to it between two runs, and the
constraints of the `.proto` files, of which only those the sources name (index >= 0,
zoom >= 1.0) are used.

Data is abstracted: a command is its type and value, a message its command and
whether it is a ping, a frame its number and its length in blocks, a time the
number of the update that stored it; next to that, `FramePath` has the value itself
(`given`), put together from the bytes of the message by `FrameHeader` as the code
does, with a base and a width that are parameters. Printing, JSON and parsing of
arguments are left out.

## 3. Runs

Every run that passes has a mutant per property (`PROJECT.json`).

| run | cfg | bounds | shows |
|---|---|---|---|
| `queue` | `CommandQueue.cfg` | 2 producers, 2 consumers, 2 commands, length 2 | mutual exclusion, no lost wakeup, pops return, refinement of the contract |
| `path` | `CommandPath.cfg` | a key of each kind, 3 pushes | conservation and order, late messages, refinement of the service, progress, keepalive |
| `path_sent` | `CommandPath_sent.cfg` | 2 keys, 2 pushes | violation: "Sent" is printed of what was not sent |
| `path_unvalidated` | `CommandPath_unvalidated.cfg` | 3 keys, 2 pushes | violation: an invalid command is sent without a validator |
| `program` | `Jettison.cfg` | both clients, 2 polls, 2 keys, 1 push | the callback's lifetime, final loss, the destructors end, joins before destructors, sinks, refinement, exit, also when the video is lost |
| `writer` | `VideoWriter.cfg` | frames of 0, 1, 2, 5 blocks, numbered modulo 3; `PIPE_BUF` 2, capacities 3 and 4 | order of frames and blocks, small frames whole, service of viewers, departures noticed |
| `writer_sigpipe` | `VideoWriter_sigpipe.cfg` | the same | violation: a departing viewer kills the process |
| `writer_partial` | `VideoWriter_partial.cfg` | the same | violation: a dropped frame is partly in the stream |
| `frames` | `FramePath.cfg` | 3 frames, numbers of 4 digits in base 3, the last time that fits and the first that wraps, sizes around the header; builds that keep program order and builds that do not | the numbers of the header stored where they belong, inconsistency of the pair, times not older than what was seen, new times carried |
| `pipes` | `PipePath.cfg` | 3 starts, 1 viewer | own FIFO at the path, nothing left behind, service after a crash |
| `terminal` | `Terminal.cfg` | 2 keys, 4 presses, 3 runs | keys of command mode, restoration, after crashes too |
| `terminal_prompt` | `Terminal_prompt.cfg` | the same | violation: the prompt does not wait |

Why the bounds are enough to be interesting. Two consumers is the least for which a
notification can reach a thread other than the one a push is about, and two
producers for which a second push comes before the first one's wakeup was taken;
length 2 lets commands pile up. Polls only count: with two there is one after which
`connect` goes on and one after which it gives up. `WebSocketClient` is checked in
the run `program`, where its owners are main and the video thread; its proofs are
for any clients. Three pushes put one command into each of the sender's history, its
hands and the queue. A frame of one block is below `PIPE_BUF`, two is equal, five
exceeds both capacities, zero is the empty write; a capacity of three is not a
multiple of two, so a partial write with room for one block happens. Numbers modulo
3 tell a frame from the one before it and the one after. Three updates let a read be
overlapped by two and follow a third. The numbers of a header are kept to 0..80 by
base 3 and width 4, with 5 nanoseconds to a microsecond, so that the last number of
microseconds that fits, 16, gives 80 and the next wraps around, as does every larger
number of the code at 2^64; a number that wraps comes in every place of the header.
Messages of 0 bytes, one byte less than the header, the header and one byte more
take every branch on the size. Three starts are a program, its predecessor and a
third that outlives or follows both; one viewer is enough, as it comes again any
number of times. Four key presses and three runs let a key be left over from a first
run, be lost to the prompt of a second and be handled in a third. `MaxLen`,
`MaxPushes`, `MaxUpdates`, `MaxTyped` and `MaxRuns` bound what the code leaves
unbounded; `MaxPolls` is the code's own limit of 100.

`CHECK_DEADLOCK FALSE` is set where the program may stop: clients are destroyed,
threads return, main exits, the process is killed, and the user or the network
may do nothing for ever. `CommandQueue`, `FramePath` and `PipePath` never stop, so
there deadlock is checked.

### Fairness, and why the code justifies it

- `CommandQueue`: threads are scheduled and time passes (weak fairness on their
  steps and on the deadline). A woken consumer gets the mutex in the end (strong
  fairness on `Relock`): every holder releases it after a few instructions, and
  main sleeps 50 ms between two pushes. No fairness makes anybody call.
- The clients, in `Jettison`: the owner's thread runs, a frame callback returns (it has no
  loop and blocks on nothing), and a connection that `stop` closes ends; strong
  fairness because frames may still be delivered in between. Nothing makes a
  handshake succeed, a peer send, or a connection last.
- `CommandPath`, `Jettison`: the threads run and time passes. Keys, signals,
  losses and failures are the environment's choice and may never come.
- `VideoWriter`: a call that began is completed, and until shutdown
  non-empty frames keep coming, which is what a running stream means (strong
  fairness: a call is possible again and again, between calls). The viewer
  promises nothing.
- `FramePath`: a callback that began runs to its end, a store becomes visible to
  other threads in the end, and the sender's thread runs: until it finds `running`
  false it reads the times again and again, because it builds a ping whenever a pop
  of one second has timed out, and a command otherwise. After a stop it reads no
  more, though frames still arrive, and `NewTimesCarried` excepts that. Nothing makes
  frames arrive.
- `PipePath`: frames keep coming to a program that runs, and a viewer that was
  started opens the path. No fairness makes anybody start, exit, die or leave.

`Terminal` is checked for safety only.

### What the violations show

- `SurvivesViewer`: `write` to a FIFO without a reader raises `SIGPIPE`. Nothing
  under `src/` changes its disposition, so the process dies in `video_writer.cpp:106`
  and the branch at lines 110-118, which means to handle it, is reached only if
  the signal happens to be ignored by inheritance. `sigpipe` in the model takes both
  values, so what follows that branch is checked as well.
- `PromptWaits`: standard input is non-blocking before `std::cin.get ()` at
  `main.cpp:187`, so "Press ENTER to start command mode..." does not wait.
- `ReportedIsSent`: the sender ignores the result of `send` and prints that the
  command was sent; nothing in main reacts to the loss of the command connection.
- `OnlyValidSent`: `src/README.md:150` says that the program only sends valid
  commands, and lines 23 and 133 that all are validated. Where `ValidatorFactory::New`
  failed, `validate` accepts everything with a warning (`proto_validator.cpp:34-40`),
  and the `z` key sends an index of -1.
- `DroppedIsDropped`: a frame longer than `PIPE_BUF` that fits in part is written in
  part and reported as dropped: the stream holds a torn frame followed by the next.

What holds only with a reservation, stated in the property itself or in what it
refers to:

- `CallbackOutlived` excepts a client whose `connect` gave up: its handshake may
  still come to an end, deliver frames, and run while `~Impl` destroys
  `message_callback`, because `disconnect` finds `connected` false and stops
  nothing. That is exactly where the code fails, so the property says where to look
  and would not catch it.
- `CommandService` promises nothing of a rejected command when the validator's
  factory could not be made, and delivery of no command if validating itself returns
  errors. That the first is less than the documentation promises is the violation of
  `OnlyValidSent`.
- A command lost in `send` counts as handled in `Conservation` and
  `EveryCommandHandled`, and one still queued at a stop as waiting: that such commands
  are lost is what the code does, the first shown by `ReportedIsSent`.
- `FrameAtMostOneAhead`, `UndisturbedIsPair`, `SeenIsCarried` and `NewTimesCarried`
  hold where the build keeps program order; relaxed atomics promise nothing about the
  two times together.
- `on_video_frame` has no bounds of its own: a time of the server that is too large
  wraps in its product, and `DecodedAsEncoded` says so.
- `Keepalive` needs a user who stops queueing commands that are rejected. In the model
  `MaxPushes` sees to that, not the premise of the property.
- `StreamInOrder` allows a frame that ends early (`DroppedIsDropped`), and a viewer
  that begins within a frame where the last viewer of the pipe stopped: the code
  knows of neither.
- `DepartureNoticed` is also met by death from `SIGPIPE`, `SurvivesViewer`'s subject.
- `PathIsOwn` and `RestartServes` except programs that run at the same time. Of two,
  the later unlinks the FIFO of the earlier, and the first to exit unlinks that of
  the other. A viewer that waits at a FIFO a killed program has left goes on
  waiting there after the restart has removed its name.
- `TerminalRestored`: a raw terminal that a killed run has left is what the next run
  saves, and leaves.

## 4. Proofs

Eight modules hold theorems, checked by `tlapm` to the last leaf.

- `CommandQueueProofs`, for any producers and consumers (disjoint, the consumers
  finite in number), commands and `MaxLen`. `TypeCorrect`; `MonitorCorrect`, which
  with the types is inductive; `NoLostWakeupCorrect`, whose argument is a count:
  each command in the queue has a consumer that is awake, or the one push that
  holds the mutex is about to wake it, and a consumer leaves that set only by taking
  a command or by finding the queue empty; `ContractImplemented`, the
  step simulation of `QueueContract`, using the types and the monitor invariant.
- `WebSocketClientProofs`, for any clients and any positive `MaxPolls`.
  `WsTypeCorrect`, `CallbackOutlivedCorrect`, `NoThreadLeftCorrect` (which no run
  repeats) and the action property `LostIsFinalCorrect`. The three are not
  inductive alone. The invariant adds how `connected`, the state of the background
  thread and the owner's position go together: an owner that was told of a
  connection, and did not give up, has a thread that is open with `connected` set,
  or over without it.
- `CommandPathProofs`, for any keys and any `MaxPushes`. `PathTypeCorrect`,
  `ConservationCorrect`, `AtMostOneLateCorrect` and `ServiceImplemented`. The
  invariant adds that a late message leaves the sender at its test, or
  returned, with `running` false, so that there is no second; and that a command the
  sender has in hand past the validator is one it accepts, from which a send does
  what `CommandService` allows. What waits in the service is the command in the
  sender's hands followed by the queue, so that a pop is a stutter and a send takes
  the head. `RejectedNeverSentCorrect`, which no run repeats: the user is told of a
  rejection for exactly the commands the validator refuses, and none of those is
  transmitted.
- `JettisonProofs`, over the invariant of `WebSocketClientProofs`, for any number of
  polls and pushes. `ThreadsOverCorrect`, `FramesHaveSinksCorrect`,
  `ClientsImplemented` (the clients inside the program behave as `WebSocketClient`
  says, so that its theorems hold there) and `CommandPathImplemented` (likewise
  for those of `CommandPathProofs`). The invariant says that the receiver is joined
  before the sender, that the flag has fallen before the first join, that an early
  return has started nobody, and that the receiver's client is gone once its
  destructor has returned, which is why no frame is in progress after it. What the
  two refinements are for is then drawn from them: `ProgramClients`,
  `ProgramConserves`, `ProgramStopsSending`, `ProgramRejects` and `ProgramServes` are
  the theorems of the other two modules about the whole program. `Proven` is
  `CommandPathProofs` under the same mapping as `Path`; the lemmas before
  `ProgramIsPath` say that the two instances have the same initial states and steps,
  and `CommandAssumption`, the mapped assumption of `CommandPath`, makes its theorems
  available. `ProgramTypeCorrect` gives the types.
- `VideoWriterProofs`, for any lengths, `PIPE_BUF`, capacities and numbering.
  `TypeCorrect`, `StreamInOrderCorrect`, `SmallFramesWholeCorrect`, from lemmas that
  say block by block what a whole or partial write appends to the stream and what a
  read moves. The invariant adds that nothing of a frame is in the pipe before its
  write (`NothingYet`), and that the stream ends with the last block that entered of
  the current frame, or of the one before it (`EndOfStream`): that is what the next
  write continues.
- `PipePathProofs`, for any number of starts. `TypeCorrect`, `PathIsOwnCorrect`,
  `NothingLeftBehindCorrect`. The invariant says that a program nobody has disturbed is
  the only one alive, that the path is empty after its unlink and its own after its
  `mkfifo`, and that a name at the path has a maker that is alive or was killed.
- `FramePathProofs`, for any messages and any number of updates, in three parts.
  *The times* (`SharedTiming`): `TypeCorrect`, `FrameAtMostOneAheadCorrect`,
  `UndisturbedIsPairCorrect`. The invariant says that the
  visible pair is that of one update or has the frame time one further, and bounds a
  read that has loaded the first value by what is visible now.
  *The header* (`FrameHeader`), for every base from 2 and every positive width, so for
  the code's 256 and 8: `HeaderRead`, what the loop of `read_uint64_le` adds up from
  the bytes of a header are the three numbers put there. `LittleEndian` and `Weight`
  are recursive functions, so this needs induction; the library's induction theorems
  take an operator and cannot be used, but `SetInduction` is derived from its theorem
  that every set of natural numbers has a least one, and does for a set what they do
  for a predicate. By it `Weight` exists (`WeightDefined`), the digits of
  a number add up to its remainder by the weight of their number (`Decoded`), and
  that is the number itself as it is below the modulus.
  *The callback* (`FramePath`): `FrameTypeCorrect` and `DecodedAsEncodedCorrect`,
  from `CallbackInv`: how far the callback is with the message it was given, with
  which times and statistics at each point, so that the count lags the stored times
  by one exactly while an update is in progress; and `GivenInv`: which of them
  `update` has been given by then.
  `TimingImplemented`: callback and sender use the times as `SharedTiming` allows, so
  that its theorems hold of the times in commands (`CarriedAtMostOneAhead` is one,
  restated). `SeenIsCarriedCorrect`: what has been shown is visible in both locations,
  and a read that began after it has loaded nothing older.
- `TerminalProofs`, for any keys, presses and runs. `TypeCorrect`,
  `CommandModeKeysCorrect`, `TerminalRestoredCorrect`. `ModeInv` relates what a run
  has saved to how it found the terminal: a run that owns it has it raw and has saved
  the proper mode exactly if it found that, and only a killed run leaves it
  otherwise. `KeysInv` says that nothing is handled before command mode, and that in
  it the keys since the prompt are those handled followed by those unread: a press
  appends to both sides (`RestAppend`), a read moves a key from one part to the other
  (`HeadMoved`).

The assumptions are the named ASSUMEs of the modules and no others; TLC evaluates
each of them in the runs.

Model-checked only: the liveness properties (`PopReturns`, `DestructorEnds`,
`EveryCommandHandled`, `Keepalive`, `AlwaysExits`, `VideoLossStops`, `ViewerServed`,
`DepartureNoticed`, `NewTimesCarried`, `RestartServes`), since liveness under
fairness and ENABLED are out of the prover's reach. Every invariant, action property
and refinement that a passing run checks is proved.

## 5. Not modelled

- The death of the process in `Jettison`: there it only ends through main. `PipePath`
  and `Terminal` have it, with what it leaves behind.
- The fields of the protobuf messages beyond command, value and validity, and the
  memory of the validator's arena, which is never reset.
- Output. Standard output may be the same open file as standard input and so be
  non-blocking too; what a failed print does to the stream is left out.
- A pipe path that another user, or something other than this program, has put into
  `/tmp`: `PipePath` is about one user's starts of this program.
- A second signal, `exit` from the outside, and failures to start a thread.
- `RtspServer`. It is in no build target and nothing calls it: no code runs the GLib
  main loop its callbacks depend on, and none says which thread pushes frames into it,
  so that any model of its steps over time would rest on invention.
- `VideoProcessor`, in no build target and called by nothing. It is not another reader
  of the messages the program receives: its header has 28 bytes
  (`video_processor.h:14-27`, the payload from 28 on at `video_processor.cpp:34`) where
  `on_video_frame` (`video_receiver.cpp:93-95`) and `src/README.md:126` have 24, and its
  first eight bytes hold a sequence number and not the presentation time.
- `StatusDisplay` (in no build target; it keeps three numbers and prints them),
  `JsonConverter` (a debug print), build and packaging scripts.

## 6. Plan

Done, in the order of importance: the queue and its contract, the clients, the
command path and the service it implements, the composition, the pipe and its path,
the timing and the way of a frame, the terminal; then the proofs of the safety
properties and refinements of all of these, and their transfer to the whole program.

What could follow:

1. The death of the process inside a callback, in `Jettison`, as a step of its own, with
   what `PipePath` and `Terminal` say of the remains as the consequence.
2. `PipePath` shown to be implemented by several copies of `VideoWriter` with their
   pipes' contents.
