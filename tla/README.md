# A verification of the BUFU file broker

The broker runs on a builder unit (BU). The BU writes the files of a run into a
run directory; filter units (FUs) ask the broker over HTTP for the next file to
process. The broker watches each run directory with inotify, keeps the files it
finds in a priority queue, gives each index file to exactly one FU, and tells
FUs how far the run has got (`lasteols`, `state`).

This directory holds TLA+ models of the broker's code, configurations that
check them with TLC, and proofs checked by TLAPS.

    tlc -workers 2 -config ObserverSafety.cfg MCRunDirectoryObserver
    tlapm ObserverInvariant_proofs.tla

## 1. Inventory

| Component | State | Operations | What is hard |
|---|---|---|---|
| `bu::FileInfo` | lumisection, index, type | parse, format, packed score, `<`, `>`, `==` | the four fields of the score must not overlap |
| `tools::INotify` | one descriptor; the kernel's event queue behind it | `add_watch`, `hasEvent`, `read`, close | events come in batches, the queue may overflow, files written in place raise their event late |
| `bu::RunDirectoryObserver` | priority queue, run statistics, FU statistics, the counters of `/stats`, error message | `start`, the runner thread (watch, list, drain, optimize, main loop), `popRunFile` | three threads; the lock covers the queue only; files arrive while the directory is listed |
| `bu::RunDirectoryManager` | map from run number to observer | `popRunFile`, `getStats`, `getError`, `restart` | creation under a lock, observers destroyed under their running thread |
| broker (`main.cc`) | none of its own; files move to `fu/` | `/popfile`, `/stats`, `/restart` | pop, rename and reply are three steps; a failed rename ends the process |
| HTTP 1.1 server | one session per connection, a pool of threads | accept, read, handle, write, close, time-out | time-outs, keep-alive, replies lost after the rename |
| request parsing | path, query parameters | `parse_uri`, `url_decode`, `query`, `getParamUL` | boundary conditions, narrowing of integers |
| `tools/synchronized` | queue, spinlock, barrier | push, pop, lock | blocking, fences (not used by the broker any more) |
| HTTP 1.0 server (kept, not built) | a manager with its connections, a parser in each | accept, read, parse, reply, stop at a signal | operations that finished before the signal and are handled after it; requests cut into pieces |
| C++ example client | none | send a request, print the headers and the content of the reply | it ends the content where the connection ends, and returns no failure for an exception |
| systemd unit, scripts | - | restart after 20 s | the process starts again with the directory as it is |

How they interact: a `/popfile` request runs in a server thread. It takes the
manager's lock to find or create the observer of its run, then the observer's
lock to pop a file, then renames the file into `fu/` with no lock, then replies.
The observer's runner is a detached thread that pushes files under the
observer's lock and writes its statistics under none. An assertion or an
exception that leaves a thread ends the process, for all runs; systemd starts it
again.

What makes each correct:

- FileInfo: the score realises the order "index files of a lumisection, its
  EoLS, the next lumisection, EoR last"; the name written for a file is the one
  it was read from.
- RunDirectoryObserver: no file is lost between listing and watching; each is
  handed out once; `lasteols=n` and `state=EOR` are told only when nothing they
  close is still to come; the consistency checks never trip; every file is
  given out in the end; states that are final stay; the counters account for
  every file and request.
- RunDirectoryManager: one observer per run, used only while it lives.
- HTTP 1.0 server: what a connection is answered depends on what was sent, not
  on how it arrived; a signal ends the server whatever it was doing; a client
  shows what the server answered, or a beginning of it.
- broker: a file is given to one FU even across crashes and restarts, only
  after it was moved, and never forgotten.

The places where this can go wrong are listed with their lines in
`PROJECT.json` under "hazards".

## 2. Modules

| Module | Models | Role |
|---|---|---|
| `FileInfo` | `bu/FileInfo.h` | files, the packed score, the order it is meant to realise |
| `RunDirectory` | `tools/inotify`, and the BU and kernel as its environment | directory and event queue |
| `RunDirectoryObserver` | `bu/RunDirectoryObserver.{h,cc}`, listing of `bu/bu.cc` | the observer, its threads and its requests; extends `RunDirectory` |
| `ObserverStatistics` | `struct Statistics` of `bu/RunDirectoryObserver.h` | the same steps with the counters they move; extends `RunDirectoryObserver` |
| `FileFlow` | - | abstract: what an observer promises |
| `RunDirectoryManager` | `bu/RunDirectoryManager.{h,cc}` and its callers in `main.cc` | the map, its lock, who owns an observer |
| `FileQueue` | the loops of `popRunFile` and `optimizeAndPushFiles` | what a pop returns, as one expression on the set of queued files |
| `FileBroker` | `main.cc` (`/popfile`, `/restart`), the systemd unit | pop, rename, retry, reply, crash and restart; uses `FileQueue` for its observers |
| `Delivery` | - | abstract: what the broker promises of each index file |
| `QueueLoops` | the same loops, a turn for each file | for comparison with `FileQueue` on what the broker reaches |
| `FileNames` | the file filter, `parseFileName`, `fileName`, the assertion of the listing, the extension of the rename | names of files; extends `FileBroker`, which takes a file for its name |
| `HttpSession` | `http/1.1/server/{session.hpp,listener.cpp,server.cpp}` | connections, the listener, sessions, their deadlines and the threads |
| `Exchange` | - | abstract: what a connection promises its client |
| `RequestTarget`, `RequestHandler` | `http/1.1/server/request.cpp`, `request_handler.ipp`, the web applications of `main.cc` | what a request asks for and what it is answered |
| `RequestMeaning` | - | the same, read the other way round, and the properties |
| `ArchivedServer`, `RequestParser` | `http/1.0/server/{server,connection,connection_manager,request_parser}.cpp` | the earlier server: acceptor, signals, connections, their manager, and the automaton that reads requests |
| `ArchivedReply` | `http/1.0/server/{request_handler,reply}.cpp`, `http/1.0/main.cpp`, `client/C++/http_client.cpp` | how the earlier server reads the same targets, what it answers, on the wire and as the client shows it; extends `RequestMeaning` |
| `RequestGrammar` | - | what a request is, line by line |
| `ObserverInvariant`, `ManagerInvariant`, `BrokerInvariant`, `SessionInvariant` | - | the inductive invariants |
| `MCRunDirectoryObserver`, `MCObserverStatistics`, `MCRunDirectoryManager`, `MCFileBroker`, `MCHttpSession`, `MCRequestHandler`, `MCArchivedServer` | - | instances for TLC |
| `FileInfo_proofs`, `RunDirectoryObserver_proofs`, `ObserverInvariant_proofs`, `RunDirectoryManager_proofs`, `FileBroker_proofs`, `HttpSession_proofs`, `ArchivedServer_proofs`, `RequestHandler_proofs` | - | theorems |

How they compose: `FileInfo` is used by all. `RunDirectoryObserver` is checked
in full detail and shown to implement `FileFlow`; `FileBroker` then takes an
observer to be what that establishes (it has every file of the directory from
its listing on, and a pop is atomic), which leaves room for several threads,
several observers and crashes. `FileQueue` says what such a pop returns, and
`QueueLoops` compares it with the loops. `RunDirectoryManager` justifies the
steps `Find` and `RestartObserver` of `FileBroker`. `HttpSession` leaves out what
a handler does: `ReplyLost` of `FileBroker` is a session of its own that ends
with `heard` behind `taken`, and `HandlerThrows` is the exception of
`RetryFails` and `Refused`. `RequestHandler` says which of the calls that `FileBroker` and
`RunDirectoryManager` begin with a request makes, and with which numbers.
`ArchivedServer` and `RequestParser` read requests, `ArchivedReply` answers
them.

### State and actions of `RunDirectoryObserver`

- `starter` is the progress of `start()`: the thread is created (line 364)
  before the two states are stored (367, 368), each store a step.
- `runner` is where the inotify thread is. Phase I: `AddWatch`, or
  `AddWatchFails`, which stores `run.state`, `FailFUState`, which stores
  `fu.state`, and `SetErrorMessage`; `ListBegin` and `ListEnd` (files that
  arrive during the listing are seen or not), `DrainRead`, `DrainEvent`,
  `DrainDone`. Phase II: `OptimizeSkip` or `OptimizePush` file after
  file, `OptimizeDone`, `CheckQueue`, `SetFUState`. Phase III: `ReadEvents`, `ProcessEvent`,
  `EndBatch`. `RunnerThrows` is a system call that fails and takes the process
  down.
- `popRunFile` holds the lock: `PopStops` or `PopBegin`, then one step per file
  of its loop (`PopMarker`, and `PopIndex` or `PopFindsNothing` to return). The
  loop is cut because the runner writes `stats.fu` without that lock.
  `PopFails` is one of the consistency checks failing, which ends the process;
  it happens in `observer_statistics`, where a marker is written too early.
- The vector and the priority queue are bags; "the first" is a file of least
  score. Sorting the vector is therefore part of the choice `OptimizeSkip` and
  `OptimizePush` make.
- `consumed` is a history variable: what was popped or skipped, and how often.

`ObserverStatistics` names each step again with the counters that move in it:
`CountListed` to `CountEvent` are the runner's, `Requested` to `CountGiven` those
of `popRunFile`; `Uncounted` are all the others. The runner counts an event
before it looks for its duplicate or takes the lock (lines 235 and 296), which is
a step of its own, `CountSeen`; `inHand` says that it is between that and
`CountDrained` or `CountEvent`. `served` is history.

The BU is modelled from what the code relies on: a marker (EoLS, EoR) is
written after everything that sorts before it is complete; index files come in
any order; a file is moved in, or written in place and closed later. Both are
in the watch mask (`IN_CLOSE_WRITE | IN_MOVED_TO`).

### State and actions of `FileBroker`

- The file system: `written` (by the BU), `dir` (still in the run directory),
  `moved` (in `fu/`), `fuDir` (`fu/` exists). It survives the process.
- The process: `up`, `observers` by age (1 is the first, the next is made by
  `/restart`), `current`, the one in the manager's map. `ListRun` is a runner's
  phases I and II; from then on `BUWrites` reaches the observer at once.
- A server thread: `pc`, the observer it `holds`, the `file` it popped, what its
  reply says (`last`). `Find`, `Pop`, then `renameIndexFile`: `Rename`, or
  `RenameFails` (a missing file or directory), `MakeFuDirectory` and `Retry`. Two
  exceptions end the process: `RetryFails`, a second time missing, and `Refused`,
  any other error of `rename()` or `create_directory()`, the first time already.
  `Reply` reaches the FU, `ReplyLost` does not.
- `Crash` ends the process between any two steps, `StartProcess` is systemd.
  `crashes`, `died` and `faults` count how it ended, `faults` the refusals among
  the deaths.
- `given`, `unheard` and `told` are history: what FUs have got and been told.
- Requests here have no `stopls`, and the run directory exists; both are cases
  of `RunDirectoryObserver`.

`FileNames` adds no state. A name is a record of what the file filter and
`sscanf` tell apart: two numerals, each with its value and its digits, the word
after `_`, a numeral behind it, a tail and an extension. `Matches` is the filter,
`parseFileName` and `fileName` the two conversions, `Listable` the assertion.

### State and actions of `RunDirectoryManager`

- `observers` is the map, `owner` who has the lock, `holds` the shared pointer
  of each server thread, `refers` the reference `getError()` returns. `freed`
  are the observers whose last shared pointer is gone: each step recomputes it
  (`Free`), as the destructors run where the last pointer is dropped.
- `runners` counts the detached threads of each observer; they own nothing.
- `Begin` is a request, `Lock` to `Unlock` the critical section of
  `getRunDirectoryObserver` or `restartRunDirectoryObserver` with the creation
  and `start()` in between, `Return` and `ReturnReference` the call into the
  observer. `/popfile` may go on to `getError`, `/restart` to `getStats`.

### State and actions of `HttpSession`

- A connection is in `backlog` until `OnAccept` makes its session or
  `OnAcceptError` finds it broken. `client`, `sent` and `ending` are the
  client's doing; it may send a request before the last is answered, which then
  waits in the buffer of the session, or something that is no request
  (`SendMalformed`), which Beast's parser refuses and which ends the session
  (`OnReadError`). It may stop reading (`StopReading`): a response then still
  fits into the buffers of the connection (`WrittenUnread`), or its write never
  completes.
- `op` is the operation that keeps the session alive: `read`, `handle` (in a
  thread, which it keeps), `write`, `written` (the response is out and
  `on_write` is to be called), `ended`.
- `timedOut`: the deadline of `do_read()` has passed during the read or the
  write, and the socket is closed. `Expire` is a handler of the timer and needs
  a thread like the others; a deadline that passes while the request is handled
  is seen when the write starts.
- `heard` and `taken` count replies and requests of each connection, `up` is
  the process.

### State and actions of `RequestHandler`

One request at a time, as the handlers share nothing but the manager. The
actions are the ways through `handle_request()`, in the order of its tests. A
text is a sequence of characters, with `popfile` or `runnumber` as one of them.
`beyond` is what the memory holds after the target, where `strtol()` may go on
reading. The vector `query_params_` is a set of pairs that know where they were
found, and `query()` takes the earliest; a piece of the target is a pair of
places. So nothing is selected from a sequence or folded over one, and the
definitions can be reasoned about place by place.

`RequestMeaning` reads a target the other way round: `Tokens` replaces each
escape by the character it stands for, marked as escaped, and its two digits by
nothing; `Meant` then splits at unescaped characters.

`ArchivedReply` adds no state. `archived_parse_uri` takes the query apart from the
front and refuses `..` itself; it reads a string of its own, which has ended where
the target has. `archived_handlers` are those that `http/1.0/main.cpp` registers:
this server was left as an example and has no `/popfile`. `to_buffers` is the
reply as a sequence of words on the wire (a phrase, a page and the number of
`Content-Length`, which no client looks at, are one word each). `http_get` is what
the client returns and has printed, given such a sequence or its beginning: the
headers, the content, and its exception.

### State and actions of `ArchivedServer`

- An asynchronous operation is pending, then finished with a result, then its
  handler runs: `accept` is that of the acceptor, `op` and `result` those of
  each connection. The two are separate steps because everything else may come
  in between: a signal whose handler (`OnSignal`) closes the acceptor and all
  sockets aborts what is pending only.
- `connections` is the set in `connection_manager`; `accepted` is `socket_` of
  the server, a connection between its acceptance and `OnAccept`.
- `ReadFinishes` puts a piece into `buffer_`, `OnRead` gives it to the parser.
  A parser is a state and whether a header has been read, which is what tells a
  continued header from a bad one. `consume` is the table of its moves.
- Characters are the classes that `consume` tells apart.

## 3. Runs

| Run | Instance | Shows |
|---|---|---|
| `observer_safety` | two lumisections (3 index files, 2 EoLS, EoR) moved in, batches of 2, requests without and with `stopls=1` | the inductive invariant; checks never trip, nothing lost, nothing twice, markers honoured, refinement of `FileFlow`; with fair threads every file is given out, and a runner that meets EoR in its main loop ends |
| `observer_statistics` | two lumisections (2 index files), one file written in place, the first EoLS written before the file it closes, a kernel queue of 2, three requests | nothing lost that was not dropped; a late file trips a check rather than be given out; the counters of files are off by the one file in the runner's hands and by no other, and those of requests balance |
| `broker` | two threads, two lumisections, one crash or refusal of the file system, one `/restart` in each life, fair threads | the inductive invariant; moved before given, given once; at most one file per thread stranded when the process ends; a rename kills the broker only when the file system refuses or after `/restart`; `lasteols` closes only what was taken; refinement of `Delivery`; every index file leaves the run directory; on every queue no file is late, and `FileQueue` is what the loops do on all subsets of eight files; names are found again |
| `manager` | two threads, two runs, one `/restart` | the inductive invariant; one observer and one runner per run; started when used; `emplace` succeeds; no thread locks twice; no deadlock |
| `http_session` | two connections, one thread; one request on one; two on the other, which may send what is no request or stop reading | the inductive invariant; replies match requests, refinement of `Exchange`; a reply is lost only with its connection; requests of a client that waits are answered; the session of a client that falls silent or stops reading ends |
| `requests` | every value of up to four characters, 17 paths, pairs of parameters | well escaped targets mean what they say; run numbers arrive as written or are refused; `..` is refused however it is spelled; the archived server reads a target in the same way, unless a broken escape goes on beyond it; the client shows a reply or a beginning of it, and fails exactly when the status line of an error has arrived |
| `archived_server` | two connections; a request with any one character replaced beside a silent connection, or two good ones, in pieces of 12 or 15; a signal | the inductive invariant; answered as the grammar says and once; the manager has every open connection; a signal ends the server |

Runs that find a disagreement between the code and what it says of itself:

| Run | Disagreement |
|---|---|
| `error_final` | `start()` overwrites NORUN or ERROR of a thread that was quick to fail |
| `eor_final` | a runner that finds files in its queue stores READY after FUs have popped them all and EoR: the run stays READY |
| `duplicates` | a file listed while open is handed out again after its close event |
| `stop_ls` | `stopls=2` and no data in lumisection 2: a file of 3 is returned |
| `manager_use_after_free` | `/restart` does not leak the old observer, as its comment says: it frees it under its runner |

More behaviours that the models show have no run of their own, as no line of the
code says otherwise or a run beside them says enough:

An observer that finds EoR in the listing does not stop: the state is tested
only after a read, and no event will come (`RunDirectoryObserver.cc:286`);
`EoREndsTheRunner` is stated for an EoR that arrives in the main loop once
`start()` has stored STARTING: a runner so fast that it gets EoR before that
store (line 367) has its `run.state` overwritten by it and never ends either.
And `/restart` can end
the broker of all runs: the new observer lists a file that a thread has popped
and not yet renamed, both rename it, and the loser's retry throws
(`main.cc:99`). `KilledOnlyByFaultOrRestart` says that without `/restart` only an
error of the file system itself, such as a denied access, does that.
`url_decode()` hands `strtol()` the rest of the buffer, not two digits
(`request.cpp:86`): `%2F` with a hex digit behind it, even one behind the end of
the target, becomes another character, and `%-1` or `% 1` are accepted. The
archived server has the target in a string, which ends there, and so reads
`/test%36` as it was meant, where the other may read on in Beast's buffer;
`ParsedAsBefore` says that they agree on every target whose escapes are whole, and
on every other one when no bytes follow it. And
`getParamUL()` checks an `unsigned long` that is then stored in an `int`
(`main.cc:143`): `stopls=4294967295` means no stopls, and `-18446744073709551615`
is 1. inotify checks no name against what will be written for it: a
`run1_ls1_index1.raw`, or an index file of another run, is queued, and the rename
or the assertion at `main.cc:183` ends the broker; in the listing the assertion
at `bu.cc:54` does. `nbOutOfOrderIndexFiles` misses an index file out of order
when a marker was processed in between (`RunDirectoryObserver.cc:299`), and a
request told to stop is in `nbRequests` but not in `nbEmptyReplies`. The C++
client returns 0 for a reply that was cut short, or that never came, and for an
error whose status line was cut short: it prints the exception and that is all
(`http_client.cpp:110`). `RepliesReadBack` says when it does.

Bounds. Observer: two lumisections with two and one index files are the smallest
run in which index files of one lumisection come out of order, a file of the
next lumisection overtakes an EoLS, and a marker is queued behind both. A batch
of 2 out of up to 6 events makes `read` split what is queued; an event queue of
2 drops events in every phase. `MaxRequests` = 3 in `observer_statistics` lets
one request wait, one be given a file and one be told to stop. Nothing in the code counts lumisections, so a
third adds states and no new case (`stop_ls` has three because its case needs
one). Broker: a file goes wrong between two threads, so two are enough; with
`MaxFailures` = 1 and `MaxRestarts` = 1 a file meets two processes, each with two
observers. `MaxRestarts` also bounds the observers of a process. The loops of `popRunFile`
are compared on all subsets of `TestFiles`, three lumisections with data and EoLS
in every combination. Names: `Numerals` has numbers with as many digits as are
written, with more, with fewer, negative ones and one beyond `Word` = 12. Manager:
`MaxRestarts` bounds the number of observers ever made (`Ids`); a second
`/restart` would have to meet the first, which the lock excludes. In `manager` a
step that uses freed memory goes on as if the memory were still there; what it
would do instead is the subject of `manager_use_after_free`.

Sessions: two connections compete for one thread, and the second of two requests
on a connection is the one that is sent ahead; more of either repeats this.
`MaxRequests` bounds what each client sends, and `Unruly` has those that may send
what is no request or stop reading: one of them, and one that they may harm. Requests: `Requests` is the set of
targets tried; with `MaxLong` = 63 and `MaxInt` = 7 an `unsigned long` has 7 bits
and an `int` 4, so that values of up to four characters lie on both sides of every limit, among them numbers that are
refused as out of range, as negative, and that wrap. `Contents` has contents
that begin or end with empty lines, which a client could take for the end of the
headers; every reply is cut at every word.

Archived server: the two connections meet only in the manager. 27 characters are
a request line, a header, its continuation and the end; `PieceSizes` cuts them
within a line, before a line and between `\r` and `\n`. A replaced character
(one of seven) spoils the request at every place, or not.

The process may die and a run ends, so deadlock is checked only in `manager` and
`requests`, where there is always something to go on with.

Fairness. Observer: the operating system schedules threads, the BU finishes its
run, FUs keep asking. Two steps need strong fairness because they wait for the
observer's mutex: the runner's push and an FU's request. The mutex is free again
after every pop, and FUs ask over the network, between requests. Broker: the
same, every server thread goes on with the request it has, and systemd starts
the process again (`Restart=always`). No fairness is assumed of failures,
refusals, crashes, lost replies, `/restart`, nor of requests with `stopls`. Sessions: the
queue of the io_context is served in turn, request handlers return and deadlines
pass; a handler that is ready may find the thread taken again and again, and
still gets it, which is strong fairness. Clients may do nothing; in particular no write to one that has stopped reading is
fair, so that only the deadline ends it. Archived server: the one
thread goes on with handlers that are ready, and the kernel accepts, sends and
reports broken connections. The manager
has no liveness property, and requests end in one step.

## 4. Proofs

Observer theorems hold for every set of files the BU may write, every size of
the event queue, of the read buffer, and all widths of the score that satisfy
`WidthAssumption`; broker theorems also for every finite set of server threads
and every number of crashes, refusals and restarts, manager theorems for every finite set
of threads and runs, session theorems for every set of connections and number of
threads and requests, those of the archived server for every set of connections
and of texts over its classes of characters, those of requests for every set of
methods, targets and contents and every width of `int` and `long`, the latter
being the wider. The constants are assumed to be
what the code takes for granted, no more: numbers of lumisections that an `int`
holds (`MaxLumiSection < Word`), indices that do too, fields at least one digit
wide.

- `ScoreOrder`, `ScoreInjective`: the score orders files as intended, and two
  files never share one.
- `TypeCorrect`: type correctness of the observer, also with files written in
  place.
- `LateFilesStay`: whatever the BU writes, in place or too early, and whatever
  the kernel drops, no index file is given out behind the EoLS of its
  lumisection. `LateInv` says that `fuLastEoLS` is no smaller than any EoLS
  consumed. While the runner skips markers this needs their order, and that the
  queue is empty, so that FUs cannot have moved `fuLastEoLS` meanwhile.
- `RequestsCounted`: `RequestsAccountedFor` for any number of requests, by
  induction over the steps of `ObserverStatistics`; it needs only the types of
  the counters.
- `FilesCounted`: `FilesAccountedFor` for every run, with files written in place
  and events dropped, also while the runner waits for the lock with a file that
  it has counted. The size of a bag is the number of its copies, pairs of a
  file and a number (`CopiesOf`), which is finite as files are
  (`FileInfosFinite`); `SizeFacts` says what a push and a removal do to it.
- `InvariantHolds`: the inductive invariant `IInv` (module
  `ObserverInvariant`), for runs whose files are moved in (`InPlace = {}`) and
  whose markers come in time (`Early = {}`). The properties are not inductive by
  themselves: that no check trips at a pop depends on the order in which markers
  entered the directory, the kernel queue, the vector and the queue. `Directory`
  says that markers come after what they close, `Events` that inotify keeps
  this, `Order` that a marker the runner has taken is ahead of everything still
  announced, `Frontier` that a consumed marker is ahead of everything still to
  come; `Once` counts copies; `Meaning` ties the statistics to what was
  consumed; `Kept` is nothing lost. From it follow `ChecksNeverFail`,
  `FilesHandedOutOnce`, `LumisectionsComplete`, `RunComplete` and `NoFileLost`.
- `RefinesFileFlow`: with a kernel queue that has room for all files, every
  step of the observer is a step of `FileFlow` or leaves it unchanged.
- `ManagerInvariantHolds`: `MInv`. `Mutex` and `Creating` say what the thread in
  the critical section knows, `Starting` that an observer in the map is started
  or is being started by it, `Permanent` that without `/restart` nothing leaves
  the map, and `Counted` that observers are made only for runs without one, so
  that their number stays within the runs and the restarts. From it follow
  `EmplaceNeverFails`, `LocksOnce`, `UsedOnceStarted`, `SingleRunner`, and, for
  a manager nobody asks to restart, `NothingUsedAfterFree`.
- `BrokerInvariantHolds`: `BInv`, which has three parts. `HandingInv` is
  inductive by itself (`HandingHolds`): `Exclusive` says that between the rename
  and the reply a file belongs to one thread and nobody has been given it, the
  rename decides; `OneObserver` that as long as a run has one observer, a
  popped file is still in the directory and in one thread's hands, so that its
  rename finds it missing only for want of `fu/`. `Directory` says that
  what was written is in the run directory or in `fu/`, that markers come after
  what they close, and that no queue has a file behind its `lasteols`;
  `Closing` that in the first process what an observer has closed, what a reply
  says and what FUs were told is in `fu/` or in the hands of a thread. From the first
  follow `BrokerImplementsDelivery` and `KillsOnlyByFaultOrRestart`, from the last
  `ToldIsTaken`; `BrokerTypeCorrect` is the type invariant.
- `EndsStrandFew`: `FewStranded`. Every step but the end of the process leaves
  no file stranded that was not (`WhoStrands`), and that end strands at most what
  is in the hands of threads, one file each (`OneFilePerThread`).
- `ScoreIsTheOrder`, `PopsAreTheLoops`, `RenamedAsRead`: what `broker` checks of
  helpers. The expressions of `FileQueue` satisfy the equations of every turn of
  the two loops, for every queue and not only for the tested ones; the number
  printed with leading zeros and the one read back are the same numeral.
- `SessionInvariantHolds`: `SInv`. `InStep` says that a client that reads has
  heard all replies but the one that is being made, `Broken` that a session that
  ended before that reply had a reason. From the latter follows
  `RepliesAreLostWithTheConnection`, from the former `SessionImplementsExchange`:
  the next request is taken only when the last is answered or nobody waits.
- `ConnectionsAccounted`: `CInv` of the archived server. That the manager has
  exactly the open connections needs to know of those on their way that they
  are fresh, and of those that are aborted that the manager has let them go:
  their handler does not call it. `NoConnectionForgotten` follows.
- `PiecesDoNotMatter`, `AnswersByTheGrammar`: `AnsweredByTheGrammar` for every
  text and every way to cut it. `IsReading` is the sequence of states in which
  the automaton goes through a text; that it exists and is what `parse()`
  computes piece after piece is an induction over places, done with sets of
  them (`AllPlaces`), as the induction rules of the library take an operator.
  `Form` says of each state what the text up to there looks like in the words
  of `RequestGrammar`: in `header_name`, whole lines and the beginning of a
  name. `MoveForward` shows that every move of the table leads from form to
  form, `MoveBack` that every text of a form comes from a form by a move of the
  table; so the forms and the states agree at every place (`ReadingIsGrammar`).
  `OnceHolds` adds that a connection is answered after its parser has decided,
  and `ServerTypeCorrect` that the types hold.
- `DecodingComesLast`: `DecodedAfterSplitting`. `Handled` is the invariant of
  requests: a reply is what `handle_request()` makes of the request at hand, so
  that the rest is about one target. `DecodeIs` gives the equation of each turn
  of `url_decode()`, `EscapeIs` that a whole escape is read as its two digits,
  `LiveAdds` and `DeadAdds` how the characters of a view grow by one place.
  From these `DecodedChars`, by induction from the end of a view: decoding a
  view gives the characters of its tokens, if no escape is cut off by it.
  `WholeView` says that none is, as neither a view that begins nor one that ends
  at a separator can be inside an escape: separators are no hex digits.
- `RunNumbersAsSpelled`, `RequestsTyped`: `RunNumbersArrive` and its `TypeOK`.
  `DecimalIs` and `NegativeIs` say what `strtoul()` makes of digits and of digits
  behind a `-`; `SpelledArrives` and `NegativeRefused` follow them through the
  two conversions. The types need nothing of the escapes.
- `DotsRefused`: `DotsAreRefused`, from the same reading of the path.
- `ParsesAsBefore`: `ParsedAsBefore`. The archived server takes pairs from
  the front (`PairsFromFront`), the other cuts at all places at once; by
  induction from the end they find the same (`QueryParamsAre`). This holds for
  broken escapes as well, as long as nothing follows the target in the buffer;
  when something does, for whole escapes, which end within the target
  (`NothingBeyond`).
- `RepliesAreReadBack`: `RepliesReadBack`. `WireIs` says which word is where in
  a reply; the first blank line is at the same place for every content
  (`Arrived`), so that one in the content is not taken for the end of the headers
  (`ClientReads`). `BeginningIs` says that what is shown of a reply cut short is
  the headers and as much of the content as has come.

Left to TLC: liveness; the refinement when events are dropped; and of files
written in place and of markers written early the properties that are not named
above (`HandedOutOnce` is false of the former). Every invariant and every action
property that a run checks is otherwise a theorem, `NoConsistencyFailure`,
`EoLSMeansComplete` and `EoRMeansDrained` for files moved in and markers in time.

## 5. Not modelled

- Logging, the text of pages: nothing depends on them. Of the counters those of
  `read()` calls, of all names and of files out of order. (`getStats()` of all
  runs reads the size of the map without the lock, `RunDirectoryManager.cc:27`,
  and every counter without that of the observer; only a statistics page can show
  it.)
- `stopAndWait()`, `isRunning`, `stopRequest`: no caller. (It would wait while
  `isRunning` is false: return while the thread runs, and hang once it has ended.)
- Numbers in names that an `int` cannot hold, which `sscanf` leaves undefined:
  they wrap, as they do with glibc.
- The memory model: a racy read sees a value that was stored. `state` and
  `lastEoLS` are aligned words; `errorMessage` is only "set" or not.
- How Boost.Beast parses HTTP messages: a session gets a request or a refusal; the command line, opening the listener.
- Of the HTTP 1.0 server: debug output and `mime_types`, which only code that is
  commented out uses. The Python clients leave reading a reply to a library.
- `tools/synchronized`: only its own test uses it, no state of it is one of the
  broker.

## 6. Plan

1. Done: `FileInfo` and names, inotify, the observer and its counters, the
   manager, the broker, sessions, requests, the HTTP 1.0 server with its replies
   and the client that reads them; their invariants and refinements.
2. Proofs: done for every invariant of the observer, the manager, the broker,
   sessions, requests and the archived server. Left is the refinement of the
   observer with a queue that overflows in a weaker `FileFlow`.
