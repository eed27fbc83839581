# TLA+ models of the SkyWalking PHP agent

The agent is a PHP extension written in Rust. It hooks function calls of PHP
scripts, makes spans of them, and hands finished segments over a unix socket to
a worker process, which sends them to the SkyWalking OAP server. This directory
holds TLA+ modules of its parts, the configurations under which TLC checks
them, and proofs of their main properties for the TLA+ proof system.

Paths below are relative to the repository; line numbers of every definition
are in the `map` of `PROJECT.json`.

## 1. Inventory

| Component | State | Operations | Modelled by |
|---|---|---|---|
| Reporting client (`src/channel.rs`) | `OnceCell<Mutex<UnixStream>>` | `report`, `channel_send` (two `write_all`s per item) | `Reporting` |
| Worker: accept, receive, channel (`worker/src/lib.rs`, `worker/src/channel.rs`) | one task and one partial frame per connection, an mpsc channel of 255 items | accept, `channel_receive`, `try_send`, heartbeat, stop | `Reporting` |
| gRPC reporter (`worker/src/reporter/reporter_grpc.rs`) | endpoint, connection, one collect call | `connect` with retry, consume, collect | `Reporting` |
| Worker lifecycle (`src/worker.rs`, `worker/src/lib.rs`, `worker/src/main.rs`) | processes, signals, the socket file | fork, prctl, bind, `select!`, `WorkerExitGuard` | `WorkerLifecycle` |
| Requests of Swoole (`src/request.rs`, `src/context.rs`, `plugin_swoole.rs`) | `REQUEST_CONTEXT`, `SWOOLE_RESPONSE_STATUS_MAP`, `ORI_SWOOLE_ON_REQUEST` | callback replacement, init, status hook, shutdown | `SwooleRequests`, `RequestTracing` |
| Requests of PHP-FPM (`src/request.rs`, `src/context.rs`) | the context at the key `None` | RINIT, RSHUTDOWN | `ExecuteHooks`, `RequestTracing` |
| Execute hooks and observer (`src/execute.rs`) | `RESULT_MAP`, native frames | `execute_ex`, `execute_internal`, `observer_begin`, `observer_end` | `ExecuteHooks` |
| Plugin selection, PSR-3 (`src/plugin/mod.rs`, `plugin_psr3.rs`) | `HOOK_MAP` | selection at the first call, level hooks | `PsrLogging` |
| curl plugin (`plugin_curl.rs`) | `CURL_HEADERS`, `CURL_MULTI_INFO_MAP` | setopt, exec, close, multi add, remove, exec, close; copy and reset without a hook | `CurlPlugin` |
| PDO plugin (`plugin_pdo.rs`) | `DSN_MAP`, `DTOR_MAP`, the class's handler table | construct, methods, prepare, `dtor` | `PdoPlugin` |
| Redis plugin (`plugin_redis.rs`) | `PEER_MAP`, `FREE_MAP`, the handler table | construct, connect, commands, `redis_dtor` | `RedisPlugin` |
| Memcache plugin (`plugin_memcache.rs`) | `PEER_MAP` with locked shards | add server, close, commands | `MemcachePlugin` |
| mysqli, Memcached, Predis, MongoDB, AMQP plugins (`plugin_mysqli.rs`, `plugin_memcached.rs`, `plugin_predis.rs`, `plugin_mongodb.rs`, `plugin_amqplib.rs`, `style.rs`) | none of their own; the client objects and messages they read | one span per call, its peer, the sw8 header of a message and the serialized properties that keep it | `DriverPlugins` |
| Module start and configuration (`src/module.rs`, `src/lib.rs`) | enabled or not, socket path, tracer, hooks | `init`, reload | `AgentStart` |
| Kafka reporter | that of rdkafka | produce | its end only, in `WorkerLifecycle` |
| Helpers, build scripts | | conversions | where a module needs them |

How they interact. A call of a hooked function runs `ExecuteHooks`; its before
hook is one of a plugin, chosen by `PsrLogging`'s selection, and finds the
request's context by a key: `None` in PHP-FPM, the fd of the connection in
Swoole. The end of a request drops the context, the segment goes through
`Reporter::report` into the socket, and the worker carries it on. Requests and
calls share nothing with the worker but the bytes in the socket and the socket
file; plugins share nothing with each other but the context. That is why most
modules can be checked alone. The module start is different: the path it draws
is what PHP processes and worker meet on, so `AgentStart` contains
`WorkerLifecycle`.

What is hard in it:

* several processes write to one worker, which may be stopped, killed and
  started again between any two writes, while the server comes and goes;
* the worker is forked, signalled, bound and cleaned up in steps between which
  a signal or the death of the master may fall;
* Swoole handlers are coroutines: requests of one connection may overlap, and
  process-wide maps are keyed by the fd;
* hook data is kept under the address of a VM frame, an object handle or a
  resource id, all of which PHP uses again;
* exceptions, fatal errors and failing hooks skip the step that cleans up;
* a start that gives up leaves the agent enabled with half of its parts, and a
  reload starts again while the old workers live;
* the server a call goes to is known only to the client library, which connects
  lazily, fails, and reconnects;
* in PHP-FPM most maps outlive the request.

Every place where one of these bites is listed with its line under `hazards` in
`PROJECT.json`, with the properties that would catch it.

## 2. Modules

Each module has its constants with a named assumption, one action per handler,
`Next`, `Spec`, `TypeOK`, and its properties at the end. `MC<module>` gives
instances for TLC (`MCMemos` of `MemcachePlugin` and `PsrLogging`,
`MCDatabases` of `PdoPlugin` and `DriverPlugins`; `ExecuteHooks` needs none),
`<module>_proof` the theorems. Definitions that say what the code would be with
a typical mistake (`ReceiveSizeTimeout`, `CollectRetry`, `InjectHooked`, ...)
stand before the definition they vary; no specification uses them. They are
there to see that a property fails when the code is wrong.

### Reporting, LossyReporting

`Report` is `Reporter::report` up to the connect, `WriteSize` and
`WriteContent` the two `write_all`s of `channel_send`; `wire[p]` holds the
writes not read yet and is bounded by `SockCap`, so that a write blocks.
`Accept`, `ReceiveSize`, `ReceiveContent`, `ReceiveEof` are the accept loop and
the tasks it spawns, `TrySend` the bounded channel, `Beat` the heartbeat,
`CreateEndpoint`, `Connect`, `Consume`, `Collect` the reporter, `Start`,
`Stop`, `Exit`, `Kill` the worker. `stream[p]` is the cell in the PHP process:
it is filled once and keeps a broken stream. `logged` collects the items of
which some error log speaks.

`LossyReporting` is what the path promises: items may be lost, but those that
arrive are reported ones, each once, in the order of their source. The
refinement maps `reported` to `sent` and `delivered` to `oap`.

### WorkerLifecycle

A worker goes from fork (or from its start by hand, for members of
`Standalone`) through `Prctl`, `InstallHandlers`, `Bind` to serving, and out by
`TakeSignal`, `ReporterFails`, `DropGuard`, `Exit` or `SigKill`. `signal[w]` is
a pending SIGTERM, `armed[w]` the parent death signal, `sock[f]` whose file is
at a path. Before the handlers are installed a signal ends the process where it
stands; the exit guard exists from then on, and a bind that fails drops it too.
`UnknownType` is the child that finds a reporter type it does not know.

### AgentStart

The master's side: `ForceAndCheck` is `init` up to `init_worker` (the path is
forced before the checks that may return), `InitWorker` the fork, which may
fail, `SetTracer` the rest. The master may die after any of them. `Reload` is a
reload of PHP-FPM, which runs the same process anew with another configuration,
while the workers of the starts before live on. `PathOfStart` is the time stamp
in microseconds that makes the path of each start a new one. The workers are
those of `WorkerLifecycle` (`WorkersNext`), a forked one or standalone ones
depending on the reporter type.

### SwooleRequests

`Register` is `hack_callback`, `Arrive` and `Return` the two halves of
`skywalking_hack_swoole_on_request` around the callback, `SetStatus` is
`Response::status` with its hook, which keeps the code before the method may
refuse it, `SetStatusUnhooked` is `setStatusCode` or `redirect`, `PluginCall`
any span made below the handler. Requests may begin on a connection whose last
response has ended while its handler goes on, and a handler may return before
its response ends, which another coroutine then holds. `route` is the callback
that was registered for the last request, `served` the one that was called. The
init of any request may fail. Three variables only record: `overlaps` the
connections on which a handler was overlapped, `leaks` those on which an init
failed or a `status()` came after its handler, `misheard` the requests whose
last code the hook has not heard of, or has heard of although it was refused.

### ExecuteHooks

`stack` is the VM stack; the depth of a call stands for the address of its
frame. `Observed` and `Wrapped` say which way a function is hooked, as
`register_observer_handlers` and `register_execute_functions` decide. `Call` is
`observer_begin` or the first half of `execute_ex`/`execute_internal`, `Return`
the second, for a return or an exception. A before hook makes a span, makes
none and still succeeds (`curl_setopt` and others: span state "bare", then
"done"), which needs no context, or fails. `Bailout` is a fatal error, after
which the engine ends observed calls, while native frames are jumped over
(`lost`). The context of the request is made by `RequestInit`, which may fail,
and dropped by `RequestShutdown`.

### RequestTracing

What both kinds of requests promise of their segments. A request has a context
once (`Begin`) or never (`Refuse`); spans are added while it has one
(`AddSpan`); the context goes when the request ends (`Finish`) or another one
takes its place (the set `others` of `Begin`), and the segment is reported. It
follows that a reported segment is final (`Final`).

`SwooleRequests` and `ExecuteHooks` implement it. Swoole: `Open` are the
requests whose context is at some fd, `Over` those with a reported segment or a
failed init, and a span is named by the handler it was made below. There the
promise is not obvious: a request that overlaps drops the context of another
one on the connection, the return of that one's handler finishes the context of
the newcomer, and its plugin calls go to whatever is at the fd or nowhere.
PHP-FPM: requests are numbered, only the last can have a context, and a span is
named by its call; a shutdown that kept the context would give the spans of the
next request to a request that is over.

### PsrLogging

Its definitions are prefixed (`PsrInit`, `PsrNext`, `PsrSpec`, `PsrTypeOK`),
because its theorems stand beside those of `ExecuteHooks`, whose calls run the
hooks it selects. `HookOf` is `select_plugin_hook` with its memo `HOOK_MAP`,
`Select` the PSR-3 plugin's `hook`. A class name stands for a logger with
methods of its own, a subclass of `AbstractLogger`, a logger that inherits all
its methods from another class of the scripts (`base`), or a plain class,
declared anew in each request. The hook is selected for the class that declares
the method. A level method inherited from `AbstractLogger` runs `log` of the
class, so a call runs up to two hooked functions. `Fits` has the calls that
cannot be reported: a level for `log` that is no string, and a bad message.

### CurlPlugin

`headers` is `CURL_HEADERS`, `info` the entry of `CURL_MULTI_INFO_MAP`, `wire`
the list libcurl has. `Inject` is `inject_sw_header`: it takes the script's
headers out of `CURL_HEADERS` and sets them with sw8. `CurlCopy` and
`CurlReset` are `curl_copy_handle` and `curl_reset`: the plugin has no hook for
them (`plugin_curl.rs:90`), so `wire` changes and `headers` does not.
`MultiExec` is one `curl_multi_exec` with its before and after hook, in which
any transfers may end, whatever the call returns. `first` records whether the
script has set the headers since the last injection.

### PdoPlugin, RedisPlugin

Objects have handles that PHP uses again. The plugin replaces `dtor_obj`
(`free_obj`) in the handler table of a class and keeps what was there per
object; from the second object on that is the plugin's own function. `calling`
and `depth` follow the chain of calls. PDO entries are handed on to statements
by `Prepare`; `Skip` is an object that goes without its destructor.

### MemcachePlugin

`Command` locks the shard and calls `getExtendedStats`, `Ask` is that call
going out to the servers the object has by then, `Stats` stores the answer,
`AddServer` takes the entry out and then waits for the connect. `AddUnhooked`
stands for `pconnect`, `memcache_connect`, `memcache_pconnect`. A coroutine
that needs a locked shard blocks the thread: another one (`Block`), or the one
that has locked it, when PHP code that `getExtendedStats` runs uses Memcache
(`Callback`). `old` records the handles whose kept names may be those of
before.

### DriverPlugins

Prefixed as well (`DriverInit`, `DriverNext`, `DriverSpec`, `DriverTypeOK`),
since its theorems stand beside those of `PdoPlugin`, the database plugin with
state of its own. The plugins that keep nothing between calls, in one module,
since they are one idea: make a span before a method, find out its server, end
the span after. A call is one step with both hooks in it; `last` is what the
call left. What changes between calls, and what the plugins depend on, is the
state: links that are connected and lost (`MysqliConnect`, `MysqliQuery`),
pools to which servers are added (`MemcachedCall`), managers whose driver finds
its servers in the calls (`ManagerCall`), and tables of headers that messages
share (`Publish`). A peer is the set of the addresses in it.

Two conversions matter. `PeerByThis` is the host of the host info, which has no
port, with 3306 behind it; for a unix socket that is `Localhost:3306`. And a
message keeps its serialized properties (`cached`) until one of its properties
gets a new value: `AMQPTable::set` on the headers it has is no such thing, so
`Serialized` may be older than the headers. `gone` are the messages that have
gone out with the headers they have.

## 3. Runs

| Run | Instance | Properties |
|---|---|---|
| `reporting_safety` | 2 processes, 2 items each, heartbeat of 1, channel of 1, socket of 3 writes, 2 worker starts, one undecodable item | `TypeOK`, `FramesAligned`, `NoSilentLoss`, `ImplementsLossy` |
| `reporting_live` | 2 processes, 2 items each, channel and socket of 1, one worker start | `ReportReturns`, `Settles` |
| `worker_ends` | 2 module starts with a forked worker each, or 2 standalone workers on one path; 2 SIGKILLs, 2 SIGTERMs | `NoSocketLeft`, `OwnWorker`, `SignalEndsWorker`, `StandaloneHeals`, `ReporterMeetsWorker` |
| `worker_orphan` | 2 forked workers | `WorkerFollowsMaster` (violated) |
| `swoole_contexts` | 2 connections; 3 requests with one code and callback, or 2 with 2 codes and 2 callbacks | `NoOrphanContext`, `ReportedOnce`, `ReportsOwnStatus`, `SpansOwn`, `ServedByLatest`, `ImplementsTracing` |
| `hooks` | user functions observed, internal ones wrapped; 2 requests, 4 calls, depth 3 | `ResultsMatchFrames`, `AfterOnceIfBefore`, `SpansClosed`, `SpanWithinRequest`, `ImplementsTracing` |
| `curl` | 2 handles, 2 header arrays, 2 requests | `FirstTransferHasHeaders`, `OneTraceHeader`, `MultiSpansKept` |
| `redis_handles` | 2 handles, 4 objects, 2 servers | `CommandsKnowServer`, `FreedTakesEntry`, `FreeEnds` |
| `memos` | 2 coroutines, 2 objects, 2 servers; then 2 class names, levels 1 and 2, all thresholds | `AskedOnce`, `ServersNamed`; `NoneBelow`, `LoggersReported` |
| `psr_any` | that of `memos` | `AnyLoggerReported` (violated) |
| `memcache_blocks` | the first half of `memos` | `CallsReturn` (violated) |
| `databases` | PDO: 3 handles, 4 objects, 2 data sources. Clients: 1 link, pool and manager, 2 servers on one host and a unix socket, 2 items. AMQP: 2 messages that may share a table, 3 published spans | `SpanNamesOwn`, `EntriesGoWithObjects`, `DestructionEnds`; `PeerIsServer`; `HeaderOfOwnSpan` |

Why the bounds are enough for the cases that matter:

* **reporting.** One channel slot makes the channel full with two sources,
  three writes let a socket hold the end of one frame and the start of the
  next, and a socket of one write makes every write block on the reader. The
  second start of a worker is the one that finds streams of the first. The
  undecodable item comes first, so that a frame follows it.
* **worker.** Two workers on a path are needed for one to find the file of
  another; with two signals and two kills every step of a start can be cut
  twice. Two paths that can be drawn give a start and one reload, so that the
  worker of the first start is there when the second forks its own. The smaller
  instance of `worker_orphan` is enough for its counterexample.
* **swoole.** Three requests let one overlap, one fail its init and one follow
  them on the connection, and the second connection shows that the maps keep
  connections apart. Contexts and spans do not depend on codes and callbacks,
  so the third request comes only where there is one of each (`MCSpec`). Two
  codes make a wrong one differ from the right one, two requests leave one
  behind for the other, and two callbacks, registered in any order between
  requests, let one replace the other.
* **hooks.** Depth 3 has a wrapped call above and below an observed one, four
  calls use an address again; the mixed mode has both ways of hooking at once.
* **databases.** PDO objects, clients and messages share no state but the
  context, so in `MCDatabases` each moves while the others rest. For PDO, three
  handles let a statement outlive its connection and be followed. For the
  clients, a call is one step and depends on what earlier steps left of one
  client object; two servers let it connect, fail and connect elsewhere, and
  let a port of chance differ from the right one, and a host differs from the
  user anyway. One of them is not on 3306. Two messages and a table of the
  script are the least that share headers, and three spans let a message go out
  again with and without new headers.
* **curl, redis, memcache.** Two handles meet in a multi handle or in the lock;
  objects outnumber handles, as in PDO, so that handles are used again.
* **memos.** The maps that remember for the life of the process, `PEER_MAP` of
  Memcache and `HOOK_MAP`, share no state, so in `MCMemos` each moves while the
  other rests where it starts. For loggers, two levels have one below, at and
  above each threshold; two names let one class inherit from the other, and
  separate what is remembered of one from the other.

`MaxItems`, `MaxBeats`, `MaxStarts`, `MaxKills`, `MaxTerms`, `MaxRequests`,
`MaxCalls`, `MaxDepth`, `MaxObjects` and `MaxSpans` are bounds of the model,
not of the code; the proofs hold for all their values. Runs that stop at such a
bound do not check for deadlock. In `memos` the system really stops, see
below.

Symmetry is used over handles, requests, servers, messages or class names in
safety runs only, where no property names one of them.

### What the runs show beyond "it holds"

Three statements of the repository do not hold:

* `worker_orphan`: "Ensure worker process exits when master process exists."
  (`src/worker.rs:49`). If the master dies between `fork` and `prctl` in the
  child, the parent death signal never comes, the parent is not checked again,
  and the worker serves for ever.
* `memcache_blocks`: "The components of the PHP-FPM ecosystem can also be used
  in Swoole regardless of the flag `SWOOLE_HOOK_ALL`." (`README.md:42`). Under
  that flag `getExtendedStats` gives the thread to other coroutines with the
  shard of `PEER_MAP` locked (`plugin_memcache.rs:277`). The first of them
  that needs the shard blocks the only thread that could unlock it.
* `psr_any`: the log level "works by hooking into any PHP `LoggerInterface`
  implementation that follows the PSR-3 standard"
  (`docs/en/configuration/report-log.md:33`). The class asked for the interface
  is the one that declares the method (`execute.rs:300`), so a logger that
  inherits its methods from a class without the interface is never hooked.

Other behaviour of the code that a reader may not expect is part of the models,
and the properties say exactly where it starts:

* the status of a Swoole response whose request failed its init stays in the
  map and is reported for the next request of the connection (`request.rs:211`;
  `ReportsOwnStatus` excepts the connections in `leaks`);
* a code that `status()` refuses, because the response has been ended, is
  reported, and one that comes by `setStatusCode` or `redirect` is not
  (`plugin_swoole.rs:138`; `ReportsOwnStatus` excepts `misheard`);
* overlapping requests of one connection replace each other's context
  (`ReportsOwnStatus` and `SpansOwn` except `overlaps`); even then no context
  is orphaned and no segment reported twice;
* the surrounding function calls the callback that was registered *last*
  (`plugin_swoole.rs:103`), so with two servers in a process the requests of
  the first go to the second; `ServedByLatest` says that it is never an older
  one;
* the headers of a script are lost at the second `curl_exec` of a handle
  (`plugin_curl.rs:407`; `FirstTransferHasHeaders` speaks of the first one),
  and a handle id that is used again without `curl_close` finds the old ones;
* a copy made by `curl_copy_handle` loses the headers it inherits at its first
  traced transfer, and a handle after `curl_reset` gets the old ones back
  (`plugin_curl.rs:90`; excepted by `first`);
* PHP code that `getExtendedStats` runs and that uses Memcache itself (a
  failure callback, an error handler) waits for the lock its own coroutine
  holds, if both objects are in one shard (`MemcachePlugin`, `Callback`), in
  PHP-FPM too;
* the names of Memcache servers grow old when one is added without a hook
  (`plugin_memcache.rs:100`), when an object is freed and its handle used
  again, or when they are looked up during a connect (`ServersNamed` excepts
  `old`);
* `HOOK_MAP` keeps the decision for a class name for the life of the process
  (`plugin/mod.rs:94`); `LoggersReported` speaks of names that kept their
  meaning (`Steady`);
* a call of `log` with a level that is no string, as a Stringable, makes the
  hook fail and is not reported (`plugin_psr3.rs:110`, `Fits`);
* a PHP process whose worker is gone never connects again: the cell keeps the
  stream, and later items are logged as lost (`Reporting`, `stream[p] =
  "broken"`);
* of the objects of a PDO or Redis class only the first has the original
  `dtor_obj` or `free_obj` called; the recursion it would otherwise be ends
  because the entry is taken out first (`DestructionEnds`, `FreeEnds`);
* a start with an unknown reporter type or a failed fork goes on: requests are
  traced and there is nobody to report to (`worker.rs:33`);
* after a reload the worker of the start before lives on, connected to nobody
  (`worker.rs:39` has a TODO for it); `ReporterMeetsWorker` says that the new
  PHP processes do not report to it;
* a `mysqli_connect` that fails is named after the *user* in its span, because
  the procedural style takes its first parameter for the link (`style.rs:43`),
  and a port that was not passed is read from the VM stack all the same
  (`plugin_mysqli.rs:229`; `PeerIsServer` excepts such connects as `Guessed`);
* after a connect the span has the host of the host info and 3306, also for a
  server on another port, whose port the parameters had, or a unix socket
  (`plugin_mysqli.rs:222`, where line 112 expects it to "be more precise";
  `PeerIsServer` excepts such servers as `Portless`);
* the `...ByKey` methods of Memcached are never hooked, since their lower-case
  names are looked up in a table in camel case (`plugin_memcached.rs:173`,
  `Hooked`); Predis connections without a host are not traced, and those of a
  cluster are named "unknown:0" (`PeerIsServer` excepts `Vague`);
* a mysqli statement that is not UTF-8, or an AMQP message that throws, breaks
  the hook off after the span is made: the span ends at once, and the message
  goes out with the sw8 it had before (`HeaderOfOwnSpan` speaks of hooks that
  ran through);
* an AMQP message that is published again goes out with the sw8 of the first
  publish if its headers are the same table, since it keeps its serialized
  properties (`plugin_amqplib.rs:163`; `HeaderOfOwnSpan` excepts `again`).

## 4. Fairness

* `Reporting`: weak fairness of the two writes and of each connection's task
  (threads run, ready tokio tasks are polled, and the receive tasks are spawned
  before `run_reporter` is awaited), of the reporter's steps, of `Exit`, and of
  `Stop` once the reporter has ended (`select!` returns). `Connect` and
  `Collect` are fair in that the call returns, not in that it succeeds;
  `Settles` assumes a server that stays up. Nobody has to report, to start or
  stop a worker, or to bring the server up.
* `AgentStart` and `WorkerLifecycle`: a process that can run runs, a pending
  signal is taken, and whoever runs a standalone worker restarts it. No
  fairness of `Fork`, of signals from outside, or of the death of the master;
  in `FairStartSpec` the master owes nothing at all, so `ReporterMeetsWorker`
  holds of starts that stop half-way and of masters that die.
* `MemcachePlugin`: a call that waits for a server returns, by the answer or by
  the client's timeout.

The other modules state safety only; their specifications have no fairness.

## 5. Proofs

All theorems hold for every value of the constants that satisfies the module's
assumption; none of the bounds above enters.

**Reporting_proof** (assumptions: `ReportingAssumption`, `NoItemAssumption`).

* `TypeCorrect`: `TypeOK`, with the channel within `Capacity` and sockets
  within `SockCap`.
* `FramesStayAligned`: `FramesAligned` is not inductive, because it says
  nothing of the writes behind the first one. `WireInv` adds, per process, the
  shape of the stream (what is in the socket when it is closed or was never
  accepted), that sizes and contents of the same item alternate, and that the
  last write is the one the process did last.
* `DeliversInOrder`: the refinement. `OrderInv` says of each source that items
  it has been through the wire with are passed on once and in order: what is
  downstream of the socket (channel, call in progress, server) is increasing
  per source and below what is still in the wire. A collect call is then a
  `Deliver`, a report a `Report`, everything else stutters.
* `LossIsLogged`: `NoSilentLoss` with the invariant that before the first start
  nothing is in any socket; each step that takes an item out of one place puts
  it into the next or into `logged`.
* `WritersNeverStuck`: what can be proved of `ReportReturns`. An open stream
  always has a worker at its end that has yet to accept it or reads it in a
  task (`Attended`), so a write that waits for room waits for a step whose
  guard holds. That the step is taken is fairness, and that no later write of
  the same frame waits for ever is left to TLC.

**WorkerLifecycle_proof** (also `StartAssumption`).

* `LifecycleTypeCorrect` and `LeavesNoSocket`: `NoSocketLeft` is inductive
  together with the type invariant, since the only step out of "returning" is
  the drop of the guard.
* `StartIsLifecycle`: the module start implements the lifecycle, because its
  steps are steps of `WorkerLifecycle` or leave its variables alone; with it
  `StartLeavesNoSocket` holds of the composition.
* `ReportsToOwnWorker`: `OwnWorker`, the safety half of `ReporterMeetsWorker`.
  Every worker was forked with a path that was drawn, and a start draws one
  that was not; so the worker with the path of this start is its child, and
  the workers of earlier starts are on other paths (`ChildKnown`). The model
  takes two time stamps in microseconds for different, as the code does.
* `OnlyPrctlIsLate`: the complement of the run `worker_orphan`. A worker whose
  `prctl` came before the death of its master has its signal after it, so the
  race between `fork` and `prctl` is the only way to outlive the master.

**SwooleRequests_proof** (`SwooleAssumption`).

* `SwooleTypeCorrect`, `NoContextOutlives`, `ReportsOnce`: the invariant adds
  to `NoOrphanContext` that a context in the map has not been reported and that
  a request that has not arrived has neither begun nor been reported. A
  shutdown takes out whatever is at its fd, so the context of `r` is never left
  there when the handler of `r` returns.
* `SpansGoHome`: a connection outside of `overlaps` has one handler at most
  (`Alone`), and a context belongs to a handler, so a hook finds that of its
  own.
* `StatusIsOwn`: for connections outside of `overlaps` and `leaks`, and
  requests outside of `misheard`, `HandlerSound` says that the handler's
  context is in the map and the status there is the one its application gave,
  `DoneSound` that a request that is done was reported with its code and can
  change it no more, and `NothingLeft` that no status waits for the next
  request.
* `LatestServes`: the callback in `ORI_SWOOLE_ON_REQUEST` is the last one that
  was replaced (`OriginIsLast`), so a request that is not served by its own is
  served by one that was replaced after it.
* `SwooleTraces`: the refinement. It needs `NoOrphanContext`, that a context in
  the map has not been reported, and that a connection has its context in one
  place (`OpenIs`). Then `Arrive` is a `Begin` in the place of the context that
  was at the fd, or a `Refuse`; `PluginCall` is an `AddSpan` to the request at
  the fd; `Return` is a `Finish` of the request at the fd, whoever that is, or
  a stutter; the rest stutters.
* `SwooleSegmentsFinal`: what follows from it alone. A segment that was
  reported gets no span any more, and its request no context.

**ExecuteHooks_proof**: `HooksTypeCorrect`, `DataOfOwnCall`,
`SpansStayInRequest`, `HooksPairUp`, `EndedSpansClosed`, for every setting of
the observer. The invariant says that data in `RESULT_MAP` belongs to the call
at that depth and that this call is hooked and observed, so that its
`observer_end` will look for it; that calls with data were traced in the
request that runs; and that outside a request there are neither calls nor a
context. `HooksInv` adds that the data of a running call is where its kind
keeps it (in the map or in a native frame) and its span open, and that every
open span is that of a running call or of one a fatal error has jumped over.
`HooksTrace` is the refinement of `RequestTracing`; besides the invariant it
needs `Untraced`, that calls still to come have made no span, so that a call
adds just one.

The same module has the theorems about `PsrLogging` (`PsrAssumption`):

* `NoneReportedBelow`: a call runs up to two hooked functions, and the hook of
  each may have been selected long ago. `HooksSound` says what a remembered
  hook proves: the threshold is not Off and the method is `log` or one of its
  levels; `CallReports` follows a call through its hooks with it.
* `LoggersAreReported`: `NoHooksSound` is its counterpart for a remembered
  refusal, and `StandsKnown` ties what a name stands for to what it has stood
  for; with one kind known, both memos were made of this kind.

**PdoPlugin_proof**: `PdoTypeCorrect`, `NamesOwn`, `EntriesGo`, `DtorEnds`,
from an invariant that says, per handle, whose data source its entry is and
which destructor is kept for it, and how far the chain of destructors of a
dying object has gone.

The same module has the theorems about `DriverPlugins`
(`DriverAssumption`): `PeersAreServers`, `HeadersAreOwn`. They speak of the
last call; what has to be shown, per client library and kind of call, is that
the address the hook reads (before or after the call, from the object, the host
info, the parameters or the channel) is the one the step goes to, or that one
of the named exceptions applies, in every state of the links, pools and tables.
For the sw8 the invariant `KeepsOnlyGone` is needed: a message with headers
keeps serialized properties only if it has gone out with just these headers.

**RedisPlugin_proof**: `RedisTypeCorrect`, `ServersKnown`, `FreeingEnds`,
`EntryFreed`. `Dying` says of the object that is freed that it is gone from the
living ones, that `redis_dtor` has found itself at most once, and that the
original `free_obj` runs before any construction or when the entry has been
taken.

**CurlPlugin_proof**: `CurlTypeCorrect`, `HeaderIsOne`, `HeadersGoOut`,
`SpansAreKept`. The properties of the headers are not inductive: they speak of
what was sent. `HeadersOf` says of what will be sent that no sw8 is ever among
the remembered headers, that libcurl's list has one at most, and that both
lists are the script's until an injection takes them out. `InjectOnto` is the
lemma of `inject_sw_header`.

**MemcachePlugin_proof**: `MemcacheTypeCorrect`, `AsksOnce`, `ServersAreNamed`.
Who waits for an answer holds the lock; a server is being added to an object
only if its names are not kept or are known to be old; what is kept for a
handle without an object is old.

Only model-checked: liveness (`ReportReturns`, `Settles`, `SignalEndsWorker`,
`StandaloneHeals`, `ReporterMeetsWorker`), since the prover has no rule for
fairness and ENABLED; of `ReportReturns` and `ReporterMeetsWorker` the safety
halves above are proved. Every safety property that a passing run checks is
proved.

## 6. Left out

* Data: the layout of segments, tags, operation names, log formatting, TLS and
  authentication, the parser of data source names (it accepts or fails), the
  tables of commands and methods beyond one or two of each kind.
* Read errors of the worker other than the end of a stream; a script that forks
  after its first report and shares the stream.
* The requests of a start that gave up. They have no hooks and no tracer; the
  panic for the want of one, and `catch_unwind_result` which ends it, change
  no state of the agent.
* mysqli hosts with a colon in them (IPv6), in whose host info the plugin takes
  the colon for that of a port.
* Frames of coroutines a Swoole handler makes with `go()`: hooks find no
  request there and trace nothing.
* Scripts that end with a curl multi handle in use: `CURL_MULTI_INFO_MAP` then
  holds values of a request whose memory is gone, and what a later use of them
  does is not defined. Several multi handles, whose entries do not meet.
* The Kafka reporter: its queue and retries are in a library. Only its start
  and end are part of the worker's life.
* Reading of ini values, the logger, build scripts.

## 7. Plan

Done, in this order: `Reporting` with its abstract specification;
`WorkerLifecycle`; `SwooleRequests`; `ExecuteHooks`; `CurlPlugin`; `PdoPlugin`;
`RedisPlugin`; `MemcachePlugin`; `PsrLogging`; `DriverPlugins`; `AgentStart`;
the proofs of section 5.

Open, in order of weight:

1. A module that composes requests with reporting: the `Finish` of
   `RequestTracing` is the `Report` of `Reporting`, while the worker restarts.
   Today `Report` takes any item at any time and so has all the behaviours of
   the composition; the module would say that what the server receives are
   segments that are over.
2. Frames of coroutines without a request.
