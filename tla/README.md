# Verification of the Wakanda server

The repository is the core of a server that opens a *solution* (a set of web
applications, called *projects* in the code), serves each application over
HTTP, and runs the applications' JavaScript in pooled contexts.  The code that
decides how the server behaves is in `Server/Sources/` (C++) and
`Server/Resources/SSJS/Modules/` (the services and the network clients, in
JavaScript).  This directory holds TLA+ models of that code, the TLC
configurations that check them, and proofs checked by TLAPS.

Contents: [inventory](#inventory), [plan](#plan), [modules](#the-modules),
[runs](#runs-and-bounds), [proofs](#what-is-proved),
[divergences](#where-the-code-and-its-comments-disagree),
[limits](#what-is-not-modelled).

File names below are relative to `src/`; `PROJECT.json` maps every definition
to its lines.

## Inventory

| Component | State it keeps | Operations | What makes it correct |
|---|---|---|---|
| **JavaScript context pool** `VJSContextPool` (`Server/Sources/VRIAServerJSContextMgr.cpp`) | used and unused contexts, the count of reusable ones, enabled flag, the event of those who wait for "none used" | `RetainContext`, `ReleaseContext`, `SetEnabled`, `Clear` | a context belongs to one thread; the counter equals what it counts; nothing leaks; who waits for the pool to be empty is woken, and not too early |
| **Application contexts** `VRIAContextManager` (`VRIAServerProjectContext.cpp`) | the set of registered `VRIAContext`, the event of those who wait for it to be empty | register, unregister, wait | every registration is released in the end; the wait is a barrier |
| **Catalog reload** `VRIAServerProject::ReloadCatalog` (`VRIAServerProject.cpp`) | `fDatabase`, `fContextCreationEnabled`, the enabled flags of the pools | stop the creation of contexts, drop the contexts of the whole solution, wait, close and reopen the database | nobody uses the database that is closed; the reload ends; the flags come back |
| **HTTP sessions** `VRIAHTTPSessionManager`, `SetUAGSession`, `RetainJSContext` | the map of sessions, the session each pooled context remembers, the cookie of each client | find by cookie, make a default session, login, logout, expire | a script runs in a session of its own client; a cookie handed out is found again |
| **Solution** `VRIAServerSolution` | the collection of applications, `fApplicationsMutex`, the state of opening and starting | open, start, stop, close, `DropAllJSContexts`, `GetApplications` | a stop or a start returns; nobody waits on a mutex held by who waits for him |
| **Server application** `VRIAServerApplication` | the current solution, `fSolutionMutex`, the queue of the main task | open and close a solution by messages, data-cache flush | between two messages one solution runs or none is open, however an opening or a start failed; the flush chains do not multiply without bound; a message comes to its end |
| **Application lifecycle** `VRIAServerProject` | the state of an application, its HTTP server, its handlers | `Open`, `Start`, `OnStartup`, `OnStop`, `Stop`, `Close`, HTTP start with retries | what `Start` installs, `Stop` removes, also after a failure half-way |
| **RPC and data services** `VRPCService`, `VDataService` | their request handlers, under a mutex each | `SetEnabled`, `SetDatabase` | handlers are installed together or not at all; no handler uses a closed database |
| **JavaScript services** (`services.js`, `dataStore.js`, `webApp.js`, `rpc`) | the states of the services in the storage of the application | handlers of the application's messages | a service's state follows the last message, whatever contexts run concurrently |
| **SMTP and POP3 clients** (`waf-mail`) | a protocol state per connection, the unread bytes, the callback of the pending command | connect, send a command, read replies cut anywhere, force close | `true` is returned only for what the server has done; nothing is deleted that was not read; the call returns |
| everything else | request data or constants | handlers, file access, settings, wrappers, pages | see [limits](#what-is-not-modelled) |

How they interact:

* A **request thread** calls `RetainJSContext` of its application: it looks its
  session up in the session manager, retains a context from the pool, sets the
  session of the context, runs the script, and calls `ReleaseJSContext`, which
  gives the context back and the cookie to the client.
* A **new context** is attached to the solution: one `VRIAContext` per
  application is registered with this application's context manager and may
  hold a base context on its database.  It lives as long as the JavaScript
  context, that is, also while this one is at rest in the pool.
* **Administration** (`Stop`, `ReloadCatalog`, `DropAllJSContexts`) disables a
  pool, waits for the used contexts, destroys the unused ones, and restores the
  flag.  `ReloadCatalog` then waits for the application contexts as well.
* The **services** get messages (`applicationWillStart`, `catalogWillReload`,
  ...): a message is the call of a function in a context that is created for it
  and not reused.
* The **mutexes** in the way are `fPoolMutex` (one per pool),
  `fApplicationsMutex` (solution), `fReloadDatabaseMutex` (application),
  `fSolutionMutex` (server).  The flags `fEnabled` and
  `fContextCreationEnabled` are read and written outside of all of them.

What is hard: tests of a flag outside the mutex that protects what the flag is
about; events that are created by who waits and dropped by who wakes; a wait
inside a mutex that the awaited thread needs; a pooled context that brings its
past with it; messages that arrive after the state they are about has changed;
replies cut at any byte.  `PROJECT.json` lists these hazards line by line with
the property that would catch each, or the reason why none does yet.

## Plan

The order is that of importance: 1 to 3 are the path of every request and the
operations that stop it, 4 is what owns them, 5 what they tell the services, and
6 the clients that scripts run.

| # | Module | Composes | Abstract specification | State |
|---|---|---|---|---|
| 1 | `JSContextPool`, `JSContextPoolProofs` | `ZeroGate` (refined) | `ZeroGate`: wait until a set is empty | checked and proved |
| 2 | `CatalogReload`, `CatalogReloadProofs` | pools of all applications, context managers, solution, reload | `ZeroGate`, per application | checked and proved |
| 3 | `HTTPSessions`, `HTTPSessionsProofs` | session manager, pool, runtime context, clients | - | checked and proved |
| 4 | `SolutionLifecycle`, `SolutionLifecycleProofs` | server application, solution, applications, main task, data-cache flush, requests | - | checked and proved |
| 5 | `ServiceStates`, `ServiceStatesProofs` | JavaScript services, `VRPCService`, `VDataService`, start, stop and reload of an application | - | checked and proved |
| 6 | `POP3GetAll`, `POP3GetAllProofs`, with `CRLFLines`, `CRLFLinesProofs` | client, socket and server | - | checked and proved |
| 7 | `SMTPSend`, `SMTPSendProofs`, with `CRLFLines`, `CRLFLinesProofs` | client, socket and server | - | checked and proved |

What could follow: the design-time file watcher; the authentication delegate,
once the lock of a session's storage is described.  The MySQL client is left out: see [limits](#what-is-not-modelled).

## The modules

### `ZeroGate`

The abstract specification of both handshakes: a set of members, and per waiter
a gate that is `out`, `in` (closed) or `open`.  The gates of all waiters open in
the very step that empties the set and stay open when the set fills up again.

### `JSContextPool`

One pool and its threads.  A step is what one thread does between two points
where another may interfere: a whole `fPoolMutex` section is one step, and every
piece of code outside the mutex is a step of its own.

| Model | Code |
|---|---|
| `RetainContext` | the reads of `fEnabled` and `fContextReusingEnabled`, outside the mutex |
| `TakeUnused`, `FindNoUnused` | the first section: search of an unused context; contexts whose included files have changed are discarded on the way |
| `CreateContext`, `CreateContextFails` | `_RetainNewContext`, outside the mutex |
| `RegisterContext` | the second section: used, and reusable while the limit allows |
| `ReleaseContext`, `DestroyContext` | the section of `ReleaseContext` with the unlock of the event, then `_ReleaseContext` outside of it |
| `ClearSavesState`, `ClearDisables`, `WaitForNumberOfUsedContextEqualZero`, `ClearWakes`, `ClearSweeps`, `ClearRestores` | the steps of `Clear` |
| `SetEnabled`, `IncludedFilesChange` | other threads, and the file system |

An event object is modelled by its name and may be allocated again when nobody
refers to it.  `awaited` is a history variable: the uses in progress when a
`Clear` looked.  The list of required scripts of a pool and the worker callbacks
are left out: no property is about what a script contains.

### `CatalogReload`

The pools of all applications, the context managers, `fApplicationsMutex`, the
request threads and the reloads.  A pool keeps what the reload sees of it;
`JSContextPool` has the rest.  The steps of `RetainContext`, `AttachSolution`
(one test of `fContextCreationEnabled`, one registration and one
`RetainDatabase` per application), `ReleaseContext`, `DetachSolution`, and of
`ReloadCatalog` with `DropAllJSContexts` and `Clear` inside, are the code's, in
its order.  A message posted by the reload is run by a thread of the reload's
own, in a context that is not reusable; a disabled pool loses the message.

Merged into one step, and why nothing is lost:

* `_SetContextCreationEnabled(false)` and the read of the pool's flag in
  `SetEnabled(false)` (`DisableContexts`; the write is `DisablePool`), and the
  write of the two saved flags (`RestoreContexts`): the flag of the creation has no
  other writer, since `fReloadDatabaseMutex` serialises the reloads of one
  application.  The pool's flag has one, the `Clear` of any reload of the solution,
  so every read and every write of it is a step of its own, in `Clear` too
  (`ClearSavesState`, `ClearDisables`, `ClearRestores`);
* `DetachSolution`, and the deletion of one context in a sweep, unregister from
  all applications at once: each reload waits for the set of one application;
* the look of `Clear` that finds no used context and the step to the sweep.

Approximations: whether a released context is kept is nondeterministic, up to
`MaxKept` per pool (the limit and the marks are `JSContextPool`'s); the pool of
the solution itself and the data service's handler are left out; a script asks
for applications at most once; the JavaScript data-store service is the one the
build registers.

### `HTTPSessions`

Clients with their cookies, request threads, the map of the session manager, the
contexts with the session each remembers, and the storage objects.
`RetainSessionFromCookie`, `RemoveSession`, `TakeContext`/`NewContext`,
`MakeDefaultSession`, `UpdateContext` and `RetainJSContextEnds` are the steps of
`RetainJSContext`; `ReleaseJSContext` and `ReleaseContext` those of the release.
`SetUAGSession` has two parts, since the storage is handed over before the
property `sessionStorage` of the context is set, and a login adds its session
to the map in between.

`CUAGSession` and the directory are external: the model takes from their use in
`Server/Sources/` that a session is a default one or not, owns a storage, may expire, and
remembers its last context by address.  An address may be that of a destroyed
context, or of a new one made at the same place.  A response may be lost; a
retain may fail when the pool is disabled.  `MakeDefaultSession` and
`AddSession` are one step, because the new session is known to nobody else in
between.  The authentication delegate, and the lock of the session storage that
`ReleaseJSContext` forces open, are not modelled: both are external classes.

### `SolutionLifecycle`

The main task with its messages, the current solution with its applications, the
two mutexes, and the requests.  The three levels of a stop or a start are three
variables: `main` (what is done with the solution), `todo` (the applications
the loop has left) and `step` with `subject` (what is done with one application).

| Model | Code |
|---|---|
| `OpenSolutionAsCurrentSolution`, `CloseCurrentSolution`, `FlushDataCache` | the messages of the main task: `_OpenSolutionAsCurrentSolution`, `DoQuit` with `_CloseCurrentSolution`, `_FlushDataCache` |
| `Stop`, `StopNext`, `StopEnds` | `VRIAServerSolution::Stop`, with `SetDataCacheFlushEnabled(false)` first |
| `StopApplication`, `ClearEnds` | `VRIAServerProject::Stop`: HTTP off, pool disabled, `Clear` |
| `Close`, `CloseNext`, `CloseEnds` | `VRIAServerSolution::Close`, with its early return |
| `CloseApplication`, `DrainEnds` | `VRIAServerProject::Close`: no more contexts are created, the wait for those registered, the pool is deleted |
| `ReleaseSolution`, `OpeningFails` | the ends of the two messages, with the default solution asked for, and the server told to quit when the first opening failed |
| `OpenSolution`, `OpenSolutionFails` | `VRIAServerSolution::OpenSolution` and `_Open` |
| `Start`, `StartApplication`, `StartGoesOn`, `OnStartup`, `FailedToStart`, `StartEnds` | `VRIAServerSolution::Start`: both loops, each with the stop of an application that fails, inside `fApplicationsMutex` |
| `Request` ... `ReleaseContext`, `DetachSolution` | a request thread: the pool's sections, and the registration with all applications |
| `UseDeletedPool`, `ReleaseWithoutPool` | the same thread after its application was closed |
| `AskApplications`/`GetApplications`, `AskSolution`/`IsCurrentSolution`, `QuitAsynchronously` | what a script may call: `solution.applications` and `getApplicationByName`, `solution.close`, `solution.quitServer` |

A closed solution is forgotten: the variables describe the one that is open, and
`gone` the threads still inside an application of a former one.  `leaked` are
registrations of contexts that nobody can release any more: those kept in a pool
that is deleted, and those of a context whose request ends after its pool.
`crashed` records that a deleted pool was used, which is undefined: the program
may stop there, or go on.  `openings` counts, so that runs are finite.

Merged: the two sections of `Clear` (the wait and the sweep), because
`JSContextPool` has them; the registration of one context with all applications,
because `CatalogReload` has it step by step; the messages to the services, which
are `ServiceStates`'.  `CloseCurrentSolution()`, the message, has no caller in
the source: only `DoQuit` calls the function behind it.  A solution that a
script opens beside the current one, for maintenance, is not modelled: the
current one is asserted to be opened for running.

### `ServiceStates`

The states of the services in the application's storage, the native services,
the request handlers of the HTTP server project, and the threads that handle
messages: the main task (start, stop) and request threads (reload, HTTP start,
scripts that call `start()` or `stop()`).

| Model | Code |
|---|---|
| `Post`, `MessageEnds` | `_PostServicesMessage`: one context per message; a disabled pool gives none and the message is lost |
| `LoadContext`, `InitializeContext`, `SaveContextReads`, `SaveContextWrites` | `_loadContext` and `_saveContext` of `dataStore.js`, `rpc.js` and `webApp.js`: each read and each write of the whole item is a step |
| `Enable`, `Disable`, `RPCHandlers`, `TestEnabled` | `SetEnabled` of the native services, with any handler refused, and the test of `enabled` behind it |
| `Start` ... `StartEnds`, `Stop` ... `StopEnds`, `StartHTTPServer`, `StopHTTPServer` | the application's operations, each with the messages it posts |
| `ReloadCatalog` ... `ReloadEnds` | `ReloadCatalog`: database off, pool off, pool restored, database on, messages |

`mishaps` is a history of what an invariant excuses: two threads at work on one
service, a write of older states over newer ones, a message lost in a disabled
pool, a refused handler, a service enabled during a stop or a reload.

### `POP3GetAll`, `SMTPSend`, `CRLFLines`

One call of `getAllMail`/`getAllMailAndDelete`, and one of `send`, from the connection
to the return.  `Receive` is the socket's read callback: it takes any prefix of
the bytes that have arrived, runs the reader (`readData`) as the code does, cuts
and all, and, when the response is complete, the callback of the command
(`Callback`), which sends the next one.  `Answer` is the server, which may refuse
any command; `Close` the loss of the connection; `Return` the end of the wait.
`CRLFLines` has what both readers share: bytes to lines and back.  `Join` and
`Split` are recursive functions, so that they can be reasoned about.

Bytes are abstracted to the pieces the readers tell apart.  `mishaps` records the
cuts that the readers cannot cope with (`Tears`, `Cuts` name them) and refusals.
Some of the `Tears` make `getAll` fail or wait; two of them change only what the
caller gets: a chunk that ends inside a line end, which then stays in the line, and
one that ends in a line of two dots, which then stay two (`readData` looks for them
only in lines that begin and end in one chunk).  `IsRead` compares the text of a
message up to its stuffed dots, which is what "read to its end" asks for; `Content` is
what the caller should get, line by line.  Mailboxes hold the lines as they are
stuffed; only the single dot is undone, by the code and in `Content`: a line of text
behind a dot, sent with two, is handed out with two, and nothing promises otherwise.
A step that throws in a callback leaves the client where it was: the event loop
behind `wait()` goes on.  LIST, TOP, UIDL, NOOP, RSET, APOP and `starttls`, which
only users of the low-level clients call, are not modelled.

## Runs and bounds

| Run | Instance | What it shows |
|---|---|---|
| `pool_safety` | 2 users, 2 `Clear`, 3 contexts, 2 events, limit 1, flag switched both ways | counter exact, contexts exclusive, none leaked, no wake-up lost, `Clear` is a barrier, the handshake refines `ZeroGate` |
| `pool_liveness` | 2 users, 1 `Clear`, 3 contexts, limit 1, flag only switched off | `Clear` returns; a disabled pool drains |
| `catalog` | 2 applications, 1 reload, 1 request thread, 4 contexts, 1 kept per pool | the wait for application contexts is a barrier and refines `ZeroGate`; no registration is orphaned; the flags saved by the reload and by the `Clear` inside it come back; only scripts that ask for applications, and stale contexts, hold up `DropAllJSContexts`; only an orphaned context keeps the reload |
| `sessions` | 2 clients, 2 requests, 3 sessions, 2 contexts | scripts run in sessions of their own client, cookies are registered |
| `solution` | 2 requests, 2 applications, 2 openings | nothing of a former solution is left open; a stopped pool has only late contexts; every message of the main task ends, unless one of two named waits holds it up |
| `services` | the main task, 1 request thread, the RPC and data services | stored states, native services and handlers agree; no handler on a detached database; a pause is resumed; a stop leaves nothing enabled; with named exceptions |
| `pop3` | mailboxes of 0 to 3 messages, with dots where they matter, and a line that looks like an answer | `true` means all read, with the lines that were sent but for two named cuts, and deleted as asked; nothing is deleted unread; messages are deleted and `false` returned only when the server failed or a first line was cut; the return, and what prevents it |
| `smtp` | 0, 1 and 2 recipients, replies of one to three lines, texts that look like replies | the content goes only to a server that waits for it; `true` exactly when the mail was taken; the return, and what prevents it |
| `pool_assertion`, `pool_restore`, `catalog_database`, `sessions_storage` | as small as shows it | one divergence each, see below |

Why the bounds suffice for the interesting cases:

* two users and three contexts with a limit of one: a context in use, one at
  rest and one above the limit exist at once; two `Clear` share, replace and
  miss each other's event; two events allow a new one while an old one is still
  slept on;
* two applications: the context of a request of the other application holds a
  registration on the reloaded one.  Four contexts: one kept in each pool, the
  request's and the message's;
* two requests of the same or of different clients overlap in every way; a third
  session appears by login, logout, or a request after an expiration; two
  contexts make a request choose between its preferred and another;
* two openings: a solution replaces another one, or the default one one that
  failed, and what is left of the first meets the second.  Two applications: one
  fails while the other's HTTP server already runs, and a context is registered
  with both.  Two requests: one waits for a mutex while another one is late;
* two services, one of which starts by itself, and one request thread: a message
  of the main task and one of the thread, or a script, overlap in every way;
* three messages: `RETR` and `DELE` alternate with a first, an inner and a last
  one.  Their lines end in a dot, are a dot, say "+OK", or none of these.  Two
  recipients: one that is not the last.  Replies of three lines: a first line, which
  may be pending, one behind it, which may be dropped in part, and one that ends.

Bounds that are part of a module: `Contexts` and `Events` (objects that may
exist at once; a thread that finds none free waits), `MaxKept`,
`SessionsLeft` in `HTTPSessions` (a request starts only if a session is left for
every request under way; `Done` is then an allowed stutter), the single
look-up of a script in `CatalogReload`, and in `SolutionLifecycle` `Opens` and
one kept context per pool (whether a context is kept is free, so the limit of 50
is not told apart from a limit of one).  The run `services` follows a behaviour
up to the first state that was written wrongly (`Bound`): the properties say
nothing of what comes after it, except `TypeOK` and `HandlersMatch`, which are
proved for all.  Without this constraint the run passes too, with 18 million
states; so do three services, or two request threads, with it.

**Symmetry** is used in `pool_safety` and `sessions`, which have no liveness
property.

**Fairness.**  In the liveness runs, a thread inside a call of the pool or of
the reload keeps its turn (weak fairness per thread): the operating system
schedules it, a mutex that is free again and again is granted, and a script ends
(the code has no time-out for scripts and assumes the same).  Starting a
request, switching the flag and editing files are never fair: they may never
happen.  `pool_liveness` lets other threads only disable the pool, which is what
`VRIAServerProject::Stop` does; if someone enabled it during the `Clear`, the
used contexts might never be none.

In `solution` the main task, once it has begun a message, and every request keep
their turns; a script ends, that is, it is not for ever at liberty to release its
context without doing so (strong fairness of the release alone, since it may ask
for something in between).  Requests, messages and what scripts ask for are not
fair.  In `pop3` and `smtp` the connection is made, bytes arrive and the server
answers; it is not fair to the loss of the connection, the shutdown, or to any
particular answer or cut.

**Deadlock** is checked in the runs of the pool, the sessions and the services.  It
is not in the `catalog` runs: `DropAllJSContexts` may be held up for
ever; in `solution`: the main task may be held up, and a crash ends a behaviour;
in `pop3` and `smtp`: a wait has no time-out, and a call that has returned is
over.  In each, the liveness property says in which cases only the system stops
short of its end.

## What is proved

For every number of threads, applications, reloads, clients, sessions, openings
and events, any of the three services, every limit and, in the pool, every finite set of contexts.

**The pool** (`JSContextPoolProofs`).  Assumption: `PoolAssumption`
(contexts are finite, the null pointer is none of the objects, the limit is a
natural number).  The properties are not inductive as they stand: that the
counter is exact needs to know that a context being registered is not yet
reusable; that a wake-up is not lost needs to know that the pool's event is
never an unlocked one and that it exists only while contexts are used.  `IInv`
adds this:

* `PlaceInv`: each live context is at exactly one place;
* `CountInv`: the counter is the cardinality of the reusable contexts and within
  the limit;
* `EventInv`: a clearer sleeps on the pool's event while the uses it waits for
  are still used, or on an unlocked one when they are over.

`CountStep`, `TypeStep` and their companions show one part each, with a step per
action; `Invariance` puts them together; `TypeCorrect`, `ExactCount`,
`WithinLimit`, `Exclusive`, `NoLeak`, `WakeupNotLost` and `ClearBarrier` draw the
properties from it, and `GateRefinement` proves that the handshake implements
`ZeroGate`.

**The reload** (`CatalogReloadProofs`).  Assumption: `CatalogAssumption`.  The
run `catalog` has one reload, since two with a request are too many states; the
theorems hold for any number of them, in any set of applications.  `ReloadInv` adds to the properties:

* `HoldInv`: a JavaScript context is in the hands of one thread or at rest in one
  pool.  Without it, the unregistration of one context could be that of another;
* `LoopInv`: the context that `AttachSolution` has just registered is still
  registered when it takes the base context;
* `RegistrationInv`: a registered context is placed, in a pool or with a thread;
* `WaitInv`: a reload that sleeps has registrations left to wait for and still
  waits only for registered ones; one that is woken waits for none; no reload
  starts to sleep already woken.

There is one lemma per part.  Steps that test a flag are first reduced to what
they change (`ChecksCreationDoes`, `ReleaseContextDoes`, `ClearRestoresDoes`).
`ReloadTypeCorrect`, `ReloadBarrier` and `RegistrationsHeld` follow, and
`ReloadGate` proves that the wait implements `ZeroGate` for every reload.
`SwitchesRestored` proves `SwitchesAreRestored` for any number of reloads, of any
applications, that overlap in any way.  Its invariant, `SwitchInv`, says of each
application (`SwitchOf`) which saved value stands for a flag: the one of the reload
while it has the flag disabled; and, of the reload and the `Clear` that both have the
pool disabled, the one that writes last has saved TRUE, unless the pool was crossed.
`ClearsAlone`, that `fApplicationsMutex` admits one loop of `Clear` at a time, is
needed because two `Clear` of one pool would save each other's flag, as `pool_restore`
shows where nothing keeps them apart.

**The sessions** (`HTTPSessionsProofs`).  Assumption: `SessionAssumption`.
`SessionInv` adds to the properties who owns what: a request holds only sessions
of its client (`OwnerInv`); from `UpdateContext` to the release the context it
holds remembers such a session (`ContextInv`); and the session manager knows
every session on its way to a cookie (`KnownInv`).  The last is needed because a
cookie is written long after the session was found: in between the session may
expire and be removed, but only an expired one is ever removed.  The theorems
`SessionTypeCorrect`, `OwnSession`, `CookiesAreRegistered` and
`ExclusiveContext` follow.

**The solution** (`SolutionLifecycleProofs`).  Assumption: `LifecycleAssumption`.
That nothing is left open between two messages (`OnlyCurrentIsOpen`) is not
inductive: a `Close` returns early when the solution, or one application, is still
started, so one must know at every place of the main task what is started by
then.  `IInv` adds:

* `MainInv`: for each place of `main`, what of the solution is open and started,
  and that an application the loop has left behind is done, or in hand;
* `StepInv`: the application in hand exists; one that is cleared has no HTTP
  server; what serves is started and what is started is open;
* `FlushInv`: each flush message was posted for an opening of its own, which
  bounds the chains of flush messages by the openings;
* `LateInv`: a request in a pool that is cleared, or in a deleted one, was inside
  `RetainContext` when the pool was disabled.

Requests and the main task are separate: `RequestFrame` says what a request leaves
alone, and each part of `IInv` has a lemma for a request's step and one for the
main task's, with a case per action.  `LifeTypeCorrect`, `OnlyCurrentLives` and
`StoppedPoolsAreUnused` follow.

**The services** (`ServiceStatesProofs`).  Assumption: `ServicesAssumption`.
`HandlersMatch` is inductive with the types: `HandlersDiffer` says that no two
services share a handler, `HandlersStep` that each enabling or disabling moves the
service and its handlers together.  `StatesAgree` needs `HandInv`, which says when a
thread has a service in its hand, and `AgreeInv`: as long as nobody collided or
overwrote a state, each service is in one hand at most, and its thread *knows*
the stored state it read before it enabled or disabled the native service.
`KnowsFrame` and `TouchAgrees` show that a step of another thread keeps this.
The theorems are `TypeCorrect`, `HandlersAreMatched` and `StatesAreAgreed`.

The other three are about the order of messages.  `OrderInv` (`MessagesAreOrdered`)
says which message a thread is in at each place; the rest is one invariant for each
property, and each holds until one of the mishaps it excuses is noted:

* `DatabaseInv`: while the reload tells the services, the data service is off or its
  pause is still pending; from then until the database is opened again it is off;
* `StopInv`: the same of a stop and of every service, until the next start;
* `OwedInv`: a paused service is owed a resume, by the next start of the HTTP server,
  by the end of the reload, or by a message under way.

What they share are `PostTurnsOff` and `HandleTurnsOff`: a service that is on when a
pause or a stop is posted is told of it, and is turned off before the thread has done
with it.  A thread skips a service only because of its stored state, so both need
`AgreeInv`; a message that is not posted at all is noted as lost if it would have
changed a state.  `DatabaseIsFreeOfHandlers`, `StoppedServicesAreOff` and `PausesEnd`
follow.

**The lines on a connection** (`CRLFLinesProofs`).  `Join` and `Split` are recursive
functions; nothing can be said of one before it is known that a function with its
equations exists.  `Induction`, `SeqInduction` and `Recursion` derive what is needed,
for a set instead of a predicate, from the well-foundedness of `<`: a function that
goes on as a step says exists and is unique.  From these, `JoinSplit` (splitting a
chunk loses nothing), `JoinAppend`, `SplitAppend`, `LineStart` (what begins a line of
a text that joins unbroken lines is one of these lines), and lemmas on how texts are
cut and regrouped.

**The POP3 client** (`POP3GetAllProofs`).  Assumption: `MailboxesAssumption` (lines
have no line end inside, and no line of a message is a single dot).  The properties
say what is true when `getAll` is over; the invariant says what is true while a
reply is read: `Progress`, that what the reader has read (`ReaderText`, with the
doubled dots put back), and what is on its way, is the text of the reply that the
pending command asked for, or, once a message was taken to end too early (`Ahead`),
that no "+OK" is left in front of the client.  `Chain` ties the number of the message, the mails
and the marked messages to the command; `Mails` says that all mails are read unless
something is `Spoilt`.  `ReadMore`, `ReadLast` and `KeptText` show what each kind of
chunk does to `ReaderText`; `ReceiveStep` is the step of the client, from
`AcceptedCallback`, `Continued` and what `Throws`; `AnswerStep` is the server's.
`Reason` says why a reply was read as an error, and goes with the invariant to the
end: `LeftOnServerHolds` and `FailureHasAReasonHolds` need it.  `Typed` and
`NothingIsLostHolds` follow as well.

That the text is the one that was sent does not say that the lines are: lines with
line ends inside have the same text, and `Stuffed` does not tell one dot from two.
`Exact`, a second invariant on top of the first (`AlwaysExact`), says that, unless a
chunk ended there, no line that is read holds a line end and none that has ended is
two dots.  It needs that on the wire every LF follows a CR (`IsPaired`), which
`JoinPaired` and `PairedConcat` keep, and `SplitWithin`, that the lines of such a
chunk are free of line ends.  Lines free of line ends are determined by their text
(`JoinUnique`, from `SplitJoin`: splitting what was joined gives the lines back), so
`ReadLineByLine` turns `IsRead` into `Content`, and `TrueMeansAllHolds` follows.

The attempt showed that three of the properties did
not hold as first stated: a line that says "+OK", in a message that was taken to end
too early, was in no mailbox of the run.  They name this case now, and the run has it.

**The SMTP client** (`SMTPSendProofs`).  Assumptions: `RecipientsAssumption` and
`RepliesAssumption` (every line of a reply has the reply's code and no line end inside,
and the last line is the one whose code is followed by a space).  The properties speak
of what the server has granted, and the client knows that only from codes at the
beginning of lines that arrive in pieces.  `IInv` therefore follows the text that the
reader has not dealt with, the line it has begun and the bytes on their way:

* `Wire`: of this text, and of the last line read, one sees only codes that the server
  has said (`Said`) and the client has not used, and behind a last line nothing but the
  shutdown.  `Told` says so of any text: a code is seen where a line begins, and, if no
  text of a reply looks like a code, nowhere else;
* `Chain`: at each command, what the server has granted before, and that this command
  alone is on its way unless the server is down;
* `Excuse`: who leaves the wait without success was refused, or left by the server;
* `Control`: what is true even of a client that has read a text as a code
  (`Deceived`), which the first three exclude.

`ReplyTold` shows it of a reply, by induction over its lines; `RestTold` and
`ReplyAppended` of what remains and of what is added; `LineInText` finds each line of
a chunk in the text, whatever was cut off before it; `LinesWithAre` says which line is
the last one in each case of `readData`, with the mismatch that is no error; and
`WireRead` puts them together: wherever a chunk ends, a complete reply has a code that
was said, and one that goes on leaves `Wire` true.  `CallbackChain` and `CallbackWire`
are the step of a callback; `AnswerStep` needs that nothing is seen in the text when a
command is on its way.  `TypeCorrect`, `ContentAwaited`, `StatusTrue` and
`FailureReason` follow.

`WithinLimit` and `ExclusiveContext` are proved of the pool and of the sessions and
have no property in a run of their own.

**Only model-checked**: liveness (`ClearReturns`, `DisabledPoolDrains`,
`DropAllReturnsOrIsHeldUp`, `ReloadReturnsOrIsOrphaned`, `MainGoesOn`,
`GetAllReturns`, `SendReturns`), which is outside what the prover handles.
Every safety property of a passing run is a theorem.

## Where the code and its comments disagree

Each has a run whose counterexample is the behaviour.

* `pool_assertion`: `Clear` asserts that no reusable context is left
  (`VRIAServerJSContextMgr.cpp:899`).  A thread that passed the test of the
  flag before the pool was disabled registers its context during the `Clear`.
* `pool_restore`: "restore the enabled state" (line 905).  Of two overlapping
  `Clear`, the second saves the state the first has forced, and the pool may
  stay disabled.
* `catalog_database`: "Here, nobody can access to the database"
  (`VRIAServerProject.cpp:982`).  A context that passed the test of
  `fContextCreationEnabled` registers and takes a base context after the wait.
* `sessions_storage`: "Update the context with this session"
  (`VRIAServerProject.cpp:1360`).  A pooled context that ran a default session
  with a filled storage gives this storage to the next session, in place of its
  own.

Other behaviours that the models found are named exceptions of the properties that
pass, so that a change of the code that adds a further one is seen:

* `DropAllJSContexts` keeps `fApplicationsMutex` while it waits for scripts, and a
  script that reads `solution.applications` waits for the mutex
  (`DropAllReturnsOrIsHeldUp`, `HeldUpBy` in `CatalogReload`);
* each application has its own `fReloadDatabaseMutex`, and `DropAllJSContexts` clears
  the pools of all: a `Clear` that saves a pool's flag while the pool's own reload has
  it disabled, and ends after that reload, leaves the pool disabled for good, against
  "restore the enabled state" (`VRIAServerJSContextMgr.cpp:905`).  The variable
  `crossed` remembers such pools (`SwitchesAreRestored`), and the proof shows that no
  other order of overlapping reloads does harm;
* a context under construction during the drop is kept by the disabled pool, with
  its registration, and the reload's wait has no time-out
  (`ReloadReturnsOrIsOrphaned`, `OrphanedIn`);
* "never lock the solution mutex during the solution stopping"
  (`VRIAServerApplication.cpp:1180`) is not kept when the server quits or a
  solution failed to start, and "never lock the applications mutex" (
  `VRIAServerSolution.cpp:393`) not when an application fails to start: a script
  that asks for the solution, or the applications, is waited for and waits
  (`MainGoesOn`, `WaitsForMutex`);
* a late context that is at rest in a disabled pool, or that is released after its
  pool was deleted, keeps its registrations, and `Close` of the other applications
  waits for them for ever (`MainGoesOn`, `StaysRegistered`);
* two chains of flush messages may run after a quick close and open
  (`FlushInv` bounds them);
* a reload puts the pool's flag back as it was before (`VRIAServerProject.cpp:1028`):
  an application stopped or started meanwhile is left with an enabled, or a disabled,
  pool; a reload and a restart of the HTTP server share the state PAUSED (`mishaps`
  in `ServiceStates`);
* POP3: a response cut inside its first line, its last line end or at its last dot
  (`Tears`), and the empty mailbox, whose number of messages is the true string
  `"0"`.  A message that was taken to end too early, at a line of its own that was
  cut before a dot, leaves its rest on the connection; a line of it that says "+OK"
  is then the answer to the next command (`Deceived`);
* POP3: "You don't have to worry about byte-stuffing (single dot on a line)"
  (`pop3Client.js:526`) does not hold of every cut.  A line that arrives in two chunks
  is put together at line 130 and not looked at again, so that with the chunks "+OK",
  CR, LF, ".." and CR, LF, ... the caller gets two dots where the uncut response gives
  one, and `true`; a chunk that ends between CR and LF leaves the line end in the line
  (`Tears`: "twoDots", "lineEnd"; `TrueMeansAll`);
* POP3: "If not, [...] all messages are left on server (not deleted)" (`POP3.js:531`)
  does not hold either.  The server deletes at QUIT; its answer, when it is cut before
  the end of its line, is first an exception (`pop3Client.js:162`) and then an error,
  and `getAll` returns `false` with everything deleted.  `LeftOnServer` says that this
  takes such a cut, or a server that refuses, or a message read as an answer;
* SMTP: a cut between CR and LF, a chunk that is only the beginning of a line and is
  dropped, so that a text of the rest that looks like a code is read as a reply
  (`Deceived`), a refused mail (`SMTP.js:545`: nobody calls `exitWait`), a second reply that arrives
  with the first (`threeDigitReply.js:129`: its constant does not exist), and an
  empty list of recipients.

## What is not modelled

* **MySQL client**: each call sends a packet over a blocking socket and reads the
  answer before the next; nothing else changes the connection's state.  What
  could be wrong in it is the encoding of packets, which a model of its control
  would not show.
* **What `Open` reads, static HTTP handlers, solutions opened for maintenance,
  start-up parameters, the published service record, debugger users**: files and
  settings, or other components.
* **The authentication delegate and the lock of a session's storage**: external
  classes, whose effect on another holder of the lock is not in the repository.
* **Double release of a context, sessions of clients that never return**: the
  callers pair retain and release; the sessions only grow in number.
* **HTTP request handlers, file service and upload, the proxy pages of RPC**:
  they keep no state between requests; what they do to contexts and sessions is
  the request thread of the modules above.
* **Settings and permissions, symbol tables, templates**: read once, or parsed.
* **Mail messages, the RPC catalog builder**: formatting and parsing.
* **Debugger, logger, console, workers**: wrappers of other components.
* **Design-time solution and projects**: the tree of project items and its file
  watcher; the watcher's event handling is a candidate after the plan.
* **Vendored and client-side libraries, the default solution's pages**: not the
  server's logic.
