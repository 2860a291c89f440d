# A formal model of wijjit-ssh

wijjit-ssh serves Wijjit terminal applications over SSH from one asyncio event
loop. Each authenticated client may open session channels; each session gets an
application task of its own, under a limit on sessions, deadlines for silent and
for long sessions, and a shutdown that asks everybody to leave before it kills.
This directory holds TLA+ modules of that program, the TLC configurations that
check them on small instances, and theorems checked by TLAPS.

The code referred to is `src/wijjit_ssh/` of the repository, by file and line,
and one of its example applications, `examples/dashboard_ssh.py`.

    tlasany Sessions.tla                          # parse
    tlc -config sessions_safety.cfg MCSessions    # check an instance
    tlapm SessionsProofs.tla                      # check the proofs

## 1. Inventory

| part | state it keeps | operations | what makes it correct |
|---|---|---|---|
| session, `server.py:196-535` | channel, app task, `_closing`, deadlines | asyncssh callbacks, `request_close`, `_close`, `abort` | exactly one way down; the app is given its grace; the terminal is given back; the slot is freed once, after the app |
| session registry, `limits.py:324-624` | `_sessions`, `_drained` | `try_admit`, `release`, `drain` | `max_sessions` bounds the apps at work; a drain ends and leaves nobody |
| deadlines, `limits.py:223-321` | two timer handles, `_fired` | `start`, `poke`, `cancel`, `_expire` | one expiry at most, none into a session going down |
| connection admission, `server.py:538-675`, `limits.py:376-483` | count and token bucket per address, `_live` | `connection_made`, `connection_lost`, `disconnect`, eviction | exact counts; the rate is kept though buckets are forgotten; bounded memory; the refused are dropped |
| server lifecycle, `server.py:789-1203` | `_acceptor`, `_stopping`, `_stop_lock`, `_stopped`, signal handlers | `start`, `stop`, `run_async`, `run`, `_signal_stop` | a `stop()` that returns has drained; `run()` ends after the drain |
| host keys, `keys.py` | a file | `ensure_host_key` | one identity, across processes, crashes and restarts |
| key decoder, `input.py:164-582` | buffer, UTF-8 decoder, open paste | `feed`, `flush` | what is decoded does not depend on packets; bounded memory |
| input source, `input.py:585-762` | decoder, queue, escape timer, mouse state | `feed`, `_flush_escape`, `read_input_async`, mouse tracking, `close` | every key arrives once, in order; the timer resolves a lone ESC; the terminal is given back |
| authentication, `auth.py`, `server.py:677-745`, `843-896` | the attempt being verified | the gate of the constructor, `begin_auth`, the `validate_` callbacks, the policies, `ChainAuth` | any policy that accepts suffices, in whatever order; what is reported is what was decided; serving without authentication has to be asked for |
| sampler of the dashboard, `dashboard_ssh.py:142-296`, `425-451` | `viewers`, `_task`, threads | `join`, `leave`, `_run`, the `on_event` hook | it works exactly while somebody watches; its windows are the live sessions |
| backend, events, configuration | last size; none; none | forwarding; `emit`; validation | never raise into a callback |

**How they interact.** asyncssh calls `_WijjitSSHServer` per connection and
`_WijjitSSHSession` per channel. A connection is admitted by the registry before
authentication; a session is admitted by the same registry in
`session_requested()`. Input goes from `data_received()` through the backend to
the input source and, as events, to the app's loop; it also pokes the deadline.
Everything that ends a session (a deadline, the client, the app, a drain) meets
in `request_close()`, which starts `_close()` once. `stop()` closes the listener,
drains the registry, disconnects what is connected, and waits for the listener.
An application sees a session twice: its factory is called while the session
starts, and its `on_event` hook inside the step that ends it.

**What is hard.** All of it runs on one event loop, so interleaving happens only
at awaits and between callbacks, but there are many of them: `_close()` waits
twice, `drain()` once, `stop()` three times, each while the world goes on.
Clients may vanish or fall silent anywhere, apps may ignore `quit()`, timers and
signals fire in between, callers may be cancelled, processes may crash between
two system calls, and the network cuts the input at any byte. The hazards this
makes are listed in `PROJECT.json`, each at its line.

## 2. Modules

| module | models | checked by |
|---|---|---|
| `Sessions` | sessions, registry, deadlines, drain and the sessions' side of `stop()` | `MCSessions`, `SessionsProofs` |
| `SessionSlots` | abstract: slots are taken while free and given back | refined by `Sessions` |
| `Dashboard` | an application: `Sessions`, with the hook inside its steps, and the shared sampler | `MCDashboard`, `DashboardProofs` |
| `Admission` | connections before authentication | `MCAdmission`, `AdmissionProofs` |
| `RateLimiter` | abstract: a bucket per address, never forgotten | refined by `Admission` |
| `Auth` | one client, the gate, the callbacks and the policies | `MCAuth`, `AuthProofs` |
| `AcceptAny` | abstract: a claim is accepted if some policy accepts it | refined by `Auth` |
| `Shutdown` | the server's life, concurrent `stop()` calls, signals | `MCShutdown`, `ShutdownProofs` |
| `HostKeys` | processes on one key file | `MCHostKeys`, `HostKeysProofs` |
| `KeyDecoder` | pure: `feed()` and `flush()` | through `InputSource`, `DecoderProofs` |
| `KeyStrokes` | reference: what a terminal sends for a key, and which events that key is | `MCInput`, hypothesis of `InputProofs` |
| `InputSource` | a typing client, the wire, the input source, the reading app | `MCInput`, `InputProofs` |

### Sessions

An action is one uninterrupted run of the event loop: a callback, or the part of
a coroutine between two awaits. `SessionRequested` to `StartSucceeds` /
`StartFails` follow the channel up; `RequestClose` is what `request_close()` does
to the state and is used by every handler that calls it; `CloseBegins`,
`CloseSeesExit`, `CloseCancels`, `CloseAfterCancel` are `_close()` between its
awaits; `StopDrains`, `DrainEnds`, `StopForces`, `StopReturns` are `drain()` and
the part of `stop()` around it. `DrainEnds` aborts and releases the stragglers in
the same run of the loop, as the code does. `AppExits` is the app: it may leave
by itself, on `quit()` or never. An app that quits or crashes runs its own
teardown and gives the terminal back, if there is a channel to write to. Whether
one that was cancelled does is Wijjit's affair, and the repository says both:
cancelling "skips that" (`config.py:112-116`; so `server.py:1018-1020`,
`limits.py:565-569`, `docs/source/guide/shutdown.rst:8-10`,
`tests/test_shutdown.py:98-100`), and the event loop closes the input source in
its `finally` also when cancelled (`input.py:751-752`). The model allows both, and
no property relies on the second. `Tick` advances the waits; nothing tells waits
longer than the grace apart, so they are capped there. `stop()` may be called
with any of `StopGraces`, which runs beside the grace each `_close()` gives.

Assumptions on what is outside the repository: asyncssh serves no request on a
channel the server has closed (`LateStart = FALSE` in every run; the constant
shows where the code depends on it), it makes the channel of every session it was
handed, or loses its connection, and `call_soon` is first in, first out, so that
`connection_made` of a session runs before a close asked for later.

`SessionSlots` sees only who holds a slot: `Slots` in `Sessions` maps it to
`registered`. The refinement says that a slot is given only while one is free,
never taken from one session by another, and that a session going down gives its
slot back.

### Admission and RateLimiter

`ConnectionMade` does all of `connection_made()`: limit, rate, count, or refusal
with a disconnect scheduled one tick later. `ConnectionLost` does the release and
the eviction of full buckets with the sweep. A bucket keeps the level of the last
`consume()` and, separately, what time has added: the code computes the second
from the clock, lazily. `RateLimiter` refills eagerly and forgets nobody; the
mapping reads a missing bucket as a full one. Time is in ticks, levels in grains,
so that a tick may add less than a token.

### Auth and AcceptAny

A policy is a record of what its methods answer: whom it waives, which keys it
has for a username, which passwords it takes, what it asks and which answers it
takes. The classes of `auth.py` are such records (`OpenAuth`, `AuthorizedKeys`,
`PasswordAuth`), a deployment's own policy is any other, and a deployment is a
sequence of them, chosen in `Init` from `Chains`. `Construct` is the gate of
`WijjitSSH.__init__`, which asks about the empty username; `BeginAuth` asks about
the one offered. A key is decided in one callback; `verify_` methods may await, so
that `PasswordSent` and `KbdintAnswered` begin an attempt and `PolicyDenies`,
`PolicyAccepts`, `PolicyRaises`, `ChainDenies` go through the loop of `ChainAuth`
one policy at a time, while the client may leave, start over or run into the
login timeout. `reported` is what `_log_auth` last said.

`AcceptAny` knows the claims that are good, and nothing of policies or of their
order. The mapping calls a claim good if some policy that offers the method
accepts what the client would have answered *that policy's own* prompts; that is
where the code and the promise part for chains whose policies ask different
questions (`auth_mixed.cfg`).

asyncssh is external: it calls `validate_public_key()` before it looks at a
signature, a response carries as many answers as prompts or none, a new request
cancels the one in progress, and an exception in a callback drops the connection.

### Dashboard

`Dashboard` extends `Sessions`: a step is one of the server's with what the
application does inside it, or one of the sampler's. `Hook` is both ends of the
application: the factory's `join()` in the step that starts an app, and, in the
step of `_close()` that emits `session.ended`, the hook's `leave()`. The task is
where `_run()` waits (`priming`, `sleeping`, `sampling`), or `dead` of an
exception and still in `_task`. A thread goes on after its task was cancelled;
`orphans` counts them.

### Shutdown

A caller (a host task, a signal, `run()` itself) goes through `stop()` by the
lock it waits for: `EnterStop`, `LockAcquired`, `StopBody`, `DrainEnds`,
`StopEnds`. A caller queued on the lock of an earlier `start()` is `stale`.
How the server is run is chosen in `Init` from `Modes`: `run()` or `run_async()`,
in a host that cancels its tasks or not, starts the server again or not.
`DrainEnds` is one step here. That it always comes is `StopTerminates` of
`Sessions`; `Sessions` in turn has one `stop()` in progress that nobody cancels,
and `Shutdown` shows that the lock makes it so.

### HostKeys

Steps end at system calls on the file: `exists()`, the exclusive `open()`, the
`write()`, the read. Between the second and the third the file is there and
holds no key. `Faults` adds crashes at any step and failing or short writes.

### KeyDecoder and InputSource

`KeyDecoder` keeps every branch of `_consume_one` and what it calls; bytes are
one representative per class the code distinguishes ("200", "201", "3" stand for
digits of parameters, "L" and "K" for a two-byte rune), the tables of key names
keep one entry each, and an event records the bytes it came from instead of a
name. Modifiers only rename a key and are left out, and so is the click synthesis
of the external mouse parser.

In `InputSource` the client types strokes, each with the events a terminal means
by it. `KeyStrokes` is that pairing: the reference definition the decoder is
checked against, one whole key at a time, without a buffer, a packet or a timer.
The keyboard of `MCInput` is held to it (`KeyboardAssumption`, which TLC
evaluates), and the theorem has it as its hypothesis. `Packet`
delivers any number of bytes. A client may also send garbage; from then on no
meaning is claimed and the timer may fire between any two packets. Until then the
bytes of one stroke arrive within `ESCAPE_TIMEOUT` (the assumption the constant is
chosen for, `input.py:54-57`) and nobody types on within it after Escape.

## 3. Runs

| run | instance | question and result |
|---|---|---|
| `sessions_safety` | 2 sessions on 2 connections, 1 slot, both deadlines, a grace of 1 tick, a drain with 1 tick or none | Slots, apps, terminals and graces under every interleaving: no app outlives its slot, `max_sessions` bounds the apps, a terminal that can be reached is left frozen only by `abort()` or by an app that overstayed its whole grace, a goodbye is never painted over and finds an ordinary screen except after such an app, nobody is cancelled before its grace unless its client has gone, and after the drain nobody is registered. |
| `sessions_liveness` | 2 sessions on 1 connection, 2 slots, no deadlines, a drain with a grace or none | The sessions implement the abstract slots, liveness included: a session being closed frees its slot though its app never reacts. So does one whose client has gone; `stop()` returns, and no app is left. |
| `sessions_silent` | violation | see findings |
| `admission` | 4 connections from 2 addresses, 2 per address, 2 tokens | Counts are exact and bounded, what `stop()` would disconnect is what is counted, the refused are dropped, buckets of the absent stay below the sweep threshold, and the evicting table implements the limiter that forgets nobody. |
| `auth` | 10 deployments, 3 usernames, 2 keys, 2 secrets, 2 prompts | Every chain accepts exactly what one of its policies accepts and reports each finished attempt as it came out, with checkers that raise or hang and clients that leave; nobody walks in unless that was asked for; nobody lingers unauthenticated. |
| `shutdown` | 6 modes, 2 host tasks, 2 signals, 2 peers | Uninterrupted: `run()` returns only drained, and whoever comes out of `stop()` has waited for the whole drain. With tasks cancelled: the same, unless the one that was draining was cancelled in it, which then holds for good. In every mode: one `stop()` at a time does the work, every `stop()` returns, and (without restarts) a `stop()` that has begun, or a signal that finds the server listening, releases the main task. |
| `shutdown_second_signal` | violation | see findings |
| `dashboard` | 2 sessions on 1 connection, 2 slots, sessions without a grace, a drain with 1 tick or none | The sampler has its task exactly while somebody watches, its windows are the live sessions, whoever stays gets a reading unless the sampler died, and a stopped server leaves no window, task or thread. |
| `hostkeys_faults` | 3 processes, 4 keys, crashes and failing writes | One identity is ever served, and it is the one on disk. |
| `hostkeys_race` | violation | see findings |
| `input` | 2 strokes out of 13 keys and 8 pieces of garbage | Keys arrive whole, in order and at last, however the bytes are cut; retained bytes are bounded; the timer is armed exactly while a lone ESC waits; the mouse is off in the end. |
| `input_broken_rune` | violation | see findings |

**Bounds.** Two sessions and one slot give the contention the registry exists
for: one waits, one holds, one is admitted in mid-drain. Two sessions on one
connection give the loss of both at once. One tick of grace tells "waited" from
"did not"; a drain with no grace is in both runs of the sessions, sessions with
none are in `dashboard`, where a drain may still have one; with a grace for the
sessions as well (`dashboard_grace.cfg`, not a listed run as it takes four
minutes) TLC finds no error either, and `WindowsAreLive` holds for every grace. The ten deployments of `auth` are no policy, each class
of `auth.py` alone or in a chain before and after another, a policy that waives
one user, and one that asks for more than a password. Two windows give a first
in, a last out, and one that comes while the other goes. The modes of `shutdown`
are `run()` alone or with an application that cancels its tasks, and
`run_async()` left alone, cancelled, restarted, or both. Two callers beside the
main task give one inside `stop()`, one queued, one late. Three processes give a
writer, a loser and a newcomer. After a whole stroke the decoder is back in its initial state, so two
strokes show every carry-over from one to the next; `MaxSequence = 5` and
`MaxPaste = 3` are small enough that the garbage of 6 digits overruns both.
The theorems of section 4 are free of these bounds. `CHECK_DEADLOCK` is never
switched off: each module that can come to rest has a step that says so.

**Fairness.** Only what the program's scheduling gives: a callback or a coroutine
that is ready runs (weak fairness of each continuation), a timer that is armed
fires (`Tick`, `FlushEscape`), a cancelled task ends, a connection closed by us
is reported lost. asyncssh keeps the `login_timeout` it is given, which is all
`NobodyLingers` needs: checkers may hang and clients be silent. The sampler's
threads end and its timer fires (`PrimeEnds`, `SampleEnds`, `OrphanEnds`,
`SleepEnds`). `LockAcquired` is strongly fair because `asyncio.Lock` is first
in, first out. Nothing is assumed of clients, of apps that were not cancelled, of
peers before they are disconnected, or of tasks that might call `stop()`.

## 4. Proofs

For all values of the constants under the named assumptions of each module.

* `SessionsProofs`. `TypeCorrect` is inductive by itself. `RegistryBounded`: the
  registry never exceeds `MaxSessions`, from finiteness and the guard of
  admission. `AppsAreRegistered` (given `~LateStart`) needs the strengthening
  `RegistryInv`: before the start there is no app, whoever may still start is
  registered, and a `_close` past its waits has a finished app; only then can one
  see that no release leaves an app behind. `AppsAreBounded` follows by
  cardinality. `DrainEmptiesRegistry` rests on `DrainInv`: after the drain the
  connections are closing, so that nobody is admitted any more. `GraceIsGiven` is
  an action property. `SlotsRefined` is the safety part of the refinement.
  `FreezesAreForced` and `GoodbyesAreSeen` (given `~LateStart`) follow the
  terminal through every way an app ends, by `FrozenInv`. An app that was not
  cancelled finds a channel to give the terminal back over: while it lives only
  `abort()` closes one, and `stop()` aborts and disconnects in one run of the
  loop, so that a client that can still be reached was not aborted. An app that
  was cancelled may leave its frame, so the invariant says who is (`DueInv`): the
  aborted, whoever's client is gone (`LossIsReal`: what `_close` takes for a loss
  is one), and whoever has waited its whole grace, which neither the clock nor
  `_close` takes back (`StepTurn`).
  Beyond what the runs check: `EndedSessionsAreOver` (given `~LateStart`), a
  session of which `session.ended` was emitted has no app, no slot and no open
  channel; `OneWayDown`, `closing` never steps back and the first reason stands,
  however many causes meet; `NobodyRunsOn` (given `~LateStart`), after the drain
  no app runs that was not cancelled, the safety half of `StopEndsApps`;
  `ShortStopGraceIsKept`, `stop(grace)` overrides the configured grace if it is no
  longer, by `GraceLimit`: what is left of the drain and what a session has
  waited add up to no more than the configured grace.
* `DashboardProofs`. A step of the server starts one app, ends one session, or
  does neither (`Moves`, from `RegistryInv` of `SessionsProofs`, which holds here
  because a step of the dashboard is a step of the server or leaves it alone).
  So the hook keeps `WindowInv`: who watches holds a slot or was aborted, and has
  not ended. `WindowsAreLive` needs `~LateStart`; `SamplesOnlyForViewers` does not.
  `ServerIsKept` is a lemma that holds by the way the module is composed, and is
  there to carry results on the sessions over; `WindowsKeepToSlots` is one.
* `AuthProofs`. `AnonymityIsAskedFor` by `GateInv`: a server that is up asked its
  policies about the empty username, or was allowed not to; with policies that
  treat every username alike (`Uniform`, which is inside the property: the
  policies of `auth.py` are) the answer holds for any other. `ChainIsAny` is the
  refinement of `AcceptAny` under the hypothesis that the policies of a chain
  that offer keyboard-interactive ask the same questions (`Agreeing`); it needs
  `AskedInv`: whoever was asked said no, and the prompts shown are those of every
  policy that has any. `BuiltInChainsKeepPromises` discharges both conditions for
  deployments that use only what `auth.py` comes with: each such policy waives
  everybody or nobody and asks for the password alone.
* `AdmissionProofs`. `CountsAreExact` relates `perIp` to the cardinality of the
  set of connections let in and not yet lost, per address; the steps are the
  arithmetic of adding and removing one element. `PerIpIsBounded`,
  `LiveAreCounted`, `ForgottenAreBounded` build on it, and `RateIsKept` is the
  refinement of `RateLimiter`: eviction happens only of a bucket the mapping
  already reads as full. `RateIsBounded` says what a limiter is for: an observer
  counts, for one address, what it was granted and what time refilled, and the
  first never exceeds a full bucket plus the second, in any stretch of time.
* `ShutdownProofs`. The inductive invariant is `TypeInv` (types and
  `AcceptorInv`, how the lock, `_stopped` and the acceptor determine each other)
  with `DrainInv`. `StopsAreSerial` holds in every mode. `RunReturnsDrained` and
  `StopsAreComplete` have two parts. Where nobody cancels or restarts
  (`Uninterrupted`, inside the properties) the drain is over for whoever returns,
  by `DrainInv`; the other disagreements below show that both conditions are
  needed. With cancellation, as long as the server is started once, `OnceInv`
  gives the rest: whoever comes out early finds a `stop()` that was `Abandoned`,
  only the cancellation of the caller at work abandons one, and no other call
  repairs it. `ListenerStaysClosed` is about the same servers (no `stop()` raises,
  a stopped server lets nobody in).
* `HostKeysProofs`. `IInv` adds `OneWriter` (whoever is about to write made the
  file, which holds nothing yet, and is alone) to `ServedOrShort`.
  `IdentityIsOne` and `IdentityIsStable` hold with crashes, failing writes and
  short ones. `ServedStaysOnDisk` and `ServedIsReused` (once a key was served, no
  call fails any more) need every write to be whole, which `os.write()` does not
  promise and the code does not look at.
  `FailureIsTheRace` delimits the finding `hostkeys_race`: without faults a call
  fails only between the creation and the write of another process
  (`HalfWrittenHasWriter`).
* `DecoderProofs`. `feed()` is a loop, written as a recursive function over the
  infinite set of decoder states, so that nothing is known of it before it is
  shown to be defined. `RecursionExists` does that once, for any function whose
  argument gets smaller; its arguments are sets and functions instead of
  operators, so that the provers can instantiate it, and inductions over the data
  are arguments about a least counterexample (`LeastNat`). `StepTurned` is what
  one turn may do (it takes a byte or stops, and keeps the limits), for each
  branch of `_consume_one` in turn. `FeedEnds` and `FeedBounded` follow, for any
  bytes and limits. The rest of the module says which bytes decode to which
  event (`CsiDecodes`, `SequenceScan`, ...), whatever follows them.
* `InputProofs`. `EscapeTimerIsExact` and `TerminalIsRestored` hold for every
  decoder: the proofs never look inside `feed()`. `BufferIsBounded` is
  `FeedBounded` along the behaviour. `TypedKeysAreSeen` is the decoder's main
  promise. `Spells(b, k)` says that bytes `b` are whole strokes that mean keys
  `k`; `Means(d, b, k)` extends it to a decoder state `d` with `b` still to come:
  what is buffered, held of a rune, or kept of a paste is put back before the
  bytes. `FeedMeans` is the heart: for every packet, what `feed()` returns
  followed by what the new state means with the rest of the wire is what the old
  state meant with all of it, so where the network cuts does not matter.
  The inductive invariant `KeysInv` says that what the app has received, what is
  queued, and what decoder and wire together mean, is what was typed; the timer
  needs a case of its own (`FlushAhead`: a lone ESC stands for Escape only when
  nothing of its stroke is on the wire).

  Its hypothesis is that every stroke is a `KeyStroke`. That leaves out sequences
  longer than `MaxSequence` plus the final byte, Alt with O or [ (the openings of
  SS3 and CSI), pastes that hold the terminator, and broken runes: of these the
  code promises nothing else, or breaks it (`input_broken_rune`). `KeysInv`
  quantifies over all byte sequences, which TLC cannot enumerate; TLC checks what
  it implies, `AppSeesTypedKeys`, and the hypothesis.

The results above on sessions, admission, shutdown, host keys and the dashboard
that no run lists were also checked by TLC on the instances of the runs.

Only model-checked: liveness under fairness (all leads-to properties, the
liveness of `SessionSlots`, `AllKeysArrive`, `RefusedIsDropped`, `StopReturns`,
`StopReleasesMain`, `NobodyLingers`, `SamplingEnds`, `ViewersGetReadings`), which
is out of this prover's reach. Every invariant and every action property of the
passing runs is a theorem.

## 5. Findings

Each violation run checks one statement of the repository's own text against what
the code does; `PROJECT.json` quotes it.

* `sessions_silent`: a client that opens a session channel and never asks for a
  shell holds its slot for ever; no deadline runs before `session_started()`.
* `shutdown_second_signal`: a second signal during the drain meets the default
  handlers, which `run()` restored when `run_async()` returned.
* `hostkeys_race`: the loser of the race may read the file before it is written
  and fails instead of adopting the key.
* `input_broken_rune`: a truncated rune is not flushed by a control byte that
  opens the next packet; its replacement comes out behind that key.

### Other disagreements

The same modules state more that the code does not keep. These configurations are
not part of the listed runs; TLC refutes each. Where section 4 has a theorem on
what does hold instead, it is named.

| configuration | property | what happens |
|---|---|---|
| `sessions_late.cfg` | `AskedBeforeKilled` | a session admitted during the drain is aborted without having been asked (`limits.py:604`) |
| `sessions_stop_grace.cfg` | `StopGraceOverrides` | `stop(grace=...)` longer than `config.shutdown_grace` does not lengthen the grace of the app (`server.py:502`); a shorter one holds, `ShortStopGraceIsKept` |
| `sessions_cancelled_goodbye.cfg` | `GoodbyeOnOrdinaryScreen` | if a cancelled app skips its cleanup, as the repository says it does, the text that is to be shown "once the app has released the terminal" is written into its frame (`server.py:515`); no other way, `GoodbyesAreSeen` |
| `sessions_unclean_drain.cfg` | `NoneAbortedMeansClean` | `drain()` returns 0 although a session it asked was cancelled by its `_close()` and left frozen: only those it aborted itself are counted (`limits.py:604`) |
| `sessions_rearmed.cfg` | `NoExpiryIntoTeardown` | input after `cancel()` re-arms the idle deadline, which fires into a session going down (`limits.py:291`) |
| `shutdown_early_signal.cfg` | `SignalEndsRun` | a signal while `start()` binds is forgotten (`server.py:1039`) |
| `shutdown_cancelled_run.cfg` | `CancelShutsDown` | cancelling `run_async()` leaves the listener open (`server.py:1092`) |
| `shutdown_cancelled_stop.cfg` | `StopAlwaysCompletes` | after a cancelled `stop()` the next one returns at once (`server.py:1046`); no other way, `StopsAreComplete` |
| `shutdown_restart.cfg` | `StopNeverRaises` | a `stop()` queued behind the last one finds `_stopped` reset by the next `start()` (`server.py:963`); it raises, and leaves `_stopped` set, so that `stop()` of the new server returns at once with its listener open |
| `auth_mixed.cfg` | `AnyAccepts` | the client is shown the prompts of the first policy that has any, and every policy is asked about those answers: a later one that asks for something else never gets it (`auth.py:471`); not among the policies of `auth.py`, `BuiltInChainsKeepPromises` |
| `dashboard_dead.cfg` | `JoinRunsSampler` | a sampler that died of an exception stays in `_task`; a window that joins while another watches gets no sampler (`dashboard_ssh.py:184`) |
| `hostkeys_crash.cfg` | `KeyIsEnsured` | a crash between creation and write leaves a file no later run can load (`keys.py:154`); not once it was served, `ServedIsReused` |
| `hostkeys_short.cfg` | `ServedIsOnDisk` | what `os.write()` returns is not looked at: after a short write the process serves a key of which the file holds a part, and no later run "reuses it" (`keys.py:156`) |

## 6. Not modelled

* Inside `auth.py`: how `check_password` compares two strings, what
  `_import_key_line` accepts as a key, and the warning about an empty password.
  The exchange itself belongs to asyncssh.
* `_RejectedSession`, `RemoteTerminalBackend`: one callback or a forward each,
  without state; what others rely on (dropped writes) is built into the modules
  that use them. `EventEmitter.emit` is part of the step that emits, in `Auth`
  and `Dashboard`; the formatters and the set-up of logging are not modelled.
* `config.py`: a validated record; its fields are the constants and its
  validation the assumptions. `__init__.py`: names only.
* `chat_ssh.py` keeps the same registry as the dashboard without a task, and what
  it adds is text; `hello_ssh.py` keeps nothing. The deployment files are a
  one-shot probe and packaging.
* The keepalive, which is asyncssh's own: a peer it gives up is a
  `ConnectionLost` like any other.
* Python 3.11, which `pyproject.toml` allows: `Shutdown` and `Sessions` take
  `wait_closed()` to wait until every connection is gone, as it does since Python
  3.12 and as the comment at `server.py:1065` says. Before, `stop()` may return
  after `disconnect()` with transports still closing, so that `live = 0` in
  `StopIsComplete` and `RunDrains` is not claimed there.
* A connection accepted between the loop over `_live` and the end of
  `acceptor.close()`: inside asyncio, see the hazards.

## 7. Plan

Done, in this order: `Sessions` with `SessionSlots`, `Admission` with
`RateLimiter`, `Shutdown`, `HostKeys`, `KeyDecoder` with `InputSource`, `Auth`
with `AcceptAny`, `Dashboard` over `Sessions`, and the proofs of each.

Next:

1. A composition of `Shutdown` with the registry of `Sessions`, replacing the
   single step `DrainEnds`, and the abstract "server that stops" both implement.
2. Several sessions per connection in `Admission`, for the bound per address.
3. `IdleTimer` as a module against an abstract deadline: clamped to the last
   input, at most one expiry, none after `cancel()` if nothing pokes.
4. The remaining events, `session.started` and `session.rejected`, as history in
   `Dashboard`, so that a gauge can be built on them as `logging.py` describes.
