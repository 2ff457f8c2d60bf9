# A TLA+ model of vclnet

vclnet is a Go `net`-style package over VPP's VCL. Its hard part is not the
protocol but the plumbing between Go and VLS, the locked session layer of VCL:
VLS calls are non-blocking, tied to OS threads and addressed by small pool
indexes that are reused at once, while Go callers block, are cancelled by
deadlines and contexts, and close connections under each other. This directory
models that plumbing, checks it with TLC and proves its safety properties with
TLAPS.

## Inventory

| Part | Source | State | Operations | What makes it correct |
|---|---|---|---|---|
| Mode 3 poller | `internal/vclpoll/poller.go`, `cgo.go` | wait sets per handle, three channels, start/stop flags, epoll interest | start, stop, register, cancel, unregister, event | every waiter woken once, none lost, epoll told what waiters want, nothing after stop |
| Mode 2 dispatcher and workers | `mode2.go`, `worker.go` | owner map, worker session tables, wait sets, op queues | appInit, stop, destroy, create, accept, I/O, close, wake, wait | tables agree, no call reaches a foreign session, submit and stop always end |
| Sharded listener | `shard_listener.go` | shards, fan-in channel, raw-handle wait sets | create, accept loops, Accept, close | no accepted session lost or delivered twice, every raw listener closed once, close ends |
| TCP connection | `conn.go` | closed and half-close flags, two deadlines with timers | Read, Write, CloseRead, CloseWrite, Close, SetDeadline | every blocked call is woken by what should wake it, and only by that |
| Lifecycle and Shutdown | `lifecycle.go`, `shutdown.go` | registry, pending dial count, drain channel, shutdown flag | add, remove, beginDial, waitDrain, Shutdown | Shutdown sees what exists, ends, and leaves nobody in VLS |
| Listener | `listener.go` | closed flag, done channel | Accept, Close | Close ends accepts |
| Dialer | `dialer.go` | one goroutine per attempt, its error poller, count of results to come | DialContext, connectWait, happy eyeballs, cleanup | one winner, losers closed, failure only after every address, nothing left running or open |
| PacketConn | `packetconn.go` | peer map, bounded queue | accept loop, peer loops, ReadFrom, WriteTo, Close | Close ends, no peer session leaks, datagrams in order, a returning peer reachable |
| UDP connection | `udpconn.go` | as TCP, without half close | Read, Write, Close | as TCP |
| VLS lock, thread registry | `cgo.go` | RW lock, thread ids | enterVLS, register, app create and destroy | registration excludes calls, calls come from registered threads, everybody gets the lock |
| C shims | `cgo.go` | none | create, certificate, bind, listen, connect | whoever fails, the session is closed once |
| TLS certificate cache | `tls.go` | one `sync.Once` per config, map of key pairs | resolve, ListenTLS, DialTLS | one index per pair in VPP, and the right one in each session |
| Constructors | `vclnet.go` | none | Listen, ListenPacket | an error leaves nothing open |
| Options, addresses, errors, examples | `vclnet.go`, `addr.go`, ... | none | pure | conversions |

How they interact: the public objects (connection, listener) call the
dispatcher, which is either Mode 3 (any thread calls VLS under the read side of
`vlsMu`; blocked callers park in the shared poller) or Mode 2 (each session
belongs to one worker thread; callers submit closures and wait for replies).
Cancellation flows down as a closed `done` channel; readiness flows up as a
closed `ready` channel. Shutdown reaches every object through the registry and
the dispatcher below them last.

The behaviours that are hard to test are listed in `PROJECT.json` under
`hazards`, each at its line with the properties that watch it: cancellations
that overtake registrations, handles that are reused while a stale waiter or a
stale owner lookup exists, timers that start when they are being stopped, full
queues of a worker that stops, a shutdown that races constructors and closes,
accept loops that hold a session when their listener goes, results counted by a
loop that three channels feed, and a lock that its most frequent holder takes
again at once.

## Modules

| Module | Models | Notes |
|---|---|---|
| `ReadinessWait` | what a readiness wait promises | abstract; implemented by `Poller` |
| `SessionStore` | what a dispatcher promises its callers | abstract; implemented by `Mode2` |
| `Poller` | `poller.go`, the waiting and closing half of Mode 3 in `cgo.go` | one wait is one call of `mode3PollWaitContext` and its waiter |
| `Mode2` | `mode2.go`, `worker.go` | goroutines make repeated calls; a public handle names a session |
| `ShardedListener` | `shard_listener.go`, the raw wait sets of `worker.go` | one listener from creation to Close; `submit` taken by its promise |
| `Conn` | `conn.go`, `udpconn.go` | one connection of either kind, dispatcher reduced to its promise |
| `PacketConn` | `packetconn.go` | VLS calls and deadlines taken by their promise |
| `Dial` | `dialer.go`, `WakeVLSH` of `dispatch.go` | one dial with all its attempts; `PollWaitContext` taken by its promise |
| `Lifecycle` | `lifecycle.go`, `shutdown.go`, `listener.go`, one dial against Shutdown | both modes |
| `Endpoint` | the lock, thread and C half of `cgo.go`, `tls.go`, `Listen` and `ListenPacket` of `vclnet.go`, `AppInitWithOptions` | Mode 3; connecting is abstract (`Dial`), and so is Shutdown before it stops the poller (`Lifecycle`) |
| `Poller_proofs`, `Mode2_proofs`, ... | | invariants and theorems, one module for each of the eight modules above |
| `MCPoller`, `MCMode2`, ... | | instances for TLC |

The modules lean on each other by promises: what `Poller` and `Mode2` show of a
wait (it ends when it is woken, cancelled or stopped, and loses nobody) is what
`Conn`, `PacketConn` and `Dial` assume of theirs; what `Mode2` shows of `submit`
is what `ShardedListener` assumes; `Endpoint` shows that a VLS call may be one
step in all of them.

### Poller

`ppc` is the loop's position, and one action is one item of a drain loop, so a
caller can get between any two. `waiters[h] = {}` stands for a handle without a
wait set. Event masks are sets of bits. `vls_epoll_ctl` may fail at any time and
can only succeed on an open session; `EPOLL_CTL_MOD` only on a session that
epoll holds. `VlsClose` removes the session from epoll and `Reuse` hands its
handle out again, with `gen` telling the incarnations apart; `born` remembers the
incarnation a wait was made on. `startMu` is explicit because the first `start`
holds it until the loop is up. Operators whose name carries a suffix
(`Shrink_Keeps`) and the comment `mutant` are altered copies used to show that a
property notices the alteration; no specification uses them.

### Mode2

`owners`, `sessions` and `vls` are the three tables that must agree: the
dispatcher's map from public handle to worker and raw handle, the worker's map
from public to raw, and the session VLS really has behind a raw handle.
`misrouted` records a raw call that reached another session than the one named.
A call is a chain of operations (`op`): attempt, then add a waiter, park, perhaps
cancel, then attempt again. `drainOps` runs one closure per step. An event is
taken and handled in one step because only the worker touches its wait sets.
Calls that begin after `appLive` is false are refused without effect and left
out. `nextHandle` has the width of the code's counter; allocation stops before
it wraps (`AllocBound`).

`SessionStore` is what a caller may rely on without knowing of workers, queues
and raw handles: a set of open sessions, and calls that each take effect in one
step between their beginning and their return. `Mode2` implements it with the
owner map as the set of open sessions (`LiveBar`), the handles up to `nextHandle`
as those given out (`UsedBar`) and the worker's answer to the operation that ends
a call as its step (`StatusOf`). What the store allows and a caller might not
expect: a call that took effect may still return ErrClosed when the worker
quiesces before the answer is read, and a wait or I/O call may return "canceled"
or "false" without a cancellation (a failed `epoll_ctl` ends like one).

### ShardedListener

`apc` is the position of each accept loop, `hold` the session it has accepted
and not handed over, `raw` the VLS listener of each shard. A submitted closure
runs in one step, is refused when the dispatcher is stopping, and its answer may
be lost when the worker has quiesced. `key` is the entry `^raw` of the worker's
session table, kept apart from the wait set because the code leaves it behind
after an event. `closedTwice` records a second `rawClose`.

### Conn

Channels are numbered, so `closedChs` says which of the channels ever made are
closed while `myCh` is the one a call took before it parked. `firing` holds the
timer callbacks that have started and wait for the mutex: `Stop` cannot recall
them. The I/O loop is cut at each shared read: flags, deadline, channel,
attempt. A TCP connection checks its half-close flag first and sees the end of a
stream; a connected UDP one checks the same state before every attempt and has
neither half closes nor partial writes. `session` is open, closed by Close, or
down with the dispatcher: an attempt on a closed session fails with what VLS
says, and only the end of the application is sure to be reported as "closed".
`vls_shutdown` may fail; the `sync.Once` of a half close does not try again.

A cancelled wait (`Canceled`) sends the loop back to its checks without a word.
`RetriesEnd` says that this happens finitely often to each call: whatever
cancelled the wait, the flags, the deadline or a fresh channel stop the loop.

### PacketConn

`apc` and `rpc` are the accept loop and the read loops, one per session; `peers`
maps an address to a session. `displaced` names the sessions whose entry a newer
session of the same address took over. Datagrams are numbered per session, which
is all `InOrder` needs; `Queued(s, i)` counts those of a session among the first
`i` entries of `incoming`. The caller's deadline may expire or be replaced at any
time.

### Dial

`sess` is what VPP knows of each attempt's session: pending, up, failed with an
event, or failed silently. Handles are reused as soon as they are closed, so a
late `WakeVLSH` can reach another attempt's waiter; `woken` tells a wake-up of
the attempt's own from such a stray one, and from a waiter that could not be
registered. A wake-up of the attempt's own means that its handshake is over
(`AttemptOK` in the proofs); what a stray one does is described under "What the
code does not promise". `left` is the count the cleanup goroutine got. The two loops of
`interleaveAddrs` are recursive functions (`byFamily` sorts, `Take` is one
round); TLC checks every list of up to four addresses, the proof has any length.

### Endpoint

A caller initialises the library and makes one endpoint. Every VLS call is cut
where threads meet: pin and look up, announce the write lock, get it, register,
take the read lock, return. `writer` is set from the announcement on, which is
what keeps new readers out of a Go `RWMutex`. `workerRegistry` is the code's map,
`vclWorkers` what VCL knows. The C shims are sequences of steps; a failure picks
the step that fails, and `ClosedByC` and `parseConnectResult` say who closes.
`store` is VPP's certificate store, whose first free index goes to whoever asks
next: another config, or another application of the same VPP (`ForeignPair`).
`DelCertKeyPair` may fail and `resolveCKPair` ignores that, so that the pair
keeps its second index; `leaked` remembers those indices. `RightCertificate`
speaks of the open sessions first: the index of a session still has the pair of
its config. Then of the store: once nobody is inside `once.Do`, every copy of a
pair is the one in `ckpairCache` or one of `leaked`. `vls_app_destroy` empties
`vclWorkers`, and `CallsFromWorkers` ends there: what VLS does with a later call
is not defined.

A thread stands for its pthread id. The poller returns locked to its thread,
which the Go runtime then ends; the id could come back with a new thread that
`workerRegistry` takes for registered. The model gives the poller's thread to
nobody else and so does not ask what would happen (the poller ends only in
Shutdown, right before `AppDestroy`).

### Lifecycle

An object is named after the call that makes it. `kpc` walks through the body of
the `sync.Once` in `Close`; whoever comes second waits for `done`, which is how
`CloseNext` waits for a Close the application runs. The VLS calls of a
constructor (`ListenTCP`, `SetV6Only`, `GetLocalAddr`) are one step here,
`VlsCreate`, which matters to the registry only by succeeding or failing;
`Endpoint` has them one by one. `mode2` is chosen at the start; `late` records which operations called VLS after `AppDestroy`.

## Runs

| Run | Question | Bounds | Result |
|---|---|---|---|
| `poller` | wake once, no lost waiter, mask is union, a cancellation takes only its own waiter, quiet after stop; `Poller` implements `ReadinessWait`; cancel, stop and close return (`CallersReturn`) | 2 waits on one handle with different masks, one of them with a terminal bit (so a set can shrink and stay), 1 closer, 1 reuse, channels of 1 so that they fill | holds, 287 k states |
| `poller_reuse` | a reused handle is clean | 2 waits, 1 reuse | violated, finding 1 |
| `mode2_sessions` | no foreign session, tables and wait sets agree, nobody stranded in submit or a wait; `Mode2` implements `SessionStore` | 1 worker, 2 goroutines, 1 raw handle (so every creation is a reuse), 2 public handles and a third allocation that must be refused, queue and batch of 1; all calls but plain I/O, whose steps accept shares | holds, 955 k states |
| `mode2_workers` | destroyed last; appInit, stop and every call end | 2 workers, 1 goroutine with waits and close, 2 public handles, every appInit failure | holds, 108 k states |
| `sharded` | accepted sessions accounted for, also by the drain; raw listeners closed, and once; parked loops wake, Close returns | 2 shards, 2 connections to one of them, fan-in channel of 1, 1 acceptor, workers that stop | holds, 262 k states |
| `conn` | no spurious cancel, no deaf wait, a cancelled wait is not retried for ever, deadlines and Close end calls | 1 Read or Write on TCP or UDP, 1 setter, 2 instants | holds, 190 k states |
| `conn_half_close` | CloseRead ends a parked Read | 1 reader, 1 setter, 2 instants | violated, finding 2 |
| `packetconn` | newest session reachable and no insert into a nil map, order kept, nothing left open, Close returns | 2 sessions of one address, 3 datagrams, queue of 1, resets and errors | holds, 590 k states |
| `dial` | exact count and failure only after all, interleaving fair, no session and no goroutine left behind | 2 addresses, 2 handles | holds, 42 k states |
| `lifecycle` | registry shows what exists, nothing forgotten, Close (and in Mode 2 everybody) stays out of a destroyed application; drain, Shutdown and accepts end | 1 listen, 1 dial, 1 accept, all timeouts, both modes | holds, 173 k states |
| `lifecycle_drain` | a drain ends when everything is closed | 1 listen | violated, finding 3 |
| `endpoint` | registration and destruction run alone, calls come from workers, failure leaves nothing, right certificate and one index per pair, constructors and destruction return | 2 callers, 3 threads, 2 configs with the same pair, one with another and one with half a pair, 2 indices that a foreign pair may take, all four constructors, Shutdown at any time | holds, 523 k states |

The code is symmetric in waits, goroutines, setters, dials and handles, and its
interactions are between two or three of them (one that leaves, one that stays,
one that comes late), which is what the bounds provide. Queue capacities are
reduced to one or two so that they fill. The halves of a connection share only
`closed` and the shutdown flag, so each run of `Conn` sets, shuts and feeds one
of them, and `NoSpuriousCancel` watches both. Deadlock checking is off throughout:
all these systems may come to rest, when every call has returned; that nothing
gets stuck is what the liveness properties say.

### Fairness

Weak fairness of the steps of a goroutine or a worker: the Go scheduler runs
what is runnable, and `vls_epoll_wait` returns after its timeout (100 ms in
Mode 3, 10 ms in Mode 2), so the loops keep turning. `Send` of Mode 2 has strong
fairness: a goroutine blocked on a full channel is in the channel's queue, first
in first out, and is not overtaken for ever. Timers fire. Shutdown closes what
is in its snapshot. In `Dial` an event VPP has raised is delivered, and in
`Endpoint` a connect ends. Nothing is assumed of peers, of applications (nobody has to
call, cancel, close or shut down) or of `vls_epoll_ctl`. In `Conn`, a shutdown
that has begun closes the connection; this is so for every drain timeout but
zero, which waits for the application.

### Findings

1. `poller.go`: cancellation and registration travel over different channels. A
   cancellation that is drained before its registration finds nothing, and the
   waiter of a finished call is registered afterwards, also behind the
   unregister barrier of `mode3Close`. When VLS reuses the handle, a wait for
   the same mask joins the leftover set without an `EPOLL_CTL_ADD`; it is never
   woken by an event.
2. `conn.go`: `SetReadDeadline` after `CloseRead`'s interrupt gives a reader
   that had already passed the flag check a fresh channel; it parks on it.
3. `listener.go`, `lifecycle.go`: an object is added to the registry before its
   `tracked` flag is set. A listener that Shutdown closes in between is never
   removed; a drain with zero timeout does not end, any other one waits its full
   time.

### What the code does not promise

Some properties are stated with the exception the code needs. Each exception is
a behaviour the model has, and a reader of the code should know of:

- `AcceptedIsSomewhere`: an accept loop that is told to stop while it holds an
  accepted session ends with it; the session stays open without an owner.
- `CloseReturns` of `PacketConn`: a loop with an error to report waits for room
  in `incoming` without looking at `stopCh`; with the queue full and no reader,
  `Close` does not return.
- `NothingLeftOpen`: a session whose entry in `peers` was taken over by a newer
  one of the same address is closed only if its read loop meets an error.
- `CloseStaysOut`: in Mode 3 a `DialContext` or `Listen` that passed its check
  before Shutdown set the flag calls VLS after `AppDestroy` if it is not counted
  yet, and so does a counted dial whose drain timed out, although
  `shutdown.go:73-74` says that "no application goroutine will re-enter VLS".
  Mode 2 refuses the call in `submit`.
- `RightCertificate`: a release that fails leaves the pair in VPP's store a second
  time, for good.
- `TLSConfig` keeps the error of its first resolution for good: after one failed
  `AddCertKeyPair` every later use of that config fails (`Resolved`).
- An accept error other than EAGAIN ends a shard's loop; the listener goes on
  with the others (`SendErr`).

Two claims the repository makes of `connectWait` are false of the code, and no
run checks them. `Dial` has both behaviours, and TLC finds a counterexample to
each formula at once:

- "a nil result means the connect completed successfully"
  (`internal/vclpoll/dispatch.go:255-257`), the "no spurious success" of
  `docs/connect_error_investigation.md:228-229`, would be the invariant
  `\A i \in Attempts : apc[i] = "finish" => sess[i] = "up"`. `connectWait` asks
  for an error after any wake-up and takes its absence for success. A waiter that
  could not be registered (`PollWait`: the poller wakes it when
  `EPOLL_CTL_ADD` fails) finds no error on a session that is still pending, five
  states into the run; so does one that the late `WakeVLSH` of an attempt already
  over reaches through the reused handle.
- "the `connectWait` background polling should always detect the error"
  (`docs/connect_error_investigation.md:230-232`, also `:377-382`,
  `docs/architecture.md:291-294` and `dialer.go:130-136`) would be
  `apc[i] = "wait" /\ sess[i] = "silent" ~> apc[i] # "wait"` for every attempt.
  The error poller calls `WakeVLSH` once and goes. If VPP records the failure and
  the poller ticks before `PollWaitContext` has registered the waiter, the
  wake-up reaches nobody; no event comes, no poller is left, and only the end of
  the context ends the wait. (It takes a goroutine that is held up for the 50 ms
  of a tick between starting the poller and registering.)

What does hold, and what `LosersClosed` shows, is the damage's limit: such an
attempt is counted like any other, ends with the context, and leaves neither its
session nor its goroutines behind.

## Proofs

TLC says that a property holds on one small instance; the theorems say it for
every value of the constants: any number of calls, goroutines, workers,
connections, addresses and handles, any channel capacity, any number of
instants, generations and datagrams. Every safety property that a passing run
checks is a theorem.

Each proof module has the same shape. It defines an inductive invariant as a
conjunction of named parts, most of them about one call, worker, session or
object. Lemmas summarise what each action does to one of these (which entry of
which function changes, what stays), so that the step of each part is argued
from the summaries and not from the actions. `StepCases` splits `Next` by who
acts. The theorems at the end combine the steps. Each invariant was checked by
TLC on the instance of the component's run before it was proved.

| Module | Theorems | From |
|---|---|---|
| `Poller_proofs` | `TypeCorrect`, `PlacementInvariant`, `WakeOnceHolds`, `NoLostWaiterHolds`, `InterestIsUnionHolds`, `QuietAfterStopHolds`, `CancelIsExactHolds`, `ImplementsReadinessWaitHolds` | masks are not empty, the capacity is positive, `NoOne` is no wait |
| `Mode2_proofs` | `TypeCorrect`, `DispatcherInvariant`, `TablesAgreeHolds`, `RawCallsHitTheirSessionHolds`, `NobodyStrandedHolds`, `DestroyedLastHolds`, `ClosedMeansClosedHolds`, `ImplementsSessionStoreHolds` | at least one worker, positive queue and batch, the handle limit fits in the counter; all but `TypeCorrect` also from `[]NoWrap` |
| `ShardedListener_proofs` | `ShardedInvariant`, `RawClosedOnceHolds`, `AcceptedIsSomewhereHolds` | at least one worker, a positive capacity, each connection has a home worker |
| `Conn_proofs` | `TypeCorrect`, `ConnInvariant`, `NoSpuriousCancelHolds`, `NoDeafWaitHolds` | kinds are TCP or UDP |
| `PacketConn_proofs` | `PacketConnInvariant`, `NewestIsReachableHolds`, `NothingLeftOpenHolds`, `InOrderHolds` | a positive capacity, each session has an address |
| `Dial_proofs` | `DialInvariant`, `OutstandingExactHolds`, `InterleavingIsFair`, `InterleaveFairHolds` | at least one address; nothing for `InterleavingIsFair` |
| `Lifecycle_proofs` | `LifecycleInvariant`, `RegistryIsLiveHolds`, `CloseStaysOutHolds`, `NothingForgottenHolds` | an object is a listen, a dial or an accept; finitely many dials (they are counted) |
| `Endpoint_proofs` | `TypeCorrect`, `RunsAloneHolds`, `CallsFromWorkersHolds`, `FailureLeavesNothingHolds`, `RightCertificateHolds` | more threads than callers, plain kinds carry no config, process names are distinct, the foreign pair is none of the configs' |

Why the properties are not inductive by themselves, and what carries them:

- `Poller`. That a wake-up is the first one follows from the waiter having been
  in the queue or in the set just before, and in only one of them, once.
  `Placement` says so: a call that has not sent its waiter has it nowhere and
  unwoken; a sent one that is not woken is in `regCh` (without duplicates) or in
  the set of its own handle, never in both; a woken one is in neither.
  `InterestIsUnion` is inductive relative to the types; `QuietAfterStop` needs
  what `stop` and `startMu` guarantee while it waits. `CancelIsExact` is an
  action property: only `drainCancellations` shortens `cancelCh`, and `ShrinkOne`
  says what that does to another waiter. The refinement maps each step: a step of
  the poller is `Wake` of the calls whose `ready` goes from 0 to 1 (`Placement`
  says they were made and not woken), Close is `Cancel`, the first `stop` is
  `GoDown`, and the returns need `Answers`: only a cancelled call withdraws, and
  the loop ends only after `stop` has disabled the poller.
- `Mode2`. `CallOK` says which positions of a call go together, `AppOK` where
  appInit, the workers and stop are, `QueueOK` that an operation that waits for
  its answer is in the queue of the worker it was sent to, once, unless that
  worker has quiesced, `QuietOK` that nothing happens before the application is
  live. `TableInv` is the heart: a session table entry, its owner and the VLS
  session point at each other, a handle beyond `nextHandle` is in no table, and
  the owner a call has looked up is either still the one in the map or its
  handle is gone for good. A public handle is never given out twice, which is
  why a stale owner cannot name a new session. `WaitInv` ties the wait sets to
  the goroutines. The refinement maps each step: an operation that a worker runs
  is what `OpEffect` says of it (`TableInv` says that the session it finds is the
  one the caller named, and that there is none left when it finds none), a
  refusal in a shutdown is `Refuse`, the closing of what is left is `Sweep`, and
  a return needs to know the operation a call of its kind makes (`KindOK`) and
  why ErrClosed is returned (`ClosedTold`). `ClosedMeansClosed`, the same fact
  without the store, is a theorem of its own. That handles are never given out twice is true only until the
  32-bit counter wraps, which takes four billion sessions in one process:
  `NoWrap` is this premise, and the theorems carry it openly.
- `ShardedListener`. `RawOK` gives the state of each raw listener from the
  position of the goroutine that creates and closes while workers run, and says
  that a key in the session table stands for an open listener, which is what
  makes a second `rawClose` impossible. `PeerOK` says that a connection is in one
  of backlog, loop, `acceptC` and application at most. `LoopOK` says that the
  loops run only between `startAcceptLoops` and the wait of Close, so that the
  drain is final (`DrainedOK`).
- `Conn`. `ChannelOK`: older channels of a half are closed, newer ones are
  neither closed nor about to be, and a callback for the current channel belongs
  to a deadline that has passed. `CallChannels` ties the channel a call took to
  these. The model numbers channels with `Nat`, so that no bound enters.
- `PacketConn`. `SessionOK` says who refers to an open session: the accept loop,
  its read loop and the map, or nobody, when a newer one displaced it. `OrderOK`
  gives the number of each queued datagram from the delivered ones and its place.
- `Dial`. `OwnerOK` and `Holds` say whose session a handle stands for, with
  handles reused at once; `CountOK` that `outstanding`, and later `left`, is the
  number of attempts under way plus the results in the channel. That a handle is
  free for each attempt is the pigeonhole principle. `InterleavingIsFair` is an
  induction over data. The library's induction theorems take an operator, which
  the provers cannot instantiate; the induction is over a set of numbers instead
  (`SetInduction`, from the least number principle), first for the existence of
  the function a loop defines (`LoopExists`), then for what holds after each of
  its rounds (`LoopStays`): `Families` for the sorting loop (each family in
  order, nothing lost), `Rounds` for the merging one (the result is what was
  taken so far, and whose turn it is).
- `Lifecycle`. `ObjectOK` derives from the positions of constructor and Close
  whether an object is in the registry; `CountOK` that `pendingDials` is the
  number of dials between `beginDial` and `endDial`; `PhaseOK` what Shutdown has
  done. `NothingForgotten` speaks of two moments; `Kept(o)` is the invariant that
  holds from the first on.
- `Endpoint`. `LockInv` (the readers are the actors in a call, and an actor past
  the write lock has nobody beside it), `WorkerInv` (relative to `AppInv`: no
  application is created after the first has gone), `SessionInv` (an open session
  has a constructor that answers for it), and for the certificates `OnceInv` and
  `StoreInv`: every index in VPP's store that has one of the pairs is in the
  cache, leaked, or held by the one goroutine that is about to publish or delete
  it, and nobody else holds that index, which is why a released one is in no
  session and may go to anybody.

Every module has a type invariant: a theorem of its own, or the first part of
the invariant, which `ShardedInvariant`, `PacketConnInvariant`, `DialInvariant`
and `LifecycleInvariant` establish.

Only model-checked:

- the liveness properties (`CallersReturn`, `StopCompletes`, `CallsEnd`,
  `RetriesEnd`, `ShutdownEnds`, `ParkedLoopWakes`, `CloseReturns`,
  `LosersClosed`, `CallsReturn`): they rest on fairness and `ENABLED`,
  outside the prover's reach;
- the three properties that the code violates.

## Not modelled

Payloads and partial reads beyond "some, none, would block, error"; addresses
and their conversions (`addr.go`), error wording (`errors.go`) and the
`http.Transport` constructor; `resolveInitOptions`, a pure choice; the one-call C
wrappers (what they return is a nondeterministic choice) and the TCP and UDP
connect shims, which are the TLS one without its certificate step; the blocking
legacy dial helpers; `ReadFrom` and `WriteTo` of an unconnected `udpConn`, which
no constructor makes; PacketConns in the registry; the signal handler; Mode 3
I/O on a handle that is reused while the call is woken (`cgo.go:986`; it needs
`Conn`, `Poller` and the handle pool in one state space; for Mode 2
`RawCallsHitTheirSession` answers the same question).
`newShardedListener` takes its public handle without the limit that
`registerSession` checks; `ShardedListener` has one listener and does not count.

## Plan

The components are modelled, their safety properties proved, and the two
dispatchers shown to implement what they promise (`ReadinessWait`,
`SessionStore`). What could come next: `Conn` and `Dial` on top of the abstract
specifications instead of promises of their own; shorter proofs where a lemma
serves two modules (Boolean functions, queues); and the composition of `Conn`,
`Poller` and a pool of handles, for the one question named under "Not modelled"
that no module asks.
