# BloxMiner in TLA+

TLA+ modules, TLC configurations and TLAPS proofs about BloxMiner, a VerusHash
CPU miner. The reference is the code; everything here was translated from it.
Paths below are relative to the repository.

## The system

BloxMiner is one process. `main()` reads options and a configuration file and
starts a `Miner`, which owns four kinds of thread:

| Thread | Code | Talks to |
|---|---|---|
| stratum thread (1) | `Miner::stratum_thread`, `StratumClient` | the pool (TCP); the mining threads through `on_new_job` |
| mining threads (N) | `Miner::mining_thread`, `verus::Hasher` | the shared job; the pool, through `StratumClient::submit_share` |
| stats thread (1) | `Miner::stats_thread` | the terminal, a statistics file |
| API server (1) | `utils::ApiServer` | HTTP clients |

and the main thread, which waits until the miner runs no more; `Miner::stop` is
called by the destructor of `Miner` (`src/miner.cpp:34`).

### Components: state, operations, interactions

**Pool failover** (`src/miner.cpp:152-259`). State: `m_current_pool_index`,
`m_current_backoff_seconds`, `m_last_primary_retry`, and the local
`consecutive_failures`. Operations: an attempt (connect, subscribe, authorize),
a session that ends, `handle_failure` (switch or keep the pool, sleep, double
the backoff), stop. It decides on timers and on counters that are reset at
several places. Correct when: a pool is left only for cause, waits are bounded,
a pool that works is found, and stop ends the thread.

**Stratum client** (`src/stratum/stratum_client.cpp`). State: `m_socket`,
`m_connected`, `m_running`, `m_recv_buffer`, `m_extranonce1`, `m_difficulty`,
`m_pool_target`. Operations: connect, disconnect, subscribe, authorize, run,
stop, submit_share, and the handlers of notifications and responses. Three
functions read the same stream of lines, responses are told from one another by
position, and what is learned from one connection is kept for the next; and the
mining threads send the last connection's shares on the next one. Correct
when: no job is lost or replayed, a job carries what the pool announced, run()
is entered only when authorized, the verdicts reported are verdicts on shares, and
a handshake ends.

**Mining threads** (`src/miner.cpp:367-559`). Shared state: `m_current_job` and
`m_has_job` under `m_job_mutex`, `m_job_cv`, `m_running`; per thread: its copy of
the job. Operations: wait for a job (100 ms at most at a time), copy it, hash a
batch with an unlocked look at the job id, lock and compare and submit a share.
Correct when: a share goes out with the id and time of the job it was hashed
for, every thread follows the last job, and stop ends every thread.

**Nonce ranges** (`src/miner.cpp:388-398, 410-525`). State: `nonce`,
`batch_end`, `uint32_t` both. Correct when: no two threads hash the same nonce
of a job, no nonce is hashed twice before the others, and hashing goes on.

**Hasher** (`src/crypto/verus_hash.cpp`, `src/crypto/verus_clhash_v2.c`). State
of each mining thread's `Hasher`: the key, its pristine copy, the list of
entries the last hash has modified; and the two buffers of the streaming hash,
which change places and outlive a message. Operations: `prepare_key`,
`hash_half`, `hash_with_nonce`, `hash_raw`. Correct when: every hash starts from
the pristine key, nothing of one message gets into the hash of the next, and the
two stages of the miner's hash come to the hash of the whole block.

**Shutdown** (`Miner::stop`, `StratumClient::stop/disconnect`). `m_socket` is a
plain `int` that two threads test, close and reset at once, and the numbers it
holds are the process's: what one thread closes another may be given. `stop()`
waits for the API server, then for each thread, and these wait for
`m_job_mutex`. Correct when: stop returns, nothing stays open, and no thread
closes what is not its own.

**API server** (`include/utils/api_server.hpp`). State: `m_running`, `m_socket`,
the client it serves. Operations: `start`, the accept loop, which serves one
client at a time and calls back into the miner for the statistics, and `stop`,
which closes the socket under that loop and joins it. Correct when: stop
returns, every descriptor is closed once, and none by somebody else.

**System monitor** (`include/utils/system_monitor.hpp`). One object, which the
stats thread and the API's callback use without a lock. State: the last energy,
its time, the last power. Operation: `get_stats`. Correct when: the power shown
is one the CPU has drawn.

**Configuration and command line** (`src/config_manager.cpp`, `src/main.cpp`).
State: the options, the configuration, three files. Operations: parse, load,
merge, ask, save, complete. Each source has defaults, limits and conversions of
its own. Correct when: the documented precedence holds, what is saved runs again,
and every number fits what it indexes.

**Targets** (`src/utils/hex_utils.cpp`, the handlers of `stratum_client.cpp`).
State: `m_difficulty`, `m_pool_target`, `m_has_pool_target`, the job's target.
Operations: the pool's announcements, a job's target, the comparison. Correct
when: a hash is submitted exactly if the pool asked for it, whichever way it did.

**Haraka, CLHash** (`src/crypto`): arithmetic on 128-bit words. **Logger**,
**display**: output. **Scripts, Docker, the vendored
`nlohmann/json.hpp`**: not the program's own logic. **Tests**: read for what
they say of the program.

### What is hard here

Shared state read without its lock (`m_current_job.job_id`, `m_extranonce1`,
`m_socket`); a condition variable notified without its mutex; a thread that
sends on the network while it holds the mutex the receiving thread needs;
responses that are not matched with requests; state of one connection read in
the next; blocking calls without a timeout; timers that compete with counters;
32-bit arithmetic at its limit; buffers and keys that are used again; file
descriptors that are numbers. `PROJECT.json` lists each hazard with its line
and the properties that watch it.

## The modules

| Module | Models | Uses |
|---|---|---|
| `PoolRotation` | what failover promises: an abstract specification | |
| `Failover` | `Miner::stratum_thread` | `PoolRotation` (refinement) |
| `StratumClient` | the client and, as external, the pool | |
| `MiningThreads` | mining threads, `on_new_job`, their part of `stop` | |
| `Miner` | client and mining threads composed | `StratumClient`, `MiningThreads` |
| `NonceRange` | nonces and batches of the threads | |
| `Descriptors` | the file descriptors of the process | |
| `Shutdown` | `stop()` and `disconnect()` against the stratum and the stats thread: actions | `Descriptors` |
| `ApiServer` | the API server: actions | `Descriptors` |
| `MinerStop` | `Miner::start` and `Miner::stop`: the two before composed, with a mining thread and `m_job_mutex` | `Shutdown`, `ApiServer` (INSTANCE) |
| `HasherKey` | the key of a thread's `Hasher` and its restoration | |
| `Hasher` | what a `Hasher` hashes: the streaming hash and the two stages | `HasherKey` |
| `SystemMonitor` | the CPU's power between two readings, under several threads | |
| `Target` | targets and difficulties down to the bytes compared | |
| `Configuration` | options, files, setup and defaults over several starts | |
| `MC*` | instances for TLC | |
| `Mining_proofs` | theorems about `MiningThreads` and `NonceRange` | both |
| `Miner_proofs` | theorems about `StratumClient` and `Miner` | `Miner` |
| `Hasher_proofs` | theorems about `HasherKey` and `Hasher` | `Hasher` |
| other `*_proofs` | theorems about the module before the underscore | that module |

An operator whose comment says *mutant of X* is a bug one could make in X; it is
used by no specification. `PROJECT.json` names, for each property of each run, a
mutant that breaks it.

### Failover

`pc` follows the function: `loop` (the test of `m_running`), `handshake`,
`session` (blocked in `run()`), `handle_failure`, `sleep`, `done`. The client's
calls are reduced to their outcome; how long they take is chosen from `FailTime`
and `SessionTime`, in seconds, because the outcome of line 234 depends on it.
`elapsed` is the time since `m_last_primary_retry` and saturates at the interval
it is compared with. `refused`, a history variable, counts what the code has no
counter for: the handshakes the current pool has itself refused. It is what
`PoolRotation` is about, since `consecutive_failures` also counts lost
connections, and `continue` at line 217 skips `handle_failure` for these.

### StratumClient

The thread's calls are in the order of `stratum_thread`. A line is a record of its
kind and of the fields a property tells apart; an extranonce is known by the session
it is of and the way it was announced, a difficulty level is a number a pool does
not use twice, and a notification carries what the pool has announced by then
(`poolXn`, `poolLevel`), so that a job's coherence can be stated. Shares of the last
job go out at any moment, during a handshake too, as the threads' do
(`MinerSubmits`). `overtaken`, a history variable, holds the requests of the present
handshake that a share has been sent ahead of: the pool's answer to the share is
then the line the request takes for its own, and the properties say what still holds
where that has not happened. `recvBuffer` holds complete lines: `Recv` appends some
of those on the wire, `TakeLine` takes one. The pool, external, answers requests in
order, notifies from its subscribe answer on, and may close at any time, with or
without the loss of what it has sent. Its forms of answer, and the lines no handler
wants, are constants: a run says what its pools do.

### MiningThreads

One action per critical section or per statement outside one. The predicate of
the wait is evaluated with the lock held, and the thread then sleeps in a step of
its own (`CheckPredicate`, `FallAsleep`), because `stop()` notifies without the
lock. The unlocked read of the job id may see the old or the new id; a
read that is torn while the string is assigned ends the batch, and a batch may end
at any time in the model (`EndBatch`).

### Miner

The composition adds what each part leaves to its environment: a step of the
client that delivers a job is `on_new_job`, enabled only when the mutex is free,
and `Submit` calls `SubmitShare` with the mutex held.

### NonceRange

`Words` stands for 2^32, `N` for the number of threads, `Batch` for 65536 (or the
benchmark's). The test of line 521 and the addition of line 475 are modelled with
the width of their type.

### Descriptors, Shutdown, ApiServer, MinerStop

Descriptors are numbers the kernel hands out lowest first, and each is in use for
one of four things. Every statement that touches the client's `m_socket`, or the
server's, is a step, so a number closed by one thread may be somebody else's
when the other closes it. `up` says whether the connection to the pool is alive
for the reader, `listening` whether `accept()` can still return a client: it
holds on to the socket it was called on, whatever `m_socket` says afterwards.

`Shutdown` has the steps of the stratum thread, of the thread that calls `stop()`
and of the stats thread. The handshake is its two requests, each sent and then
waited for, and a notification before the answer to the second is delivered like
those of `run()`, with the mutex (`early`, `await`). `ApiServer` has the steps of
`start()`, of the server thread and of its `stop()`. `MinerStop` puts them together
as `Miner` does: the API server's `stop()` comes first and must return
(`StopAfterApi`), the threads are joined last (`JoinAll`). The mining threads are
one, `miner`, which may have found a share as `m_running` is cleared, and still
sends it, and may be blocked in `send()` with `m_job_mutex` held; `NeedsMutex` says
which steps of others wait for it. A connection that ends wakes it. What could let
`stop()` go on, a client that leaves or a pool that reads, is a step nothing obliges
to happen.

### HasherKey and Hasher

`key` is `m_cachedKey`, `pristine` its copy; a hash is `CopyKey` or the loop of
`Restore` steps, then one `HashRound` per round, which may take any two entries,
the same one twice included, and write anything. `jobKey` remembers the key
`prepare_key` made, which the copy and the restoration are compared with.
`HashRaw` is the other way of hashing; `mining_thread` does not use it between the
hashes of a job. If it did (`Legacy = TRUE`), `StartsPristine` would be violated.

`Hasher` adds the data. A buffer is a digest and a block of bytes; a byte is a
number of the input or a byte of a digest, and a digest is the term that makes
it, so that two inputs have one digest only if they are the same. What the
memory held before is a value of its own (`Garbage`). `Digesting` is the buffer
after each turn of the loop of `write()`, a recursive function of the number of
blocks digested, and `Write` puts what is left behind the last; `Reference` is what
a message should come to, written without buffers.

### SystemMonitor

`pc` follows `read_rapl_power()`, an action for each access to a member. `now`,
`current`, `seconds`, `power` are its locals, `verdict` says which branch it
returns from, `shown` what it has returned. Energy is in units of which the CPU
takes `Draws` in a tick, so a power is an energy over ticks, divided like the
code's; the counter starts anywhere, can be read or not from the constructor's reading
on, and wraps at `Range`, and a difference is
one of `uint64_t`. `disturbed` is a history variable: it says whether two
readers have been inside together, or one was held up between the clock and the
counter, in which case the difference has nothing to do with the time.

### Target

Bytes are digits of any base and a target has any number of them, a small base and a
few for TLC; the divisions and remainders are the code's. Powers, what is left of a
number, and the number a hash is are recursive functions of the number of bytes. A
job remembers what the pool had asked for (`asked`, a number), and is compared with
every hash there is. A target that is not hexadecimal leaves what the stack held,
any of `Leftovers`.

### Configuration

Settings are a function, options and files are partial ones, and precedence is
`Over`. `pc` follows `main()` from the options to the running miner; between two
starts a user may write, spoil or remove any file. A process may die between
the truncation and the write of `bloxminer.json`, or the write may fail, which
nobody looks at (`SaveFails`). A file is read whole or not at all: one in which a
port is no number is not loaded (`Readable`). `pool_host` and `pool_port` are
used only when there are no pools, and hold the defaults then. The miner's
constructor detects the number of threads with the same lines as `main()`.

## The runs

All passing runs use the defaults of the code where they are constants (three
failures, 5 to 60 s, 300 s).

| Run | Instance | What it shows |
|---|---|---|
| `failover` | 3 pools, one that accepts, two that may | the loop implements `PoolRotation`; no wait over 20 s; the working pool is found; stop ends the thread |
| `stratum` | 2 sessions, 2 pools of both forms of answer, 2 jobs each, a share at any moment | no job lost or replayed; jobs carry target and extranonce; run() only if the pool has answered this mining.authorize; no answer reported that no share was given: also where shares of the last connection go out in the handshake, up to what `overtaken` says |
| `stratum_live` | 1 session, every noise and form | every handshake ends |
| `mining` | 2 threads, 3 jobs with ids of their own, 2 shares | lock discipline, shares of their job, threads follow, stop ends threads |
| `miner` | 2 threads, 2 sessions, 1 job each, 2 shares | no deadlock of the mutex and the socket; shares in time; threads settle over a reconnection |
| `nonces` | 4 threads, 16 nonces, batches of 7, 2 jobs | disjoint, swept, restarted by every job |
| `miner_stop` | 3 descriptors, every thread | one connection at most, none left; the API server's files are its own and are closed; stop() returns unless the stratum thread was in connect(), and the API server's unless a client or, through the mutex, the pool holds it up |
| `hasher` | 2 entries, 2 words, 2 rounds; blocks of 8 bytes, 4 messages, 2 jobs, 2 nonces | every hash starts from the job's key; a `Hasher` used again is as good as new; the two stages agree with the whole |
| `system_monitor` | 2 readers, a counter of 13 values, 4 ticks | no power above the limit, and only powers drawn as long as the readers keep out of each other's way |
| `target` | base 3, 4 digits, 6 targets, 8 difficulties | the shares of a pool that announces targets are those it asked for; difficulties are written big-endian |
| `configuration` | 11 command lines, 3 files, 4 answers, saves that fail | options win; what was saved runs again; typed thread counts fit |
| `target_direction` | the instance of `target` | *violated*: difficulties give other shares than asked for |

Type invariants are proved for every value of the constants where there is a
module of proofs, and checked by TLC where there is none (and in `stratum`).

### Bounds, and why they are enough

Three pools are the least with a pool that is neither the primary nor its neighbour.
`FailureBound` caps a counter past the only value it is compared with. Two sessions
are the least in which state leaks from one into the next, and two jobs of a session
the least that can be reordered; one level and one change of extranonce per session
are enough for a job built before, between and after. In `stratum` one share is
enough to be in the way of either request of the second handshake; that a second one
changes nothing is what the theorems are for, and a `malformed`, `blank` or
`overlong` line, which ends a session or is ignored, is left to `stratum_live`.
`miner` has one job per session and two shares instead: the first share may be
answered in place of the handshake, and the second is then the one that is sent with
what that has led to (with a single share `SharesInTime` would hold of too much; see
`SharesCarryExtranonce` below). `MaxAuthLines` is 3 for the code's 10: both are
exhausted by notifications in the runs. Two mining threads compete for the mutex,
and three jobs allow a thread to miss one. With 4 threads, 16 nonces and batches of
7, one thread wraps as intended, two have a `batch_end` that overflows and one a
nonce that does, so all paths at the end of the range are taken. Three descriptors,
for four uses, are enough for a leak to show, for a number to be given to another
thread between two closes, and for every open to fail; the three counterexamples
about `stop()` below have four, and the theorems any number. Two entries and two
words suffice for an entry taken twice in a round or in two rounds, the case in
which the order of the restoration matters. Blocks of 8 bytes keep the positions of
the code's 32 (the nonce space ends one byte before the middle); the messages are
shorter than a block, whole blocks, blocks and a rest, and nothing. Four ticks are
two readings and what comes after them; the counter wraps between any two of them,
but not twice, since a CPU of 200 W takes twenty minutes for the usual range of 262
kJ. In base 3 with 4 digits, difficulty 1 has a leading zero as in the code, and one
of the difficulties does not fit. A port of 70000 does not fit 16 bits, and counts
of 4, 5, 6 and 11 are the last thread count that fits a table of 4, the first that
does not, one above it and one that a `uint32_t` of 10 values wraps. Deadlock is
checked except where the bounds on sessions and jobs stop the model
(`StratumClient`, `Miner`).

### Fairness

Threads are scheduled (weak fairness of each thread's steps); the calls they
make return, except `recv()`, which nothing bounds. `FairThread` and
`MinerFairSpec` assume nothing of the pool; `StratumClient!FairSpec` adds that
it answers what it is asked, or closes, and only `stratum_live` and the
violated runs use it. `Failover!LossySpec` adds that sessions end, which is the
question of `failover`. The wait for a job times out after 100 ms, and a batch
ends (its last nonce, line 477): weak fairness of `TimeOut`, within the thread's,
and of `EndBatch`. In `MinerStop!StopFairSpec` every thread is scheduled, and `start()`
and `stop()` go on once begun; the pool owes no answer and no reading, a client
of the API no request. Who waits for `m_job_mutex` there gets it if it is free
again and again (`SF` of `Deliver`, of `ReadStats` and of the stats thread's open):
a mining thread takes it for a share, after a great many hashes without it.
No fairness of a mutex is assumed elsewhere.

## Proofs

Checked by `tlapm`, for every value of the constants under their `ASSUME`s. Every
invariant the passing runs check is the conclusion of a theorem, and so is every action
property, under the hypotheses named here: each is a sentence about what pools
announce, or about the machine. Most of them are needed, and the counterexamples
below show what happens without.

*`Failover_proofs`.* `TypeCorrect`; `RotationRefined`, that the loop implements
`PoolRotation`; `ShortWaits`. The types are not enough: a switch must follow a
handshake the pool itself has refused, though `failures` counts lost connections
too. The strengthening relates `failures`, `refused` and `pc`
(`CountsThisPool`). `ShortWaits` needs in addition that the backoff is the
initial one doubled at most as often as there have been failures
(`BackoffFollowsFailures`).

*`Mining_proofs`.* About `MiningThreads`: `ThreadsTypeCorrect`; `MutexCorrect`;
`SharesCoherent`. The last assumes that no two jobs have the same id: without it the
property is false (`MCMiningReusedShare.cfg`). Its invariant adds that a thread
between the test and the submission has the current job's id, which no other thread
can disturb because `on_new_job` needs the mutex that thread holds.
About `NonceRange`: `NonceTypesCorrect`; `NoncesAreDisjoint`, assuming that the
number of threads divides the range. The invariant is that each thread's nonce and
everything it has tried are in its residue class, which addition modulo `Words`
keeps just when N divides it. `LanesAreSwept` needs no such assumption: a thread
either has hashed all of its lane up to where the wrap begins (`Swept`) or is on
its way through it, with nothing left out before its nonce and nothing hashed from
there on (`OnItsWay`). A nonce that overflows inside a batch leaves the lane only
when the lane has been swept.

*`Hasher_proofs`.* About `HasherKey`: `TypeCorrect`; `HashesStartPristine`, assuming
`~Legacy`. The invariant is that undoing the rounds noted so far leads from the key
back to the job's (`LeadsBack`): a chain of keys, one per round, each of which is the
next with its round undone. A round makes the chain longer by the present key, a
restoration shorter by its last.
About `Hasher`: `ReuseStaysSafe` and `StagesMakeTheHash`, for any size of a block and
messages of any length. The first rests on an induction over the blocks of a message:
after n of them the current buffer's low half is the digest of all before, whatever
the two buffers held, and its high half is either that of the block begun or is
overwritten before it is read. The second needs what the hasher has computed of its
job and nonce so far (`Staged`), the bytes of the nonce space being those that
`fillExtra()` would have put there. `HasherKeepsItsKey`: each step of `Hasher` is
one of `HasherKey`, or leaves it alone, hence `HasherStartsPristine`.

*`MinerStop_proofs`.* `TypesCorrect`; `ConnectionsUnique`, `AllIsClosed`,
`ApiFilesKept`, `ApiFilesClosed`, for any number of descriptors. The properties
are about the table of descriptors, and any interleaving of two `disconnect()`s
must keep them, double closes included. The invariant (`IInv` of `MinerStop`)
says that a pool connection has no number but `m_socket` (`SocketKnown`), that
`stop()` comes to the client when `m_running` is false and the API server gone
(`StopsInOrder`), so that the thread whose socket it closes is in its last session
(`LastSession`), and that before that everybody closes his own (`ClosesOwn`,
`ApiOwns`). The order of `Miner::stop` is what the API server's safety rests on:
with `StopsAtOnce` for `StopAfterApi` a second close hits its files.

*`SystemMonitor_proofs`.* `TypeCorrect`; `PowerStaysSane`, for any number of
readers, any counter and any time. The invariant adds that `lastPower` and each
reader's `power` are sane, and that no power is divided by less than
`MinInterval`. `PowerHasBeenDrawn`: between two readings that have kept apart, the
energy is that of the time between them, through a wrap of the counter, and so its
quotient lies between the least and the greatest draw. The invariant (`Unmixed`)
says of each reader what it knows where it is (`KnowsItsReading`), in terms of which
readings the counter can have passed from which (`Between`). It assumes that a file
that opens can be read (`MCSystemMonitorUnread.cfg`), and that the counter cannot
come all the way round unseen or that the CPU may draw nothing.

*`Miner_proofs`, the client.* `TypesCorrect`; `NoJobIsLost`; `JobsComeInOrder`;
`AuthorizedBeforeRun`; `JobsHaveTheirTarget`; `JobsHaveTheirExtranonce`;
`AnswersReported`; for any number of pools, sessions, jobs, lines and shares, and shares
at any moment. What
the client has not handled yet is one stream, the buffer and then the wire
(`Stream`), and every step takes from its front, puts at its end, or ends the
connection. The invariant (`Inv`): the buffer is empty without a connection, and
the wire with one that has not been opened (`OnConnection`); the notifications
in the stream are those after the last job delivered up to the last sent, in
order (`JobsFollow`); and where a response is awaited it comes before the first
notification (`ResponseFirst`), which is why `subscribe()`, whose reading drops
lines, drops no job. To it each of the others adds its own:

- `AuthorizedBeforeRun` adds that, unless a share has overtaken mining.authorize,
  each request is answered before the next is sent and nothing else is out
  (`Awaited`), so that the line taken for the answer is the answer, or one that
  comes after an answer `authorize()` could not read. Nothing is assumed of the
  pools, and `{"result":false}` is among the answers: the property says it is taken
  for success.
- `JobsHaveTheirTarget` assumes that all pools announce targets or none does, and
  adds that the announcements before a job in the stream lead from the level the
  client has to the one the job was sent under, and all of them to the pool's
  (`LevelsCarried`).
- `JobsHaveTheirExtranonce` says the same of the extranonce (`XnCarried`), but counts
  from the subscribe answer, which is first in the stream until it is read unless a
  share has overtaken mining.subscribe (`SubscribeAnswered`). Pools of any form and
  changes of any form are covered; the property says which of them the client reads.
- `AnswersReported` counts: the responses reported, those in the stream, and those
  still to come for requests and shares that are out, are no more than the pools
  have given or owe to shares, plus those the handshake has still to take for its
  own (`Tallied`). Which response it takes does not matter: if it takes a share's,
  its own is reported in place of that.

TLC's counterexamples to the plain statements are below (`JobsCarryTarget`,
`JobsCarryPoolExtranonce`, `TrueIfAuthorized`, `ReportsVerdicts`, `SharesCarryExtranonce`):
pools that announce otherwise, and shares sent ahead of a request of the handshake.

*`Miner_proofs`, client and threads.* `SharesComeInTime`, with threads that send
shares of any job they still have at any moment: the job the client has and those
the threads have are, each, of an earlier session, or carry the extranonce that the
client has now, and while the subscribe answer is out they are all of earlier ones
(`SharesHeld`). It assumes that no pool changes the extranonce in the form that is
read; otherwise a share of a job built before the change goes out after it, with
the new one, which is `SharesMatchHash` below. `ThreadsLoseNoJob`,
`ThreadsHaveTheTarget`, `ThreadsHaveTheExtranonce`, `ThreadsRunAuthorized` and
`ThreadsHaveTheirAnswers`: to the client a step of a thread is a share sent, of whatever
job, or no step (`MinerStep`), so the invariants of the client alone still hold.

*`Target_proofs`.* `TypeCorrect`; `SharesAsAsked`; `DifficultiesAreWritten`; for
every base, every number of bytes and every announcement. What the recursive
functions compute is proved by induction. The library's induction theorems take an
operator, but the least element of a set (`WFMin`) takes a set, and so do the
lemmas of induction and of definition by recursion made from it here (`SetInduction`,
`RangeInduction`, `Recursion`). The lemmas say that bytes written and read again give
the number, less what does not fit (`WrittenAndRead`), and that the last byte in which
two strings differ decides which number is greater (`LastByteDecides`), so that
`meets_target` compares numbers. The invariant then only says that the job's bytes,
and the pool's, are those of the announcement, turned round (`AskedIsKept`,
`JobIsAsAsked`).

*`Configuration_proofs`.* `TypeCorrect`, `OptionsWin`, `SavedConfigurationReturns`,
`ThreadCountsFit`, over any number of starts, with any command lines, files and
answers of which `InputAssumption` says only that they name settings, and that
numbers, addresses and switches are such. What one start saves another reads much
later, so the invariant (`IInv` of `Configuration`) follows the file: it holds what
was saved, and what was saved is something the questions may lead to
(`SavedIsThere`). That is what makes the way through the file lossless although it
is written without the display settings and read with other defaults (`ReadsBack`):
an arbitrary configuration would not survive it. The rest says how far a start has
come (`LoadedSoFar`, `AskedInOrder`, `ReadyToStart`). `ThreadCountsFit` assumes that
the number of cores fits, as nothing in the code checks it.

Only model-checked: the liveness properties, which are out of the prover's reach
(`ReachesAPool`, `StopEndsTheThread`, `HandshakeEnds`, `ThreadsFollow`,
`StopEndsThreads`, `ThreadsSettle`, `JobIsHashed`, `StopOutsideConnect`,
`ApiServerStops`).

## Where the code and what is said of it differ

Each line is a counterexample TLC finds; run `tlc -config <cfg> <module>`.
`target_direction` is a run of the project, the others can be repeated by hand:
where the first column goes on after the name of the configuration, with the
constants and the specification it gives in place of that file's, and in every
case with the property named as the only one.

| Configuration | Property | Line | What happens, and what is said |
|---|---|---|---|
| `MCTargetDifficulty.cfg` | `DifficultySharesFound` | `src/utils/hex_utils.cpp:152` | difficulty_to_target() writes the least significant byte at index 31, and meets_target() reads the most significant one there: after mining.set_difficulty alone a hash must be below the target with its bytes reversed, which practically none is (for difficulty 1, its last 26 bytes must be zero). src/utils/hex_utils.cpp:150: "Convert to 32-byte big-endian target"; src/utils/hex_utils.cpp:107: "Hash must be <= target (comparing as 256-bit little-endian numbers)"; tests/test_target.cpp prints "NO SHARES FOUND in 1M hashes - BUG DETECTED!" when it sees none. |
| `MCFailoverStarved.cfg` | `ReachesAPool` | `src/miner.cpp:234` | With three pools, a second pool whose failures take longer than 300 s altogether (three connect timeouts of 127 s) always finds the primary due, so the index goes 0, 1, 0, 1 and a third pool that is up is never tried. README.md:293: "Failover pools, exponential backoff (5s→60s), auto pool switching after 3 failures, primary pool retry every 5 min" |
| `MCStratumClient.cfg`; `TargetPools <- OnlyP1`, `FairSpec` | `JobsCarryTarget` | `src/stratum/stratum_client.cpp:835` | m_has_pool_target is never reset: once a pool has sent mining.set_target, the difficulty of a pool that sends only mining.set_difficulty is shown but not used; src/stratum/stratum_client.cpp:838: "Fallback: calculate from difficulty", include/stratum/stratum_client.hpp:36: "Target hash for share validation". |
| `MCMinerHandshake.cfg` | `TrueIfAuthorized` | `src/miner.cpp:208` | The threads mine the last connection's job during the next handshake; the pool's answer to their share is taken for the answer to mining.authorize; include/stratum/stratum_client.hpp:82: "@return true if authorized". |
| `MCNonceStuck.cfg` | `KeepsHashing` | `src/miner.cpp:475` | nonce + batch_size overflows a uint32_t up to 65536 nonces before the nonce is near enough to the end to be wrapped; batch_end is then small, the inner loop does not run, the nonce does not move, and the thread spins until the next job; src/miner.cpp:521: "Wrap nonce if needed". |
| `MCMinerStopHangs.cfg` | `StopReturns` | `src/stratum/stratum_client.cpp:524` | stop() and disconnect() called before connect() has created its socket find nothing to close; connect() goes on, run() sets m_running to true again, and the join never returns while the pool keeps the connection; include/miner.hpp:70: "Stop mining", include/stratum/stratum_client.hpp:149: "Stop the client". |
| `MCFailover.cfg`; `NumPools = 1`, `Up <- NoPool`, `Flaky = {0}`, `FairSpec` | `DocumentedBackoff` | `src/miner.cpp:257` | The backoff is doubled and capped, so the waits are 5, 10, 20, 40 and 60 seconds; src/miner.cpp:252 says "Exponential backoff: 5s → 10s → 20s → 60s max" and include/miner.hpp:100 the same. |
| `MCFailover.cfg`; `NumPools = 2`, `Up = {0}`, `Flaky = {1}`, `FairSpec` | `EveryRetryWaits` | `src/miner.cpp:217` | After a lost connection `continue' skips handle_failure and its sleep: the pool is reconnected at once, as often as it drops the connection. README.md:293: "Failover pools, exponential backoff (5s→60s), auto pool switching after 3 failures, primary pool retry every 5 min" |
| `MCFailover.cfg`; `NumPools = 2`, `Up = {0, 1}`, `Flaky <- NoPool` | `FlappingPoolAbandoned` | `src/miner.cpp:199` | consecutive_failures is reset by each handshake and looked at only after a refused one, so a pool that accepts and then drops every connection is never left. README.md:293: "Failover pools, exponential backoff (5s→60s), auto pool switching after 3 failures, primary pool retry every 5 min" |
| `MCFailover.cfg`; `NumPools = 2`, `Up = {1}`, `Flaky = {0}`, `SessionTime <- AnyTime` | `PrimaryRetried` | `src/miner.cpp:226` | The primary's timer is looked at only in handle_failure, after three failures of the backup: on a backup that works the primary is never tried again. README.md:293: "Failover pools, exponential backoff (5s→60s), auto pool switching after 3 failures, primary pool retry every 5 min" |
| `MCStratumLive.cfg`; `FairThread` | `HandshakeEnds` | `src/stratum/stratum_client.cpp:512` | recv() has no timeout and nothing reads the configured one: a pool that accepts the connection and stays silent blocks the stratum thread for ever; include/config.hpp:42 has "uint32_t timeout = 30;  // Seconds". |
| `MCStratumLive.cfg` | `TrueIfAuthorized` | `src/stratum/stratum_client.cpp:311` | authorize() returns true for {"result":false,"error":null}, a refusal; include/stratum/stratum_client.hpp:82: "@return true if authorized". |
| `MCStratumExtranonce.cfg` | `JobsCarryPoolExtranonce` | `src/stratum/stratum_client.cpp:254` | The fallback that finds extranonce1 runs only if m_extranonce1 is empty, and disconnect() does not empty it: a second session keeps the first one's extranonce; src/stratum/stratum_client.cpp:823: "The first 4 bytes are the pool's extranonce1". |
| `MCStratumClient.cfg` | `ReportsVerdicts` | `src/stratum/stratum_client.cpp:670` | handle_response() reports every response as a share's result without looking at its id, the late answer to mining.authorize included; include/stratum/stratum_client.hpp:104: "Set callback for share results". |
| `MCStratumClient.cfg` | `SharesMatchHash` | `src/stratum/stratum_client.cpp:356` | submit_share() uses m_extranonce1 as it is then, not the job's header: after a new subscription the nonceSpace sent differs from the one hashed; src/stratum/stratum_client.cpp:349: "Layout must match what the miner uses for hashing". |
| `MCMiner.cfg` | `SharesCarryExtranonce` | `src/stratum/stratum_client.cpp:222` | A thread sends a share of the last connection's job before subscribe() has its answer, and the pool's answer to the share is the line subscribe() takes: it has no extranonce, the client keeps the one of the last connection, and the new connection's jobs are hashed and submitted with it; src/stratum/stratum_client.cpp:823: "The first 4 bytes are the pool's extranonce1". |
| `MCMiningReusedShare.cfg` | `ShareIsOfItsJob` | `src/miner.cpp:508` | Only the job id is compared: new work under an id used before passes the test and the share is sent with its time and difficulty; src/miner.cpp:507: "Verify job hasn't changed before submitting". |
| `MCMinerRestart.cfg` | `ThreadsSettle` | `src/miner.cpp:411` | A pool that numbers its jobs per connection sends, after a reconnection, a job with the id the threads still have: they keep hashing the dead connection's work; src/miner.cpp:410: "Check if job changed". |
| `MCMinerForeign.cfg` | `SharesGoHome` | `src/miner.cpp:508` | Between a reconnection and the first job of the new connection m_current_job is still the old one, so its shares pass the test and go to the new connection; src/miner.cpp:512: "Job changed, share is stale - don't submit". |
| `MCNonceShared.cfg` | `NoNonceShared` | `src/miner.cpp:518` | With a number of threads that does not divide 2^32, a nonce that overflows inside a batch (with 6 threads and the batch of 65536: threads 4 and 5) goes on in another thread's residue class, from its beginning; src/miner.cpp:391: "Each thread starts at different offset". |
| `MCMinerStopForeign.cfg` | `OwnDescriptorsOnly` | `src/stratum/stratum_client.cpp:207` | disconnect() runs in two threads at once on a plain int: both close the same number, and the second close may hit the file the stats thread has opened meanwhile; src/miner.cpp:210: "Always clean up socket after run() returns". |
| `MCMinerStopClient.cfg` | `StopClearsRunning` | `include/utils/api_server.hpp:123` | handle_client() blocks in recv() without a timeout, and Miner::stop() joins the server before it clears m_running: one client that connects and sends nothing keeps the miner mining. The same happens while a pool does not read the share for which a mining thread holds m_job_mutex, and a client asks for the statistics. src/miner.cpp:120: "Stop API server", include/miner.hpp:70: "Stop mining". |
| `MCSystemMonitorRace.cfg` | `PowerAlwaysReal` | `include/utils/system_monitor.hpp:331` | The stats thread and the API's callback share m_last_energy and m_last_energy_time without a lock: the energy of one reading is divided by the time of another, and the power shown is not one the CPU has drawn; include/utils/system_monitor.hpp:343: "Calculate power (energy delta / time delta)". |
| `MCSystemMonitorUnread.cfg` | `PowerIsReal` | `include/utils/system_monitor.hpp:314` | read_energy_uj() does not initialise the variable it returns: when the file opens and its read fails, the energy of the last reading is whatever the stack held (`Leftovers`), and the next difference is not of two readings; include/utils/system_monitor.hpp:331 treats 0 as the only reading that is none. |
| `MCConfiguration.cfg` | `OptionsAlwaysDecide` | `src/main.cpp:243` | The setup returns a configuration of its own, which replaces the one the options were merged into: `bloxminer -t 4` on a first run asks for the threads and drops the option. src/main.cpp:77: "CLI arguments override config file values", src/main.cpp:222: "CLI takes precedence". |
| `MCConfiguration.cfg` | `SetupNeedsNoFile` | `src/main.cpp:241` | A file named with -c that does not exist, or a file that cannot be parsed, leads to the setup like no file at all; the answer "save" then replaces bloxminer.json, be it the user's valid one. src/main.cpp:240: "Interactive setup if no config file AND no wallet provided AND interactive terminal", README.md:233: "If no config file exists and no wallet is provided via CLI". |
| `MCConfiguration.cfg` | `SaidIfSaved` | `src/config_manager.cpp:194` | Nobody looks at the stream after the write: on a full disk the file is left truncated, save_config() returns true, and main() says it is saved. src/main.cpp:251: "Configuration saved to bloxminer.json". |
| `MCConfiguration.cfg`; `Contents <- LargeContents` | `ThreadsFit` | `src/config_manager.cpp:127` | The thread count of a file is not capped, so thread_hashes is indexed past its end (src/miner.cpp:493); nor is the number of cores. src/main.cpp:168: "exceeds maximum", src/config_manager.cpp:271: "Thread count capped at 256 (hardware limit).". |

Noticed while reading, without a run:

- `include/miner.hpp:37`: `get_hashrate()` divides `MinerStats::hashes`, which nothing
  increments; the rate shown, logged and served is always 0.
- `src/main.cpp:38`: the signal handler only sets `g_shutdown_requested`, and nothing
  reads it: the main loop waits for `is_running()` alone, and an interrupt stops
  nothing ("Async-signal-safe shutdown flag; checked in the main loop").
  `main.cpp:320` assigns `g_miner`, which is not declared in the file.
- Nothing ignores SIGPIPE: a `send()` to a pool that has reset the connection ends
  the process.
- `src/config_manager.cpp:212`: at the end of its input the setup asks for the
  wallet again without end.
- `src/miner.cpp:204`: `m_config.pool_host` is a string the stratum thread assigns
  while the stats thread and the API's callback copy it.
- `src/crypto/verus_hash.cpp:352`: if the key cannot be allocated every hash is all
  zeros, which meets every target.
- `include/utils/display.hpp:54`: the header has 8 lines and those of the threads;
  7 are reserved, and its last one is drawn over the first of the log.

The sizes of the instances stand for real ones: with 6 threads and batches of
65536, threads 4 and 5 have a nonce that overflows inside a batch, and most
thread counts have a `batch_end` that does.

## Not modelled, and why

- `include/nlohmann/json.hpp`: a vendored library, four fifths of the lines of the
  repository. What the code takes from it is in the client's lines and in the
  files of the configuration.
- Haraka and CLHash (`src/crypto/haraka.c`, `verus_clhash.c`), hex parsing, JSON
  text: data transformations on large words and strings. `Hasher` takes a digest
  for the term that makes it; the lines of the protocol are records, a file is
  the settings it names, and a difficulty is the number read.
- `nbits_to_target` and `compare_hash`: nothing calls them.
- Failed allocations.
- The rounding of a double to 53 bits, in a division by a difficulty or by a time.
- A subscribe answer preceded by a notification: the client would take the
  notification for it; the pools modelled answer first, as the protocol asks.
- Partial sends: a request is whole. `send_message` does not resume one.
- Data races proper: a read during an unlocked write gives the value before or
  after, or (for the job id) a difference.
- The text of HTTP requests and answers: a request asks for the statistics or for
  something else.
- Temperatures and the power of GPUs: read and shown, without state between two
  readings.
- Logger and display: presentation. Scripts, Docker.
- The tests: read for what they say of the program.

## Plan

Done, in this order: failover, client, mining threads, their composition,
nonces, shutdown, the hash key, targets, configuration; then the API server and
its composition with the shutdown, the streaming hash, the system monitor, and
the proofs about all of these. What is left to prove:

1. The safety part of `StopOutsideConnect`: that once `stop()` has closed the socket of
   a connected client the stratum thread can open no other, for any number of
   descriptors.
2. `SharesCoherent` for the miner as composed, from what the client says of its jobs.
3. An abstract client, a queue of jobs per session, implemented by `StratumClient`.
