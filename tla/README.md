# TLA+ models of hakimi-hub

hakimi-hub is a local proxy that speeds up access to GitHub and Steam. It sets
a PAC URL as the system proxy, accepts the browser's connections, terminates
TLS with certificates of its own CA, finds working addresses over DoH and
probing, connects to them with the real or another SNI or through mirrors, and
caches images on disk. Everything runs in one tokio process; the commands
`stop`, `status`, `recover` and `cache` are processes of their own that meet it
in files and in the registry.

Paths below are relative to `src/src/`.

## 1. Inventory

| Component | State | Operations | What makes it correct | Hard because |
|---|---|---|---|---|
| `utils/evictable_cache.rs` | DashMap of entries, LRU index behind a mutex, throttle time | get, get_entry, insert, remove, clear, evict | map and index agree; the victim is the least recent key; no deadlock between shard locks and the mutex | two structures updated in separate steps, by any number of tasks |
| `utils/process.rs` | PID file, its flock | acquire, release, stop, status | one hub at a time; stop finds it | lock is on an inode, commands go by path |
| `core/hub.rs`, `core/shutdown.rs`, `system/proxy_guard/*` | registry values or network services, backup, crash marker, guard in memory | start, stop, drop, recover | the user's proxy settings are never lost | crash or failure between any two writes, a `recover` at any time |
| `mitm/tls_origin.rs`, `mitm/sni_spoof.rs` (races) | pending attempts, next candidate, timer | connect_with_fallback, connect_with_ips, connect_tcp_with_fallback | the race ends, and fails only if all addresses fail | attempts, timer and errors in any order |
| `mitm/sni_spoof.rs` (stream), `dns/stream_resolver.rs`, `dns/working_ip_store.rs` | attempts, channel, resolver tasks, known addresses | connect_stream, record_success, persist | the call returns; tasks do not leak; what was saved stays saved | producers blocked on a bounded channel, retries, deadline; a thread per save |
| `intercepts/mirror_health.rs` | failures, average, disabled_at per mirror | record_success, record_failure, is_available, get_best_mirror | a dead mirror is disabled, then tried again | reports and selections interleave |
| `dns/resolver.rs`, `dns/ip_prober.rs`, `dns/doh_client.rs` | cached rankings, probe semaphore, IPv6 ban, connection pool | resolve, get_candidates, resolve_international, reprobe_all, select_ranked_ips | a usable ranking is cached; permits come back; calls return | early returns drop running probes |
| `cache/resource_cache.rs` | files, metadata, metadata.json | get, put, removal, eviction, clear, clear_expired | only whole files are served; size is bounded | every file operation is an await; two processes; kills |
| `proxy/server.rs`, `handler.rs`, `tunnel.rs`, `metrics.rs` | permits, active count, one task per connection | accept, CONNECT, HTTP, MITM and its five branches, relay | limit respected, nothing lost, every connection ends | each await depends on a peer |
| `mitm/ca.rs`, `cert_cache.rs`, `tls_terminator.rs` | CA and leaf certificates in memory and on disk | load_or_generate, get_or_generate | what is signed is of the published root | two files per root, kills between them, leaves that outlive their hub, file names that collide |
| `intercepts/matcher.rs`, `rules/builtin.rs` | compiled rules | match_domain, classify | the most specific rule wins | pattern corner cases |
| `core/config.rs`, `cli/`, `git/`, `system/pac.rs`, `utils/ui.rs`, `banner.rs`, `logging.rs`, `paths.rs` | none that others read later | parsing, text, terminal | - | - |

How they meet: the hub starts the server and a re-probe task. The server spawns
a handler per connection. The handler asks the rules, then the connectors
(TlsOrigin, SniSpoofConnector), the resource cache and the mirror tracker. The
connectors ask the resolver or the stream resolver, both of which use the DoH
client; the resolver ranks with the prober and keeps rankings in an
EvictableCache. `PROJECT.json` lists the components with their status and the
hazards each at its line.

## 2. Modules

| Module | Models | State and actions |
|---|---|---|
| `EvictableCache` | `utils/evictable_cache.rs` | Shards with reader/writer locks, the mutex of the index, a program counter per thread; each operation is the sequence of its lock acquisitions and updates. Time is a horizon below which entries are expired. |
| `SingleInstance` | `utils/process.rs`, `stop`/`status` | Inodes with content and lock, the path, a program counter per process. |
| `ProxyLifecycle` | `core/hub.rs`, `core/shutdown.rs`, `proxy_guard/windows.rs`, `proxy_guard/macos.rs`, `git/config.rs` | `os` is the system the hub was built for. Settings written one by one, the backup (absent, torn, the flag file of macOS, or the manual settings), the marker, the guard's memory; `Crash` and `Fail` at every step. `beside` says whether the user runs `recover` beside a hub. |
| `Connector` | what a call of a connector promises | Addresses known and failed, whether a source may still answer (there may be none), the outcome. Abstract: `HappyEyeballs` and `SniStream` implement it. |
| `HappyEyeballs` | `tls_origin.rs`, the race of `sni_spoof.rs` | Entry point, round, attempts, next candidate, timer. |
| `SniStream` | `connect_stream`, `stream_resolver.rs`, the list of `working_ip_store.rs`, one DoH query | Attempts, channel, one resolver task per endpoint, the store. |
| `MirrorHealth` | `mirror_health.rs`, the mirror branch of `handler.rs` | An entry per mirror, requests, selections. |
| `IpProber` | `ip_prober.rs`, `select_ranked_ips` | Probes, permits, IPv6 ban. No specification of its own: `DnsResolver` extends it. |
| `DnsResolver` | `resolver.rs`, the stages of `doh_client.rs` | Calls of tasks, the stage of their query, cached lists; composed with `IpProber`. |
| `ResourceCache` | `resource_cache.rs`, the cache command | Files (none, partial, whole), metadata of two processes, the index, jobs of tasks. |
| `ProxyConnection` | `server.rs`, `handler.rs`, `tunnel.rs`, the active count | A label per await of a connection, permits, units of an answer read and sent, cached lengths. |
| `Admission` | what the server promises about `max_connections` | Clients outside, waiting, inside or gone, and the limit. Abstract: `ProxyConnection` implements it. |
| `HubProcess` | the process of a hub | Down, starting or up, and how often it was killed. Shared by the next two. |
| `Certificates` | `ca.rs`, `cert_cache.rs`, `tls_terminator.rs` | The root in memory and in two files, leaves in memory and in files, handshakes that call get_or_generate twice. Every `fs::write` is a truncation and a write. |
| `WorkingIpFile` | the file of `working_ip_store.rs` | The map as the number of successes in it, callers in record_success and persist, the threads that write. |
| `HubFiles` | the two together | A start loads both, a kill ends both. |
| `InterceptMatcher` | `intercepts/matcher.rs` | Compilation of patterns and the comparisons as operators; one action per turn of a loop of match_domain, and the walk of matches_segment_prefix over a path character by character. |

`MCSingleInstance`, `MCSniStream`, `MCDnsResolver`, `MCHubFiles` and
`MCInterceptMatcher` only give values to function and sequence constants, and
symmetry where it is used. `MCEvictableCache` also says who uses the cache: one
task alone, joined by a second one after its first insert.
Operators whose name has an underscore (`Put_MetaFirst`) are wrong variants of
the operator before the underscore; no specification uses them. They show that
a property can fail.

Data is reduced to what the properties tell apart: addresses, keys and mirrors
are model values; latencies are small integers; files have size 1; answers are
counted in units; a root is its number and a leaf its domain and root; the texts of
requests, headers and DNS messages are absent. Only the matcher has characters,
which are what it is about.
`map` in `PROJECT.json` gives the lines behind every definition.

## 3. Runs

| Run | Instance | Shows |
|---|---|---|
| `cache` | 1 thread, 3 keys in 2 shards, max_entries 1, 4 calls of any operation, TTL; then 2 threads with 2 calls | alone: `AloneIndexExact`, `AloneVictimIsLeastRecent`, `AloneReachesCapacity`; always: `TypeOK`, `NoDeadlockedSet`, `NoOrphanUntilExpiry`, `OperationsFinish` |
| `instance` | 3 PIDs, 5 launches | `ExclusiveUntilOrphaned`, `StopFindsInstance` |
| `lifecycle` | both systems, 2 sessions, 1 recover, 1 failing operation, any number of crashes | `Recoverable`, `RecoveredBeforeSetup` (until an operation fails), `CleanStopRestores`, `QuietMeansRestored` |
| `race` | lists of up to 4 addresses, both rounds, all entry points | `SelectNeverStarves`, `FailureIsExhaustive`, `NoSuccessDiscarded`, `RaceEnds`, `ImplementsConnector` |
| `stream` | 3 addresses, 2 endpoints, channel of 1, 2 tries | `ImplementsConnector`, `NoBusyLoop`, `StoreWellFormed`, `CallEnds`, `TasksEnd` |
| `mirror_tracker` | 2 mirrors, threshold 3, recovery after 2 ticks | `DisabledIffThreshold`, `RecoveryNotPostponed` |
| `mirror_disable` | 1 mirror | violated: `RepeatedFailureDisables` |
| `resolver` | 2 tasks, 2 calls, 2 domains (one in dns_mapping), 3 endpoints in 3 stages, 2 permits, IPv4, IPv6 and a polluted address | `CachedListUsable`, `PermitsConserved`, `FallbackIsLastResort`, `CallsReturn` |
| `resource_cache` | 2 tasks and the cache command, 2 URLs, room for 1 file, 3 puts, 1 restart or command | `NoMetaBeforeFile`, `BoundedWhenQuiet` |
| `connection` | 2 connections, max_connections 0 and 1, bodies of up to 2 units | `ActiveWithinLimit`, `NothingLost`, `OnlyWholeBodiesCached`, `AllServed`, `ImplementsAdmission` |
| `files` | 3 domains in 2 files, 2 handshakes at once or 2 callers with 4 successes, 2 kills, 3 roots, room for 1 leaf | `SignerIsPublished`, `ServedLeafAccepted`, `SavedSuccessStays` |
| `rules` | all lists of 1 or 2 of 28 rules, 4 domains, 11 paths | `VerdictIsFirstMatch` |

Why the bounds are enough to be interesting. A cache of capacity 1 evicts at
every second insert, and two threads are what a lock cycle needs. Three PIDs are
an owner, a contender and a command. Two sessions let a session crash and its
successor recover, and crash in its recovery too; what a third one would start
from is a state `Recoverable` already speaks of. Two network services let a crash fall between
them. Four candidates allow a winner, a failure before it, one after it and one
never started. A channel of one blocks its producers at once. With one place for
two files every second put evicts, and three puts run two evictions side by
side. `max = 1` makes the second connection wait, `max = 0` lets both work on
the same URL. In `files`, two of three domains share a file, a first kill can
tear a file and a second one hit its repair; a behaviour has handshakes or
recorded successes, which share nothing but the process. The patterns of
`rules` include domains in which prefix and suffix can overlap and a wildcard
that is only a part of a segment.

All runs but `files` check deadlock; where a bound is used up a module has an
explicit stuttering step (`Finished`, `Terminated`, `Found`) that is enabled only when
nothing is under way. `HubFiles` may stop: nobody has to connect to a hub.

What properties say, where it is not obvious.

- `Recoverable` and `RecoveredBeforeSetup` are about the manual settings and our
  PAC URL. They assume that `recover` is used as `cli/args.rs` says, after a
  crash. `QuietMeansRestored` drops that: a `recover` beside a live hub deletes
  the files the hub relies on, but the hub restores from memory, so without a
  crash the user gets everything back.
- `SignerIsPublished` and `ServedLeafAccepted` except a torn `ca.key.pem`, a
  state the code reaches by a kill inside the second write and never leaves.
- `SavedSuccessStays` is about what a save has put into `working_ips.json`: later
  saves keep it, also one that a kill or an error ends before its thread opens the
  file. It has two exceptions, in which the code does lose it. The file is
  truncated in place, so that a kill or an error before the end of the write
  leaves it empty or half written; and saves that overlap are not ordered, so that
  the older map can be written last or both be mixed. After either, the promise
  begins anew with the next save that is alone. The history variables `owed`,
  `saved` and `overlap` say what the file has to hold.
- `VerdictIsFirstMatch` compares the search with a meaning of patterns that says
  which characters a star or a wildcard may stand for. With a wildcard that
  is a part of a segment, the single pass may miss a match, and the property
  only says that what it finds is right.
- `ImplementsConnector` and `ImplementsAdmission` are refinements. A connector
  call maps to the addresses it has got, the ones it has seen fail and whether
  a source may still answer; a server maps each connection's label to outside,
  waiting, inside or gone.

### The violated run

- `mirror_disable`. After a failed mirror and a successful fallback to the
  original host, `perform_mitm` calls `record_success(&mirror)`. The count of
  consecutive failures is reset each time, and a mirror that never works is
  never disabled, against the comment of the tracker.

### Other differences between code and comments

These are in the models or were met while writing them. Properties that hold
are stated so that they do not claim the opposite.

- `utils/process.rs`: `try_lock` opens the PID file with `File::create`, which
  truncates it, before flock says that it is taken. After a refused second
  `start` the PID of the running hub is gone, and `stop` finds nothing. A stop
  unlinks the path after it gave up the lock, and may hit the file of a new hub.
- `proxy_guard/windows.rs`: a `set_proxy` that fails half-way leaves
  `set_by_us` false, and the drop that should restore does nothing. The backup
  lacks AutoConfigURL. After a `recover` beside a running hub a crash of the hub
  is unrecoverable. Recovery clears a Git proxy that the user set.
- `proxy_guard/macos.rs:119` says that the system falls back to the former
  settings by itself; but `set_proxy` turned the web proxies off, and nothing
  turns them on again. The properties therefore ask only for the PAC URL there.
- `mitm/ca.rs`: after a kill inside the write of the key every start generates
  another root and saves none, and `ca.crt.pem`, which Git is told to trust, is
  of none of them. `cert_cache.rs`: a leaf file is served whatever its dates, its
  name and its root are.
- `intercepts/matcher.rs:10` says that `/xxx/.*` is StartsWith; without the caret
  it is Contains, as line 12 says.
- `doh_client.rs`: a query's timeout ends with the TLS handshake; an endpoint
  that stays silent after that holds the query for ever.
- `config.rs`: `idle_timeout_secs` is read by nothing. `handler.rs`: the relay of
  the SNI branch lacks the hour's timeout of the other relays.
- `resource_cache.rs`: `flush` is never called, so that files outlive their
  metadata and are never deleted; `last_accessed` is never updated, so that the
  eviction is by age; ages are unsigned differences; a file that is being
  rewritten is served truncated.
- `handler.rs`: after the fallback from a mirror the request rewritten for the
  mirror goes to the original host; the injected script is not counted in
  Content-Length; status and method are ignored when an answer is cached.
- `ip_prober.rs`: probes dropped by an early return count as failures of IPv6;
  a ban and its count are written separately.
- `mirror_health.rs`: a mirror without samples has the best average.

## 4. Fairness

Safety properties are checked of `Init /\ [][Next]_vars`. The liveness
properties use:

- `EvictableCache!FairSpec`: a thread that can take its next step takes it; the
  code has no wait other than locks, which are released without awaiting.
- `HappyEyeballs!FairSpec`: attempts end, because each connect and handshake
  has `connect_timeout`; the timer fires; a ready branch of `select!` is taken,
  because `select!` picks at random.
- `SniStream!AnsweringSpec`: the same, and endpoints answer or hang up. The last
  part is not guaranteed by a timeout of the code (see above); without it
  `CallEnds` is false.
- `DnsResolver!FairSpec`: every call goes on; probes have `probe_timeout`, and the
  queries end as in `SniStream`.
- `ProxyConnection!AnsweringSpec`: tasks run and timers fire. Peers answer or
  close at the labels of `Answered`, which are exactly the awaits without a
  timeout, and may be silent for ever at the labels that have one.

## 5. Proofs

All theorems hold for every value of the constants allowed by the named
assumptions of the modules. Each component has one invariant, conjunctions of
named parts; one lemma per action, or per kind of step, shows that it is kept,
and the theorems of the properties follow from it. All
properties that hold in the runs and are not liveness are theorems as well.

- `EvictableCacheProofs`. `TypeCorrect` and `DeadlockFreedom`: the invariant adds
  to the types that a thread holds the mutex or a shard guard exactly at the
  labels where the code does. A deadlock is a statement about locks and labels
  together: whoever waits for the mutex holds no shard, and whoever holds the
  mutex waits at most for a shard whose holder waits for nothing.
  `NoOrphanBeforeExpiry` and `SimpleCacheHasNoOrphan`: until something expires
  (in a cache without TTL: ever), whoever takes a key out of the index is still
  responsible for its entry, or the entry is gone. Their hypothesis is that
  nobody calls clear, and no owner of a cache in the hub does (nothing calls
  `invalidate_all`); with clear an insert between its two steps is lost to the
  index. `LoneIndexExact`, `LoneVictimIsLeastRecent` and `LoneEvictsToCapacity` are
  about a cache that one thread has used so far: map and index differ only by
  the key that its operation is working on, the index is sorted by last use,
  and an eviction's excess is what the map holds beyond max_entries.
- `ProxyLifecycleProofs`. `ChangedIsRecoverable`, `RecoveryComesFirst`,
  `StopWritesBack`, `RecoverDoesNoHarm`, for any settings, sessions and crashes.
  No one invariant serves all four, because they excuse different
  things; each part holds under the weakest excuse it needs. `Session`: the
  backup is missing, torn or the user's settings, and so is what the guard
  remembers. `Sheltered`, for `recover` used as documented: settings that are not
  the user's have a marker and a complete backup, and a recovery has put back
  every setting before its next one. `Orderly`, without crashes: no hub finds a
  marker. `WrittenBack`, even with failures: what restore_sync has passed is what
  the guard saved. The last part of the module is about `SingleInstance`, which
  it extends beside `ProxyLifecycle` (the two share no name): `InstanceExclusive`,
  `StopReachesInstance`. Every running hub holds the lock of the inode it opened
  and has written its PID there, and all open inodes are the one at the path as
  long as no open file was unlinked.
- `HappyEyeballsProofs`. `RaceNeverPanics`, `GivesUpOnlyWhenExhausted`,
  `EstablishedConnectionIsUsed`, and `CallImplementsConnector`, the refinement of
  `Connector`. The invariant relates the candidates started
  so far, the attempts not yet taken and the timer: as long as the race goes
  on, an attempt is undecided or the timer can start the next candidate, and
  what has been taken has failed. `CallAdvances` and `RaceNeverStuck` are what
  `RaceEnds` rests on apart from fairness: a call goes through six stages and an
  attempt up five rungs, every step takes one of them further and none back, and
  a list that is being raced always has an attempt under way, a result to take
  or an IP to start.
- `SniStreamProofs`. `LoopNeverSpins`, `StoreStaysWellFormed`, and
  `StreamImplementsConnector`, the second refinement of `Connector`. The invariant
  says that the loop waits for the trial or has started the resolver; that
  `seen_ips` are the addresses dialled; that only a task that is sending has
  addresses left; and that an error is returned after all tasks have ended. Of
  the steps of a task the refinement needs only three kinds: it goes on asking,
  it has got its answer, it passes an address on, and the last keeps what is
  sent or to be sent as it was. `else` is `GiveUp`. The proof also shows that the
  other error return of the loop, `dns_done && pending.is_empty()`, is never
  taken: `dns_done` is set only where the call returns. `StreamNeverStuck`: a task
  that waits for room leaves the loop something to receive, the loop waits for an
  address only while a task may still send one, and no task outlives the call in
  a send. It needs one fact more: once started, no endpoint is without its task.
- `ProxyConnectionProofs`. `ConnectionLimit`, `ConnectionLosesNothing`,
  `ConnectionCachesWholeBodies`, and `ServerImplementsAdmission`, the refinement of
  `Admission`, for any finite set of clients. The limit needs
  a second count: the free permits and the tasks between `acquire` and the drop
  of the permit add up to `max_connections`, and the handlers are among those
  tasks. The other two rest on what holds at each label: nothing has been read
  before the head, everything read has been sent from the body loop on, and at
  `put` the body has the announced length. `ConnectionAdvances` and `QueueMoves` are
  the part of `AllServed` that needs no fairness: every label has a distance from
  the accept, which each step of a connection makes longer unless it reads one
  more unit of a body, up to the announced length; and who waits for a permit
  waits for a task that has one. The second part of the module is about
  `MirrorHealth`, extended beside `ProxyConnection` in the same way:
  `DisabledExactlyAtThreshold`, `RecoveryTimeKept`. The invariant is the
  consistency of each entry, which each method of the tracker preserves. The last
  part is about `InterceptMatcher`: `SearchFindsFirstMatch`, for any rules, domain
  and path. `SearchInv`: no rule passed so far is a match, and what the search has
  stopped at is one. `WalkInv`, about the path walked so far: the segments before
  the next one can take the front of the path up to the position reached, and, if
  every wildcard of the pattern is a whole segment, in no division of the whole
  text can they take another front, because a wildcard takes no slash and what
  follows it begins with one; a wildcard that is being
  taken has taken at least one character. So a walk that fails has
  not missed a match by being greedy, and such patterns need no backtracking.
  `DomainMeaning` shows, character by character, that the comparison by prefix,
  suffix and length is what a pattern with a wildcard means.
- `DnsResolverProofs`. `NoPermitLeaks`, `FallbackOnlyWhenAllFailed`,
  `CachedListsUsable`, for any finite sets of tasks and addresses.
  `PermitsConserved` becomes inductive with the fact that a probe either waits for
  a permit or has one and that no probe outlives its loop. For the fallback: as long as a task has reached nothing,
  every address it had to probe waits, is being probed or has failed. For the
  cached lists: an answer names no address twice and is kept until its call
  returns, and an address that has answered neither waits nor is probed, so that
  it comes once among the results. Deduplication and sorting are sets of lists,
  which say how the positions of their members are ordered; a sorted order is
  injective because nothing comes before itself. `MergeIsUnique` and
  `RankingIsUnique` show that each of these sets has exactly one member, so that
  the description stands for the code's loop and sort: no resolution stops for
  want of a list, and none can choose. That is an induction over the length,
  done with a least counterexample (`LeastNatural`, `LeastSubset`), as the library's
  facts about well-founded relations allow without an operator parameter.
  `ProbesNeverStarve`: a probe waits for a permit only while one that has a permit
  is running, because the permits add up.
- `ResourceCacheProofs`. `TypeCorrect`; `MetaAfterFile`: every entry, in memory of
  either process, in metadata.json, or on the way from one to the other,
  is of a URL whose file was once whole. `EvictionsKeepLimit`: while the limit is
  exceeded, some eviction is under way whose list has all entries and is not
  longer than what may stay and what it has yet to delete; counting lists against
  sets does the rest. Evictions that take each other's entries away do not
  matter, because an entry that is gone counts for both.
- `HubFilesProofs`. `RootIsPublished`, `ClientsAcceptLeaves`, for any domains, map
  to files, handshakes, kills and roots. The invariant says that the certificate
  is complete before the key is begun and the key is written once; that there is
  no leaf before the key is saved; and that every leaf in a file, in memory or
  in a handshake is of the key's root, unless the key is torn, and belongs to the
  file of the name it was found under. The second part is needed because a
  leaf is served long after the hub that signed it is gone. `SavedSuccessKept`:
  a success that began a save is in the file, or in the one thread that is saving, or
  in the map of a caller that is about to start one; what was saved before is in
  the file until that thread truncates it; and the map in memory never has less
  than the file owes, which is why a later save keeps what an earlier one saved.
  All of this holds only since the last overlap, after which the invariant
  begins anew with a save that is alone.

What the proofs changed in the models. An actor's position in its list of
writes is reset at the end of a recovery's writes, as the code's loop starts
anew. `Connector` allows a call that has no source to ask, because the list of
DoH endpoints may be empty. `ResourceCache` evicts in any order that is sorted by
age, as the sort of the code leaves the order of equal ages open. `Dedup` and `Ranked`
say what their lists are instead of folding and sorting; the run reaches the
same states. The walk of `InterceptMatcher` over a path is steps of the machine
instead of a fold, and `Covers` speaks of the first star of a pattern, as the
code's `find('*')` does.

Only model-checked: liveness (`OperationsFinish`, `RaceEnds`, `CallEnds`, `TasksEnd`,
`CallsReturn`, `AllServed`), since the prover handles neither fairness nor ENABLED.
Of what a recursive operator of the library computes, the proofs use only facts
that the library states.

## 6. Not modelled

The DoH connection pool and the DNS wire format; the limits of the periodic
re-probe (50 domains, 4 at a time), whose domains are calls of any number of
tasks; the named mutex and the taskkill of Windows, where `SingleInstance` follows
the Unix code; the contents of requests and
answers (rewriting for mirrors, headers, injected script); the classification of
domains by `rules/builtin.rs`, one fixed list without state, which is an input
of `ProxyConnection`; the dates of certificates; network services of macOS that
come and go during a session; configuration parsing, PAC and SSH texts, terminal
UI, logging and paths (no state that others read); byte counters of the metrics
(display only); panics; a failing bind of the listener, after which the hub runs
on without a server.

## 7. Plan

Done: the modules above, in the order cache, instance, lifecycle, race, stream,
mirrors, resolver, resource cache, connection, connector and admission, files,
rules.

Next, in this order:

1. What `MirrorHealth` and `ProxyConnection` guarantee together, beyond the failing
   `RepeatedFailureDisables`.
2. The DoH pool: connections taken out, returned and dropped by age.
