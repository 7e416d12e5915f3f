# A TLA+ model of wash

wash ("wide-area shell") shows remote resources (containers, VMs, buckets, volumes,
anything an external plugin describes) as a tree of *entries*, through a FUSE file
system and an HTTP API on a Unix socket. This directory models the parts of it that
are concurrent or keep state between requests, its query language and its find command,
checks them with TLC, and proves the safety of the concurrent ones (the caches, the FUSE
file, exec commands, journals, the server lifecycle) with TLAPS. Paths below are relative
to `src/`.

## 1. Inventory

| Part | State | Operations | What is hard | Module |
|---|---|---|---|---|
| `datastore.MemCache` (`datastore/cache.go`) | a map with ttls (go-cache), a RWMutex, 256 key locks per category, a limit, an eviction callback | GetOrUpdate, Get, Delete, Flush | three kinds of lock, a callback (generateValue) under two of them, nested calls, eviction while in use, a janitor without locks | `MemCache`, `CacheContract`, `MemCacheProofs` |
| plugin cache (`plugin/cache.go`, `methodWrappers.go`, `findEntry.go`) | cached List/Open/Metadata results keyed by entry ID | cachedList, FindEntry, Signal, Delete, ClearCacheFor | results that carry whole subtrees (prefetched entries), listings in flight while caches are cleared, expiry on the way to the source ancestor | `PluginCache` |
| FUSE file (`fuse/file.go`) | data, readSize, writers, the entry | Attr, Open, Read, Write, Setattr, Flush, Release | partial writes over content not yet loaded, several handles, a release that is not under the lock | `FuseFile` |
| exec commands (`plugin/execCommandImpl.go`, `outputStream.go`, `api/exec.go`, `transport/ssh.go`, the plugins' Exec) | two streams over one channel, closed flags, a countdown, exit-code channels | write, close, cancel, stop, SetExitCode, ExitCode | five goroutines that send on and close one channel; cancellation at any time | `ExecCommand` |
| activity journals (`activity`, `api/history.go`) | history, recorders with open files in a MemCache, method invocations | Record, SubmitMethodInvocation, History, CloseAll | check-then-add, eviction of a file in use, followers that read while history grows | `Journal` |
| server lifecycle (`cmd/internal/server/core.go`, `api/server.go`, `fuse/core.go`) | two pairs of stop and stopped channels, the mount | Start, Wait, Stop, shutdown | who stops whom first; a busy mount point; a start that fails half-way; a network that does not answer | `ServerLifecycle`, which composes `Registry` and `Analytics` |
| plugin registry (`plugin/registry.go`, `loadPlugins`) | a map and a list of roots, under a mutex | RegisterPlugin, one goroutine per plugin | concurrent initialisation, a panic under the lock, a map that is later read without it | `Registry` |
| analytics (`analytics/client.go`) | a queue of hits under a lock | Submit, Flush, the ticker | a post over the network with the lock held; shutdown with a time limit | `Analytics` |
| ssh connection cache (`transport/ssh.go`) | connections in a MemCache | sshConnect | connections that are stale, or closed under a session | not modelled |
| volume (`volume`) | directory maps, shared by the entries of one listing, cached above | VolumeList to a depth, List, Delete, Read, Stream | partial listings, a map edited by deletion, streams that fail or are abandoned | `Volume` |
| external plugins (`plugin/external`) | decoded entries, process groups | the methods of an entry | prefetched results, termination of scripts | Exec, List and initialisation appear in `ExecCommand`, `PluginCache` and `Registry`; decoding is not modelled |
| entry schemas (`plugin/entrySchema.go`, `api/types/entrySchema.go`) | none (pure) | fill, marshal, the stree of a client | types that lead back to each other, stubs marked as visited | `EntrySchema` |
| RQL and the find endpoint (`api/rql`, `api/find.go`, `api/types/entrySchema.go`) | the request: query, pruned schemas, entries found | unmarshal, marshal, prune, walk | schemas decide what is never looked at, over cyclic graphs of types; two kinds of parse error; calls of the plugin that fail | `RQL`, `RQLFind` |
| `wash find` (`cmd/internal/find`) | the command: paths, options, predicate, pruned schema, what is printed | parse, negate, evaluate, prune, walk | precedence and an evaluation stack, De Morgan negation, three kinds of schema predicates, skipping by schema, calls that fail | `FindSyntax`, `FindPredicate`, `WashFind`; `FindReference` is what it is compared with |
| docker, kubernetes, aws, gcp plugins | mostly none | SDK calls | see Exec | Exec only |
| CLI commands, shell integration, configuration, conversions, API client | none | | | not modelled: argument handling, printing, files |

How they interact. A request reaches an entry through FUSE (`fuse/`) or the API
(`api/`), which call the wrappers in `plugin/methodWrappers.go`. These call the plugin,
for List, Open and Metadata through `plugin/cache.go`, a thin layer of keys over
`MemCache`. Everything is recorded in the journal of the requesting process, whose
file is in another `MemCache`; ssh connections are in a third. `Server` starts the API
server and the FUSE server and stops them.

What makes each part correct:

* MemCache: a deleted value never comes back; a value is generated once; what leaves
  the cache is cleaned up; calls end.
* Plugin cache: after a signal or a delete, nobody who looks afterwards sees the
  state before it.
* FUSE file: what a flush writes is the file as the handles left it.
* Exec: no send on a closed channel; an exit code means all output arrived; a
  cancellation releases the caller and ends the command.
* Journals: one history entry per journal, one submission per method, no lost message.
* RQL: a search finds exactly the entries that satisfy the query, whatever it skips.
* Lifecycle: everything is loaded before anything is served; journals are closed when
  nobody writes any more; hits are posted once; the process ends.
* Volume: a listing is what was there; a directory that was not explored is not an empty
  one; a stream says whether it is complete.
* `wash find`: the expression means what its grammar says, and an entry is printed exactly
  if the expression holds of it.

## 2. Modules

Each module names its source in its header, and `PROJECT.json` maps every definition to
its lines. Mutants (`... Mutant of X ...`) are next to the definitions they spoil;
they are not part of any specification. `MemCacheProofs`, `PluginCacheProofs`,
`FuseFileProofs`, `ExecCommandProofs`, `JournalProofs`, `ServerLifecycleProofs` and
`VolumeProofs` extend the module they are named after and hold its inductive invariants and
theorems (section 5).

**`MemCache`.** A call in progress is an activation record in `Calls`, with a program
counter for every point at which another goroutine can get between: taking `mux`
(`RLock`), the key lock (`LockKey`), the lookup, storing a hit again to reset its ttl
(`Touch`), the limit check and the change to the write lock (`CheckLimit`, `WLock`,
`DeleteClosestToExpiration`, `AfterAnnounce`), `BeginGenerate`/`EndGenerate`, `Return`.
`Delete` and `Flush` are records too. `mux` follows `sync.RWMutex`: a waiting writer
keeps new readers out, and Unlock admits the readers that waited. A nested call has its
`Caller` set and runs while that is in "generate". Values are numbered by generation; a
cached error is a value, as in the code. `Tick` is the clock, `Janitor` go-cache's
goroutine. `floor` is a history variable: the generation below which a value is stale.

**`CacheContract`.** What the users of the cache may rely on: an atomic map from keys to
values. `MemCache` implements it with `store` the live items.

**`PluginCache`.** One path of entries, the cached List of each, requests that walk it
(`FindEntry`: cached, uncached or prefetched listings), and act on what they find.
`DeleteKeys`, `Probe`, `DeleteSourceList` are the parts of `ClearCacheFor`; the store is
taken at the grain of `CacheContract`: a listing runs under the read side of the lock,
deletions take the write side. `tree`, chosen once in `Init`, is the shape of the path:
its depth and which of its entries are prefetched, uncached or expiring. `settled` and
`floor` are history variables. `HasSource` describes the paths on which nothing stale
survives.

**`FuseFile`.** One file node with the content cached by `plugin/cache.go`, its size in
the parent's cached listing, and the remote content. A handler under `file.mux` is one
action; `Release` is split at each access to shared fields because it takes no lock.
`want` is a history variable: the content a local file system would hold. `fileLike`,
chosen once in `Init`, is whether the entry has a size (a file) or is read as a stream.
`OrderlySpec` are the behaviours in which handles take turns: one is open at a time, a
release does not fail in its flush, and a file with a size is not shrunk.

**`ExecCommand`.** Copiers, the goroutine that waits for the context, the goroutine that
waits for the command, and the consumer. A process that is sending holds its stream's
lock, as in the code, and the consumer's step that takes a chunk includes what the sender
does before it unlocks. `plugin`, chosen once in `Init`, selects the order in which an
Exec sets the exit code and closes the streams, and whether it has a stop function.

**`Journal`.** Requests are threads. The recorder cache is a MemCache at the grain its
user sees (hit, touch, miss, eviction at the limit, generation). `LoadArray` and `Item`
are the unlocked reads of history, a data race: the torn outcomes are nondeterministic
choices. `Earlier` is the history of commands that are over, so that an append may find room
in the array or have to move it; `torn` is history: the positions a follower read while the
array it had loaded was no longer the one that history is in.

**`Registry`, `Analytics`, `ServerLifecycle`.** `Registry` has a goroutine per plugin:
initialise, lock, append to the list of roots in two steps, unlock. `Analytics` has a
thread per submitter, one for the ticker and one for the final flush, each idle, waiting
for the lock or waiting for the network with the lock held. `ServerLifecycle` extends both
and adds main, the API's two goroutines, the FUSE server's two goroutines, and the
environment: requests (which submit hits), processes in the mount point, the user's umount,
the signal. A post may succeed, fail or never return. `fs.Serve` is taken to return only
when nothing is mounted any more; an error of the kernel connection while still mounted is
not modelled. A panic of a plugin's goroutine ends the process, and so does a CPU profile that
cannot be started (`ProfileFails`, log.Fatal with both servers up).

**`Volume`.** The file system of a container or a VM. A path is a sequence of names, a
directory map a function from directories to their children (`Nil`: not explored), and an
entry refers to the map it came from. A command has an outcome of `Outcomes` (denied
directories, messages on stderr or mixed into the output of a terminal, a broken stream,
an exit code or none) and writes its lines in any order in which directories come first;
listings parse them for posix and for powershell. `Scan` adds line after line to the map.
`MakeChildren` gives the result of the recursion of makeChildren at once: the directories
from the path up to the first that exists. Clients walk from the root: list, look into,
delete, stream; a client that lists has its command's result (`result`) before the entry is
cached, and `shown` and `of` are what it was shown and the map that came from. `snapshot`,
`deletions`, `gone` and a client's `overlap` are history: what the command of each map could
see, what was deleted since, what no listing may show, and whether another client's listing
ended meanwhile. A stream has a goroutine that receives the command's chunks and writes them to
a pipe: a write (`writing`) lasts until the reader takes the chunk or closes the pipe, and the
reader need do neither; after an error chunks are received and dropped. The module assumes that the volume is a finite tree and
that a listing explores at least one level.

**`EntrySchema`.** `Fill` is the recursion that builds a graph of types with stubs for what
is being visited, for core plugins, external plugins and the registry; `Root` and its
children are the stree a client makes of the graph.

**`FindSyntax`, `FindPredicate`, `WashFind`.** Arguments are tokens; strings are not built
from characters. `FindSyntax` follows the parsers with their match errors and the evaluation
stack, `FindPredicate` what the predicates, their negations and their schema predicates say,
`WashFind` the command: it parses, and for each path fetches and prunes the schema, then
walks a stack of entries against a server whose calls may fail. **`FindReference`** is a
grammar with all its derivations and the meaning of a derivation, written from the
documentation.

**`RQL`.** The language, as operators: a syntax tree is a tuple, `UnmarshalExpression`
follows the ordered choice of nonterminals with its two kinds of error, `Marshal` writes
a tree back, and `Eval` has a third outcome, "panic", because some predicates panic.
`SchemaPredicate` is how a value predicate is asked about a metadata schema: a
representative value per leaf, validated against the munged schema. Numbers are integers
and times seconds; which strings match a glob or a regular expression is a table
(`Globs`, `Regexes`), and so is upper case (`Upper`). Metadata schemas are objects, arrays
and primitive types; references, `anyOf` and keys that differ only in case are left out.
The operators are RECURSIVE, so nothing is proved about them.

**`RQLFind`.** One request to `/fs/find`: `Decode`, `FetchSchema` (the stree of the start
entry is pruned), then `Visit` and `List` for each entry on a stack, with `PluginFails`
wherever the plugin is called. Nodes of the stree are paths of types; `Prune` follows
`prune.go`, whose maps are keyed by paths of labels that it shortens on the way. `Says`
and `Expected` are the reference: what the documentation says of a predicate, and the
entries that satisfy it in the order of the walk. `Sentence` is
the grammar of `docs/_docs/rql.md`, to the letter ("documented") or with the two departures
that the code has from it ("implemented"): the action `signal` (absent at `rql.md:93-99`), and
keys written `["key", s]` as in the example at `rql.md:158`, not `["key", ["=", s]]` as in the
grammar at `:112`. `AcceptsGrammar` is about the second, `AcceptsDocumented` about the first.

`MC*` modules only define values for constants, symmetry sets and (in `MCFuseFile`)
`SerialSpec`, the behaviours in which a release is not interrupted.

## 3. Runs

Passing runs (distinct states in parentheses):

| Run | Question | Bounds, and why they are enough |
|---|---|---|
| `MCMemCache` (68 thousand) | types, no stale value, one generation per key, no wait cycle, complete eviction, refinement of the contract, every call returns | 2 calls on 2 keys that share a key lock, one key expiring and one not, enough generations to generate, delete and generate again. More calls are covered by the proofs of section 5 |
| `MCMemCacheLimit` | the overshoot of the limit | 2 calls past the check, limit 1, 3 keys, one of which expires while its ttl is being reset. Deadlock is not checked: the calls may wait for each other or panic (below) |
| `MCPluginCache` (2.4 million) | fresh after signal, delete, pending delete, clear | each tree in turn: a plain path with an uncached root, a volume with a prefetched directory; 3 requests: one acts, one lists meanwhile, one looks afterwards; 2 changes of the outside world |
| `MCFuseFile` | flush sends the file; no panic; the remainder is filled from the entry | 2 handles that take turns (`OrderlySpec`), entries with and without a size, 2 bytes of content, writes at offsets 0 to 3 (inside, at the end, beyond it), sizes up to 4, ReleaseFlush, failures |
| `MCFuseFileTwo` (3.5 million) | buffer and caches after the last writer | 2 handles interleaved, both kinds of entry, failures, ReleaseFlush |
| `MCExecCommand` (112 thousand) | safety of the streams; cancellation and exit release everybody | ssh, docker and kubernetes (with and without a tty), 2 copiers with up to 2 chunks: one in flight, one before or after a close |
| `MCJournal` (1.1 million) | registered once, submitted once, followers in order but for what is read while append moves the array | 2 requests and 1 follower, 2 journals after 3 earlier ones, so that one append finds room in the array of 4 and the next moves it to a larger one under the follower; limit 1, expiry, failures, CloseAll. A panic of the process ends it, so deadlock is not checked |
| `MCServerLifecycle` (312 thousand) | loaded before serving, hits posted once and flushed at exit, stop order also after a start that returns an error, the server ends | the three ways to run a server, a plugin that loads and one that panics, a queue of 1 so that it is full at once, 2 hits of a request and the start-up ping, posts that fail or never answer, failing unmounts, a failing API server |
| `MCRQLFind` (212 thousand) | a search is exact; pruning is exact; the grammar; marshalling keeps a query | 7 entries 4 levels deep whose types lead to each other in a cycle, with a schema, without one, and a file as the start; 1554 queries: every predicate, negated and connected in pairs, NOT over connectives whose operands have different schema predicates, damaged ones, and those on which `rql.md` and the code disagree; full metadata, depth limits; any call of the plugin may fail. Queries that connect inside an action, or mix kind with name in an OR, are in the configurations below instead |
| `MCWashFind` (21 thousand) | the grammar; the search is exact; pruning is exact; the schema graph is exact | all expressions of up to 4 tokens over operators, parentheses and two primaries, and after `-m` and a key; every primary and option on a tree of 7 entries with cyclic types, with schemas, without, and below the registry with an external plugin; several paths; any call may fail |
| `MCVolume` (1.1 million) | listings, streams, deletion | 2 clients, 4 nodes 3 levels deep with listings of depth 2, so that a directory is left unexplored; 2 listings so that one is made again; one change by others; output of two distinct chunks, with and without an error between them; commands that fail. The posix shell only: every behaviour over powershell is one over posix (its parser gives the same map or fails, and posix commands fail too); `MCVolumeOverlap` has both and the proofs any |

Named bounds: `MaxTime`, `MaxGen` (MemCache), `MaxChunks` (ExecCommand), `MaxVersion`
(PluginCache), `MaxRecorders` (Journal), `maxHits`, `MaxSubmits` (ServerLifecycle), `MaxLists`,
`MaxChanges` (Volume), and the finite sets `Offsets`, `Sizes`, `Bytes` (FuseFile), `Trees`,
`RawQueries`, `Options`, `Numbers` (RQLFind), `Cases` (WashFind).

Every module states its types in `TypeOK`. It is listed for `MemCache`; in the other
modules it documents the state and holds in the instances above. Section 5 proves it for
every module that has a proofs module.

One run states what a comment of the code says and the code does not keep, and TLC finds the
violation (`PROJECT.json` quotes it under "findings"):

| Run | What happens |
|---|---|
| `MCFindPrecedence` | an operator that binds no tighter than the one before it makes `pushBinaryOp` evaluate the whole stack: `-true -o -false -false -false` is read as `(-true -o (-false -a -false)) -a -false` |

Further instances, not in the list of runs, are kept as configurations of the same `MC`
modules. TLC reports each property named violated; with `-continue -workers 1` it goes on
and shows all of them.

| Configuration | Source | What happens |
|---|---|---|
| `MCMemCacheDeadlock` | `datastore/cache.go:129` | two misses at the limit: one waits for the write lock with a key lock held, the other holds the read lock and waits for that key lock |
| | `datastore/cache.go:102`, `:107` | a nested GetOrUpdate waits behind a Delete that waits for its caller, or needs the key lock its caller holds |
| `MCMemCacheTTL` | `datastore/cache.go:45`, `:113`, `:154`, `:161` | a ttl of 0 is forever, not a minute; a value evicted by the janitor is stored again; what never expires is evicted first; all items expired at the limit: nothing to evict |
| `MCPluginCacheStale` | `plugin/methodWrappers.go:260`, `:280`, `plugin/cache.go:104` | a stale listing survives a signal, or a delete, below an entry that an external plugin prefetched; and so does one whose source ancestor expired during the search, or was cleared by path (DELETE /cache) while it was listed |
| `MCFuseFileRace` | `fuse/file.go:183`, `:167` | a release drops what another handle has written meanwhile; size and data disagree and Flush panics |
| `MCFuseFileResize` | `fuse/file.go:204`, `:309`, `:359` | a failed flush leaves a closed handle among the writers; truncated content comes back; a truncation after a failure makes Flush panic |
| `MCFuseFileStale` | `fuse/file.go:310` | the remainder is loaded with a stale size, even when releases are not interrupted (`SerialSpec`) |
| `MCExecOrphan` | `plugin/kubernetes/containerBase.go:80` | a cancelled command has no stop function and runs on |
| `MCExecFailedStart` | `transport/ssh.go:265` | a start that fails leaves a stream that nobody closes |
| `MCJournalFaults` | `activity/journal.go:130`, `:173`, `:114` | a message goes to a file that eviction has closed; a torn read of the history sends a journal that is not there (`FollowerExact`); a panic on a file that cannot be opened |
| `MCServerPing` | `cmd/internal/server/core.go:154` | a CPU profile that cannot be created or started ends the process by log.Fatal, with the API serving and the file system mounted (`FatalStops`): the one failed start that `StoppedBeforeClose` does not speak of |
| | `cmd/internal/server/core.go:162`, `:234` | the start-up ping, called "the first hit", finds a queue that requests have filled and waits for the network; Wait never notices that the API server has stopped |
| `MCVolumeOverlap` | `volume/core.go:78`, `:88` | a listing under way while a node is deleted is cached and shows it; deleting a directory that was not explored (no directory map) panics |
| `MCRQLQueries` | `docs/_docs/rql.md:93`, `:112`, `api/rql/internal/predicate/object.go:53` | the documented grammar is not the accepted one (`AcceptsDocumented`): `["action", "signal"]` is accepted and not documented, a key `["key", ["=", "foo"]]` is documented and rejected, `["key", "foo"]` the reverse. `AcceptsGrammar` says that there is no other difference |
| | `api/rql/internal/primary/action.go:32` | AND and NOT inside the action primary are asked of each action in turn, so `["NOT", "list"]` holds of an entry that supports list and delete |
| | `api/rql/internal/primary/kind.go:31` | an entry of another kind is found: in `["OR", ["kind", ...], ["name", ...]]` the schema passes because of name, and the entry because it has a schema |
| | `api/rql/internal/predicate/array.go:116` | an empty array satisfies `all` of anything, but its schema need not, and the entry is skipped |
| | `api/rql/prune.go:9` | when no schema satisfies the query there is nothing left to prune by, and the whole tree is walked |
| | `api/rql/internal/predicate/time.go:74`, `array.go:89`, `primary/meta/satisfyingValueSchema.go:32` | a query that is accepted makes the request panic: `!=` on a time, an index past the end, an empty key |
| `MCRQLTrees` | `plugin/entrySchema.go:83` | the stub schema of an external plugin without schemas has no children, so a search from the mount point finds nothing below the plugin |
| | `api/rql/prune.go:78` | a type below one with the start entry's label takes the place of another node with the same shortened path, which is pruned though useful |
| `MCFindCases` | `cmd/internal/find/primary/kind.go:36` | `-kind p -o -name n` finds entries of other kinds, as in RQL |
| | `primary/kind.go:71` | `! ! -kind p` is `! -kind p`: the field `negated` is never set |
| | `walker.go:72` | with `-depth`, an entry whose schema has no children left is not visited; an entry below an external plugin without schemas is not found from the mount point |
| | `primary/meta/objectPredicate.go:146` | `! -m .key p` is taken for `-m .key ! p`, so an entry without the key satisfies neither |
| | `primary/meta/arrayPredicate.go:81` | an empty argument in a metadata expression panics |
| | `parser/parseOptions.go:87` | a path after the options is dropped when an expression follows it |

## 4. Fairness

* `MemCache!Fairness`: weak fairness of each call's steps (goroutines are scheduled
  and generateValue returns), strong fairness of taking a key lock and of announcing
  the write lock: Go's mutexes hand over to a waiter that has starved for a
  millisecond, so a waiter that finds the lock free again and again gets it.
* `ExecCommand!FairSpec`: goroutines proceed, the consumer keeps reading (`api/exec.go`
  ranges over the channel until it is closed), and a stop function that is called
  ends the command. Neither a cancellation nor the command's own exit is assumed.
* `ServerLifecycle!FairSpec`: goroutines proceed, plugins finish loading, the deadlines of
  `Shutdown` and of the final flush pass, whoever is in the mount point leaves, and, since
  the unmount is retried every three seconds for as long as it is busy, some attempt finds it
  free (strong fairness). Main gets the lock of the analytics queue if it is free again and
  again (Go's mutexes do not starve a waiter). Requests are not assumed to end, and the
  network is not assumed to answer, so `EndStops` excepts a start-up ping that waits for it.
* `Volume!Spec`: only once the reader of a stream has gone, the goroutine that copies it
  proceeds. Its write then fails at once, and the command, whose context ended with the reader
  (`api/stream.go:55-59`), closes its output (`CancelUnblocks` of `ExecCommand`). Before that
  nothing is assumed: a `tail -f` need not end, and a reader need neither read nor go.

## 5. Proofs

`MemCacheProofs` proves, for any number of calls, keys and locks, any ttls, limit and
nesting (unless said otherwise), from the named assumptions of `MemCache` alone:

* `TypeCorrect`: `TypeOK` is an invariant. Not inductive alone: a call that is inside
  GetOrUpdate must have a key (`KeyInv`).
* `NoStaleValueCorrect` and `NoRedundantGenerateCorrect`, from the inductive invariant
  `IInv == TypeInv /\ MuxInv /\ KeyLockInv /\ ValueInv`. `MuxInv` says that program
  counters and the state of `mux` agree, so that no reader is between its lookup and
  its return while a writer deletes; `KeyLockInv` that a call past the key lock
  holds it, so at most one call per key is (`OneCallPerKey`); `ValueInv` that every
  live or held value is at least as new as the last invalidation of its key.
  `NoStaleValue` itself is not inductive: a value being generated must already be
  known to be fresh.
* `Implementation`: `Spec => Contract!Spec`. Every step of `MemCache` is a step of
  `CacheContract` or a stutter; `PublishStep` and `ForgetStep` carry the argument for
  stores and for deletions, expiry and the janitor, and `IInv` provides that a
  published value is fresh and its key empty.
* `EvictionCompleteCorrect`: an action property. `FlushInv` (after the first pass of
  Flush nothing is live, after the second nothing is left) makes the final
  go-cache Flush harmless.
* `NoWaitCycleCorrect`: with no limit and no nested calls there is no cycle of waits:
  waits go from callers of RLock to the writer, from the writer to readers, from
  readers to the holder of a key lock, and the holder of a key lock waits for nobody.
  Both assumptions are needed: `MCMemCacheDeadlock` drops them, and with `Limit = 0` or
  `Caller <- Flat` in it TLC still finds a cycle.

* `OvershootBoundedCorrect`, for finitely many calls, any keys and with or without ttl
  resets. The number of entries is not enough to count: an entry that is touched may be
  removed by the janitor and stored again, and a call past the check stores without looking
  at the limit again. `ClaimInv` bounds the keys that have an entry or are about to get one
  (`Claimed`): a check below the limit leaves room for every call (`ClaimBelowLimit`), an
  eviction gives up one claimed key, which by `IInv` nobody is about to store, before its
  call claims another (`ClaimExchange`), and every other step claims no new key.

`PluginCacheProofs`, for paths of any length, any number of requests and changes:

* `TypeCorrect`, with `GenInv` (one listing per entry is under way, of an entry that is
  cached and not there yet), on any path.
* `FreshAfterActionCorrect`, under `\A tr \in Trees : HasSource(tr)`. Either the entries
  that are acted on, and their parents, are not prefetched (`Plain`; anything may be uncached,
  expire, fail or be cleared), or the entry is a node of a volume whose listing brought the
  directories above it (`InVolume`). `SourceInv` says that everything through which a lookup
  may find the entry, the cached listing of its source ancestor, one that is under way and
  what walks carry along, is as new as the last action that returned; `ActInv` how far each
  `ClearCacheFor` has got, so that this is known when it returns; `ChainInv` that the
  search of a volume's node for its source does not stop early. The hypothesis is not a
  convenience: `MCPluginCache` evaluates that its trees satisfy it, and the trees of
  `MCPluginCacheStale`, each of which breaks one conjunct, do not, and on each the
  property is violated.

`FuseFileProofs`, for any handles, offsets, sizes and content, both kinds of entry and
failures of every call of the plugin:

* `TypeCorrect`, `BufferReleasedCorrect` and `CachesFreshCorrect` hold of `Spec`, with
  handles interleaved in any way; `CleanInv`, their conjunction, is inductive.
* `NoPanicCorrect`, `FlushCompleteCorrect` and `FillsFromEntryCorrect` (the last two are
  action properties) hold of `OrderlySpec`. `OrderlyInv` adds `HandleInv` (the open handle is
  the only writer, and the stages of its release) and `FileInv`: `Sized` relates the
  buffer, `readSize`, the entry's size and the content the writes were made over, for the
  buffer alone does not determine the file before Flush has loaded the remainder. Each
  conjunct of `Orderly` is needed: `MCFuseFileRace` drops the first, `MCFuseFileResize` the
  others.

`ExecCommandProofs`, for any copiers and number of chunks, and every plugin:

* `TypeCorrect`, `NoSendOnClosedCorrect`. `StreamInv`: the countdown is the number of
  streams that are open (`CountInv`), nobody sends on a closed stream, and a closer that
  sends its context error has the stream to itself (`LockInv`).
* `CodeMeansCompleteCorrect`. `OutputInv` adds the order of delivery (`OrderInv`), that
  without a cancellation nothing closes before the copiers have ended (`PhaseInv`), and that
  until then nothing is lost (`CompleteInv`).

`JournalProofs`, for any threads, followers, journals and methods: `TypeCorrect`,
`RegisteredOnceCorrect`, `SubmittedOnceCorrect` and `FollowerInOrderCorrect`, from one
inductive invariant. `SubmitInv`: a method about to be submitted is marked, and by one
request only. `FollowInv`: the array a follower reads without a lock is a beginning of the
history, whatever was appended since, and history fits its array: as long as append has not
moved it, a length that is newer than the array is not past the array's end. The positions
read after it has been moved are in `torn`, and excepted by `FollowerInOrder`; without the
exception (`FollowerExact`) it is false, as `MCJournalFaults` shows.

`ServerLifecycleProofs`, for any finite set of plugins, any callers, any size of the queue
and every mode: `TypeCorrect`, `LoadedBeforeServingCorrect`, `HitsOnceCorrect`,
`FlushedAtExitCorrect`, `StoppedBeforeCloseCorrect`. The inductive invariant has a part per
component, `RegInv` for `Registry` and `AnaInv` for `Analytics`, each shown to be preserved by
its component's steps alone, and `StopInv`, `LoadInv`, `FlushInv`, which relate main to them.
`StoppedBeforeClose` covers every start that returns an error; the Fatal exit of a CPU profile
is a state of its own, of which it says nothing and `FatalStops` is false.

`VolumeProofs`, for any finite tree, any depth of listings, any clients and outputs, either
shell, and whatever commands fail, are denied directories or overlap:

* `TypeCorrect` and `ListedExactCorrect`, from `VolumeInv`. `ListedExact` speaks of one list;
  what keeps it true is `MapOK`: at and below its start, a map tells exactly the nodes that
  its command saw and that were not deleted, and has `Nil` for the directories at its depth
  and only for them. `EntryOK` says that an entry which refers to a map has its children
  in it, `ShownOK` the same of lists, shown or cached, which were made from a map and are
  not touched when the map is.
  That a new map satisfies `MapOK` is what the parsers compute for any number of lines in
  any of their orders. `ScanCorrect` proves it by induction over the lines, without the
  library's induction theorems: were it false there would be a least number of lines where
  it is (`NatMin`, from the well-founded order of finite sets), and `ScanStepOK` refutes that.
* `StreamExactCorrect`, from `StreamInv`: what was read, the chunk being written
  and what is left are the parts of what the command wrote, up to the first error.
* `DeletedGoneCorrect`, an action property, from `GoneInv`. Maps start only at levels that
  are multiples of the depth (`Aligned`), so two maps that reach the same node start at the
  same directory (`AlignedEqual`); with nothing else under way the one that a cached list
  comes from is the one the node was deleted from (`Current`), so after the deletion no
  cached list and no map behind one shows the node (`DeletedFree`), and a later command does
  not see it.

The assumptions are those of `Volume`: the depth is at least 1, and the volume is a finite tree.

Only model-checked:

* liveness (`EveryCallReturns` and the leads-to properties of `ExecCommand`,
  `ServerLifecycle` and `Volume`): the prover does not handle fairness;
* the properties of `RQLFind` and `WashFind` (`FindExact`, `PruneExact`, `AcceptsGrammar`,
  `RoundTrip`, `GraphExact`): their operators are RECURSIVE over queries, expressions and
  schemas, and the prover does not handle modules that declare such operators.

## 6. Plan

1. Done: the cache, the plugin cache, the FUSE file, exec commands, journals, the server
   lifecycle with the registry and analytics, and volumes, with their proofs; the query
   language and the find endpoint, entry schemas, `wash find`.
2. Theorems next: the parsers of `RQL` and `FindSyntax`, stated with recursive functions over
   the depth of a term; `NatMin` of `VolumeProofs` would carry the induction.
3. Abstract specifications worth stating: a file with atomic writes, implemented by
   `FuseFile` with handles that take turns; a stream with one terminator, implemented by
   `ExecCommand`.

## 7. Not modelled

* The cache of ssh connections (`transport/ssh.go`): its store is `MemCache`; what is
  particular to it, that an evicted connection is closed under its sessions, depends on the
  ssh library.
* External plugins' decoding of JSON and the process groups of their scripts; the temporary
  pods of kubernetes volumes; the log reader of docker.
* FUSE directories: Lookup, ReadDirAll and Remove call the method wrappers of `PluginCache`.
* Metadata caching, which is one more key of the store in `PluginCache`.
* Composition of `ServerLifecycle` with `Journal`: the product is too large for TLC, so what
  a request that outlives the shutdown writes is not covered.
* The SDK calls of the cloud plugins, the CLI's other commands, argument handling and
  printing, shell rc files, configuration files, documentation and examples: no state, or
  none of wash's own.
