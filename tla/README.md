# Verification of rinha-de-backend-2026

TLA+ modules, TLC configurations and TLAPS proofs kept beside the Go program in
`src/`: a fraud-scoring service of one load balancer (`cmd/lb`) that hands client
sockets over to two API replicas (`cmd/api`), each of which answers requests by
a five-nearest-neighbour search over an IVF index (`internal/search`,
`internal/ivf`).

`PROJECT.json` ties every definition to its lines, every property to a mutation
of the code's model that breaks it, and every hazard to the properties that
watch it. Run a configuration with `tlc -config X.cfg M` and a proof with
`tlapm M.tla`, in this directory.

## 1. The system

```
 clients --> cmd/lb --SCM_RIGHTS over one control connection per upstream--> internal/fdpass
                                                                                  | channel out
                                                         ServeFDChannel <---------+
                                                               | one goroutine per connection
                 internal/api/rawhttp.go (handleRawConn) --RouteRaw--> internal/api/server.go
                                                                               |
      internal/vector --qi, qf--> internal/search (FraudCountIVF) --reads--> internal/ivf index
                                                                               ^
     cmd/build-index (k-means, Build, Serialize) --- index.bin ----- Load/LoadMmap in cmd/api
```

| Component | State | Operations | What makes it hard | What makes it correct |
|---|---|---|---|---|
| Load balancer, `cmd/lb/main.go` | one control descriptor per upstream, the turn counter, the client in hand | dial at start; accept, send, close; redial when a send fails | either process ends and restarts between any two steps; a send blocks on a full socket or fails; calls refused for lack of descriptors | turns even; no descriptor leaked; one client lost per restart at most; a client has one owner |
| fd receiver, `internal/fdpass` | control connections, channel `out` | `acceptLoop`, one `recvLoop` per connection | several loops into one channel; the channel is closed by one goroutine and written by others | every descriptor received reaches the server; nobody stuck |
| Connection loop, `internal/api/rawhttp.go` | a pooled buffer, four offsets into it, a slice `path` of it | read, find header end, read body, answer; compact, grow, recycle the buffer | any chunking of the stream; requests arriving together; offsets and slices into a buffer that moves | bodies and paths are those of the request answered; reads never get an empty slice; bounds; progress |
| Routing and shedding, `internal/api/server.go`, `cmd/api/main.go` | atomics `idx`, `ready`; semaphore `shedSem`; `shed_count`; two `sync.Pool`s | start in the background; `/ready`, `/fraud-score`, `/debug/info`, over raw HTTP and net/http | requests race the start and each other for slots, scratches and buffers | readiness final; slots never leak; verdicts never mixed; approvals without a search are counted; no answer lost without a cause |
| Search, `internal/search` | the scratch: distances, picks, `Scanned` bitmap, `Top5`, block sums | score, pick, scan, gate, escalate | float32 rounding in every bound; a threshold that goes stale within a block; scratches reused | nothing nearer than the fifth is lost among the clusters visited; the nearest clusters are visited, each once |
| Cluster selection, `internal/search/centroid.go` | a sorted list; a max-heap | `PickTopNCentroids`, `PickNextNUnscanned` | ties, partial heap levels, fewer candidates than asked for | the n nearest, in order, as the caller expects |
| Index construction, `internal/ivf` | blocks of 8 lanes, cluster offsets, boxes, radii | `Build`, `AssignAll`, `ComputeRadii`; k-means training | padding of partial blocks; empty clusters | every vector in one lane of its cluster, within its box and radius |
| Index file, `internal/ivf`, `internal/specialist` | a header and sections on disk; a mapping | `SerializeToFile`, `Load`, `LoadMmap`, `specialist.Load` | truncated in place and written piece by piece; offsets computed from counts another program wrote | only whole builds are accepted, and taken apart as they were written |
| Vectorizer, `internal/vector` | none (a body in, a vector out) | find keys, day numbers, quantize | keys of the same name in several objects, each search starting where another ended; calendars at their edges | the members of the right object or no vector at all; differences of day numbers are days |
| Dataset loader, `internal/dataset` | none | parse, quantize | number syntax | same grid as the vectorizer |
| Specialist KD-tree, `internal/specialist` | trees per partition and an explicit stack | build, search | a stack of fixed size; bounds gone stale on it; rounding; halves that share or lose a vector | equals brute force: no near vector lost, none taken twice |
| Calibration, `cmd/calibrate` | none | replay, compute thresholds, project | a threshold of zero means disabled | the gate catches every fixable error it has seen, and no more than it must |
| Offline tools, deployment files | none | print; configure | - | - |

The full list, with what is modelled of each, is `components` in `PROJECT.json`.

## 2. The modules

| Module | Models | Kind |
|---|---|---|
| `HttpRequests` | the stream a client writes, cut into cells | data |
| `RawConn` | `handleRawConn` with its buffer, and one client at a time | state machine |
| `HttpConn` | what a connection promises | abstract specification |
| `RawConnProofs` | theorems about `RawConn` | proofs |
| `FdPass` | balancer, receivers and servers' adoption, with restarts | state machine, composition of both programs |
| `FdDispatch` | what handing over promises | abstract specification |
| `FdPassProofs` | theorems about `FdPass` | proofs |
| `ApiServer` | one replica: start, routes, shedder, pools | state machine |
| `FraudService` | what a replica promises | abstract specification |
| `ApiServerProofs` | theorems about `ApiServer` | proofs |
| `Vectors` | vectors, distances, blocks of lanes, boxes: what both indexes are made of | operators |
| `Top5` | the five nearest so far, and brute force's insertion | operators |
| `SearchLemmas` | lemmas on insertion, sums, orders, recursion, concatenations and blocks, for the proofs of both searches and of the files | proofs |
| `IvfIndex` | the index `Build` makes | operators |
| `IvfSearch` | `FraudCountIVF`, `FraudCountFastOnly`, `FraudCountFull` | state machine |
| `IvfSearchProofs` | theorems about `IvfSearch` | proofs |
| `KdIndex` | the partitions and trees `specialist.Build` makes | operators |
| `KdSearch` | `specialist.FraudCount` and `searchKDTree` | state machine |
| `KdSearchProofs` | theorems about `KdSearch` and the trees of `KdIndex` | proofs |
| `PickTop` | both cluster selections, loop turn by loop turn | state machine |
| `PickTopProofs` | theorems about `PickTop` | proofs |
| `IndexFile` | the index files, written, cut short and read back | state machine |
| `Vectorize` | `VectorizeFast`'s search for one key after the other | state machine |
| `Days` | day numbers beside a calendar | state machine |
| `Calibrate` | `computeThresholds`, and the projection with the gate in place | state machine |
| `OfflineProofs` | theorems about the four modules above | proofs |
| `MCRawConn`, `MCApiServer`, `MCIvfSearch`, `MCKdSearch`, `MCOffline` | workloads, model values, datasets; `MCOffline` puts the last four machines side by side, one to a behaviour | instances |

### RawConn

A byte stream is cut into *cells*: method, path, Content-Length, last header
field, body cells. A cell carries its connection and its position in the
stream, so a buffer that mixes up, loses or repeats anything shows it. `buf`
is `[len, at]`; `used`, `pos`, `headEnd`, `bodyEnd` are the code's variables.
`path` is a slice: an offset as long as the array under it is the one in use,
and the cell it showed once growth has left it with the old array. One action
per step of the loops: `MoreHeader` (compact, grow or go on, as lines 142-154
decide), `Read` (any chunk that has arrived and fits), `HeaderDone`,
`BodyTooLong`, `MoreBody`, `Route`, `Write`, and the ways out. `Return` is the
deferred function: the buffer goes back to the pool and `Accept` takes it, or a
new one, for the next connection. The client is external: it writes its workload
in pieces of any size, ahead of the answers only if `Pipelining`, and may leave.
The text of responses is left out; `resp` keeps what the router was given.

Client messages are taken to be conforming (one blank after the colon of
Content-Length, a length that fits an int), and `Route` returns: what a body does
on which `RouteRaw` panics is in `ApiServer`.

### ApiServer

`main` takes the three ways of `cmd/api/main.go`: no index file (a stub that is
ready at once), a sound one (warm-up, `SetIndex`: `idx` first, `ready` second),
one that is refused (the process ends). One goroutine per connection; its steps
are its accesses to shared state: `LoadReady`, `LoadIdx`, `Acquire`/`Shed` (the
`select`), `Vectorize`, `GetScratch`, `Scan`, `Count`, `PutScratch`, `Release`;
over net/http also `Method`, `GetBody`, `ReadBody`, `PutBody`. What a scratch or
a buffer holds is known by the request that wrote it (`written`), which is what
makes a pool mix-up visible. `sync.Pool` may drop what it holds, so a `Get` may
always return a new object. `/debug/info`, which only reads, is one step.

A body is one of three to `Vectorize`: `VectorizeFast` finds everything (good),
returns false (bad), or panics, on a month outside 1 to 12 (`fast.go:359`) or a
body that ends within the 20 bytes from the start of `requested_at`
(`fast.go:92`, where 15 were checked). The deferred calls run in each case
(`Release`, `PutBody`). Then net/http recovers, and the client's connection is
closed without an answer ("dropped"); a goroutine of `handleRawConn` has nobody
to recover for it: `Panic` is the end of the process, as `LoadFails` is
(`Exit`). `FraudService` has both: an answer "dropped" for such a body over
http, and `Crash` while such a raw request is pending.

Two things the comments say and the code does not, on which no property
depends: new arrivals "wait on the semaphore" up to `SHED_TIMEOUT_MS`
(`server.go:22-27`), which is read into a variable nothing uses, so a full
semaphore sheds at once; and the warm-up runs "before the listener opens"
(`warmup.go:12`), while `main` listens first.

### FdPass

The balancer is single-threaded: `Dial`, `Accept` (take a client, advance the
counter), `Send`, `Reconnect` (close the broken descriptor, dial once, send or
give up) and `Close`. A control connection is a record: its queue in the kernel,
the descriptor in its `recvLoop`'s hand, and the state of each end. Upstreams
have `AcceptCtrl`, `Recv`, `Push` and `Adopt`. `BalancerEnds`, `UpstreamEnds`
and the restarts may come between any two steps; a receiver's end takes what was
queued with it. With `Faults`, `accept4`, `recvmsg`, `fcntl` and the adoption may
fail for lack of descriptors, on the code's error paths (a closed channel and
the panic that follows among them). A `recvLoop` whose peer has closed is
"loop" for ever, as in the code, where `Recvmsg` goes on returning 0.

Errors of the balancer's own `accept4`, after which its loop just continues, and
of socket calls at start are left out.

### Vectors, Top5, IvfIndex, IvfSearch, PickTop

`Build` is an operator from vectors, labels and centroids to blocks, offsets,
boxes and squared radii; a lane holds the id of a vector or 0 for padding, whose
point is `Pad` on every axis. Distances are exact integers, as `exactI64Dist`
computes them.

`IvfSearch` goes cluster by cluster and, in a cluster, lane by lane. Whatever
the code compares in float32 (the radius gap, the box bound, a lane's sum) may
differ from the exact value by `FloatError` in either direction, so near the
threshold both outcomes are possible: `Prune` and `Enter` overlap, and so do
`DropLane` and `TakeLane`. `thr` is `worstF32`, read once per block while `top`
changes under it. The two roundings of the square root are taken together with
the margin; the gap is compared without roots. `mode` is the function called.
The kernel's early exit (`!alive`) is the case in which every lane is dropped.

`PickTop` has the two selections at the grain of their loops, over given
distances; `IvfSearch` uses what `PickTop` shows of them (`FirstPicks`: ties by
number; `NextPicks`: ties in any order). `heapDist` is kept as the distance of
`heapIdx`, both being swapped together.

### KdIndex, KdSearch

`KdIndex!Build` cuts the data into partitions by their key (`Keys`, ascending;
`KeyMembers`) and puts the tree of one behind those of the others
(`AddPartition`). A tree halves on the widest axis until a leaf is small enough:
`Tree` is a recursive function of what `buildKDTree` is called with (`Call`: the
members, how many nodes and blocks there are already, how deep it is) and returns
the nodes and blocks the call appends, in the code's order, so indexes into both
arrays mean the same. Members that tie on the split axis keep their order
(`sort.SliceStable`). A node also says which vectors it was built for and
how deep it lies, which only the properties read.

`KdSearch` starts with the partition of the query's own key, then visits the
others in order of their bounds (`Collect`; equal bounds in the order of the
directory), and stops at the first that cannot matter. In a tree it goes down
the nearer child and puts the farther one off (`PutOff`) if its bound is below the fifth distance
*now* and the stack has room; `Pop` takes it up again and `TooFar` judges it by
the fifth distance *then*. `StackCap` is the size of the code's array (64);
when it is full the code drops the child. Bounds are float32 in the code: the
model takes any value within `FloatError` of the exact one. Leaves are scanned
block by block and lane by lane as in `IvfSearch`. `BruteTop` is what
`FraudCountBrute` makes of the same data; `NearestFive` compares the two, as
`FullIsExact` does for the other search.

No program links this search yet; its parity test drives it, one query after
another on one scratch, and that is what `NextQuery` does.

### IndexFile, Vectorize, Days, Calibrate

`IndexFile` writes a header and the sections of `Serialize` cell by cell; a
build truncates the file first (`os.Create`) and may die between two cells. The
readers find each section at the offset the header's counts give. `Load` and
`specialist.Load` read a stream, `LoadMmap` slices a mapping: a short one is a
panic, which the model keeps apart from a refusal. Neither `Load` nor `LoadMmap`
compares the scale or the number of clusters with its own, and neither does the
model. The specialist file has no writer among the programs; it is taken to be
written as the other one is.

`Vectorize` is the sequence of `bytes.Index` calls: each looks for a quoted key
from where an earlier one ended. A body is the sequence of its keys with the
member each belongs to; those it panics on are left to `ApiServer`. `Days` walks a calendar of its own day by day beside
`dayNumberFromYMD`, valid dates only. `Calibrate` replays records of the two tiers, computes the
thresholds and applies the gate. A fixable error within a distance of 1 makes
its class's threshold 0 or less, which the gate reads as disabled, for every
record of the class; the comment of `computeThresholds` says that all fixable
entries are caught and that 0 means there are none. `GateCatches` claims what the
code does: a class is `Ungated` then (the thresholds in use, from distances in
the millions, are far from it).

Comments met here that the code does not follow, on which no property depends:
`build.go` says `Build` sorts the partitions by population, and it goes by
ascending key; `labelSource` says it avoids a global, and is one
(`index.go:216`); a `cmd/build-specialist` is named and does not exist.

## 3. What the runs check

| Run | Question | Bounds, and why they are enough |
|---|---|---|
| `RawConn_serial` | With a client that waits for each answer: right paths, and `HttpConn` implemented, progress included | Buffer 4 growing to 8 cells, two connections, five workloads: a head alone, a body that fits, one that needs growth, one that fills the largest buffer exactly, one over it, a head over it. Two connections are what it takes to see a recycled, grown buffer |
| `RawConn_pipelined` | With requests sent ahead: types, room for every read, buffer bounds, bodies, no close without cause, progress | The same. Up to three requests in one buffer, so compaction happens behind an answered request, in the header loop and in the body loop |
| `RawConn_pipelined_path` | With requests sent ahead: right paths? | Violated: see Findings |
| `ApiServer` | Readiness final, unsearched approvals counted, slots and pools never mixed up, every request answered unless its own body or the end of the process has it, `FraudService` implemented | Two connections on one slot, three requests, two scratches, two buffers: one request can overtake another's whole life, a slot is contended, and a third request uses what the first two put back. Every body of the three kinds on every route |
| `FdPass` | Turns, redial, one owner per client, nobody lost or stuck, `FdDispatch` implemented | Two upstreams as deployed, three clients so that a turn repeats and the counter wraps (`CounterMod` 2), queue and channel of one so that both fill, one restart of each process |
| `FdPass_faults` | No descriptor of the balancer's leaked on any error path | The same with refused calls |
| `FdPass_closed` | Is every descriptor received pushed to `out`? | Violated: see Findings |
| `IvfSearch` | Index sound, bounds sound, top five best of what was visited, padding harmless, oracle exact, nearest clusters scanned once each, threshold monotonic | Three datasets of seven to nine vectors in five clusters (duplicates, equidistant vectors, a single-vector and an empty cluster, a partial block), twenty queries, each followed by any other in any mode on the same scratch |
| `IvfSearch_exact` | Is `FraudCountIVF` exact, as its comment says? | Violated: see Findings |
| `PickTop` | Right clusters | Six clusters, three distances in every assignment, one mark, sizes 1, 2 and 4: a heap with a partial last level, ties of every kind. That there may be fewer candidates than asked for is left to the theorem |
| `KdSearch` | Trees sound, result that of brute force, walk ends | Two datasets of nine and ten vectors (duplicates, ties on the split axis, an odd half) in two and three partitions, a stack of two entries that the deepest tree just fills, bounds off by up to two either way, seven queries in any sequence |
| `Offline` | Only whole builds load; members never mixed up; documented payloads accepted; day numbers right; no fixable error passes the gate of a class that has one | The four machines side by side, one to a behaviour. Three IVF and two KD builds that differ in version, counts and scale, written over one another and cut short at every cell; every order of the six objects, every order of the members of three, each with nothing, a null or one key missing; eight years from years 1, 1896, 1996 and 2096 (leap, no leap, century, 400th year); two records over every class and the distances 0, 1, 2 and 4 |

Deadlock is checked in `KdSearch`, where another query can always follow. It is
not in the other runs: their instances end at their bounds (connections,
requests, clients, restarts, a query in each mode), and a replica whose index is
refused, or that meets a body it panics on, ends.

**Fairness.** `RawConn`: weak fairness of the server's goroutine (the Go
scheduler runs it; a `Read` with data waiting returns) and of a client that
stays and sends what it has. `ApiServer`: of `main` and of every goroutine;
nobody must send a request. `FdPass`: of the balancer's thread past its accept,
of `acceptLoop`, each `recvLoop` and the adoption; no client must come, nothing
must end or restart. `KdSearch`: of the search itself (`Search`), straight-line
code in one goroutine; nobody must ask again. No strong fairness is assumed
anywhere.

**Refinement.** `HttpSpec`, `DispatchSpec` and `ServiceSpec` state that the
detailed specification implements the abstract one (`HttpConn` with `open` for a
goroutine in the loop; `FdDispatch` with a client's place computed from queues,
hands and adopted sets; `FraudService` with a request pending until its
goroutine is idle). `HttpSpec` and `ServiceSpec` include the abstract fairness.

**Properties that read two states or two actors.** `OneLossPerRestart` counts
losses against restarts; `Balanced` holds across counter wraps because the number
of upstreams divides the counter's range (2 divides 2^32; with three upstreams
it would not hold at the wrap); `DefaultsCounted` compares answers with
`shed_count`; `ReadyIsFinal` compares what one client was told with what
another was told before; `PhantomsYield` says that padding is among the five only
when there was nothing else.

## 4. Findings

1. `RawConn_pipelined_path` / `PathsMatch`. The body loop compacts the buffer
   and adjusts `headEnd` and `bodyEnd`, not `path`, a slice of the same array
   (`rawhttp.go:172-178`). A request that arrived behind another one, whose body
   reaches the end of the buffer, is routed by whatever moved under the slice.
   Bodies are right all the same (`BodiesMatch`), and so are paths when the
   client waits for its answers (`SerialPathsMatch`). The comment of
   `rawhttp_loop_test.go:100-104` asks for the pipelined case too.
2. `FdPass_closed` / `EveryFdPushed`. An error of `accept4` other than EINTR
   ends `acceptLoop`, which closes `out` under the `recvLoop`s it started; the
   next descriptor received makes one panic. The comment of
   `recv_linux.go:62-64` says every descriptor is pushed to `out`.
3. `IvfSearch_exact` / `IvfIsExact`. The comment of `ivf.go:92-98` describes a
   sweep of all remaining clusters and calls the search exact by construction.
   The code scans `EscalateNByClass` more clusters, if the gate asks for it. The
   sweep survives in `FraudCountFull`, which is exact (`FullIsExact`).

Comments that do not fit the code and are not listed as findings:

- `fast.go:44-46` says that `VectorizeFast` returns false on malformed payloads.
  On a month outside 1 to 12 it indexes `monthDaysBefore` out of range
  (`fast.go:359`), and on a body cut within its date it slices past the end
  (`fast.go:92`). Over a raw connection nothing recovers from the panic. No run
  is spent on it: `FraudService` (its `Crash` and the answer `dropped`) and
  `Answered` say what such a body costs, and `ServiceSpec` checks that it costs
  no more.
- `index.go:187-188` says a phantom lane cannot reach the top five; it can while
  fewer than five vectors have been seen, with label 0, which is what
  `PhantomsYield` delimits.
- Those of section 2 on `SHED_TIMEOUT_MS` and the warm-up.

## 5. What is proved

Proofs hold for every value of the constants that satisfies the named
assumptions; TLC evaluates those assumptions on the instances.

**RawConn** (assumption `RawConnAssumption`: a positive `readBufSize`,
`maxRequestSize` twice that, as the code's constants are, and well-formed
workloads: requests laid end to end, with heads of three cells or more).

- `Invariance`: `IInv` is inductive. Its core is `Framed`: the cells between
  `pos` and `used` are those received since the start of the request being
  served, in order. None of the checked invariants is inductive without it,
  since each depends on what an earlier compaction left in the buffer. `Counts`
  ties `rcvd` to it, `Parsed` and `Routed` say what the offsets mean once a
  header is complete, `BufferSizes` that doubling gives two sizes only.
  `HeaderEndIsOwn` is the lemma that matters: the first empty line in the window
  is the end of the head being received and the only length before it is its own.
- `TypeCorrect`, `BufferSafe`, `BodiesAreKept` and `NeverClosedWithoutCause`
  follow, pipelined or not.
- `SerialPathsMatch` and `ImplementsHttpConn` assume `~Pipelining`, the
  hypothesis under which finding 1 does not arise: `SerialInv` adds that no more
  than one request is in the buffer, so `pos` is 0 whenever a body is read. Every
  step of `RawConn` is a step of `HttpConn` or leaves its variables unchanged.

**ApiServer** (assumption `ApiServerAssumption`: a positive `SHED_SLOTS`, finitely
many connections, scratches that are not buffers).

- `Invariant`: `IInv` is inductive. `Startup` is the order of the stores in
  `SetIndex`, `ready` after `idx`; `Where` says that a goroutine past the
  readiness check has seen an index if there is ever to be one. `Owned` is what
  the pools need: a scratch or a buffer in use belongs to one goroutine and is
  in no pool; `Data` says what it then holds. `Replied` carries the answer,
  or that there will be none, through the unwinding of the deferred calls.
- `SlotsNeverLeak`, `VerdictsAreOwn`, `NoSilentDefault` and `ReadinessIsFinal`
  follow for any number of connections, slots, scratches and buffers.
- `ImplementsService`: every step is one of `FraudService` or leaves its
  variables unchanged. Shedding is the step that needs the count: a full
  semaphore means `SHED_SLOTS` *other* raw requests in flight, which is
  `SlotsHeld` for the goroutine that is refused. The process's end is the
  service's (`Exits`): `LoadFails` is its failed start, `Panic` its `Crash`, for
  which `Replied` knows the body of the goroutine that panics.

**FdPass** (assumption `FdPassAssumption`: naturals, positive where they are
sizes).

- `FdInvariant`: `IInv` joins `Types` and `Capacities`; `Dials`, which counts
  control connections; `Hand`, the client in hand and its descriptor; `Kept`,
  that a control connection is open at the balancer exactly while it is the one
  kept for its upstream; and three parts that need a hypothesis each.
- `DescriptorsNeverLeak` follows from `Hand` and `Kept`, faults and restarts
  included.
- `TurnsStayEven`, if the number of upstreams divides the range of the counter:
  `Turns` says which upstreams have had one client more than the others, read off
  `next`; `Round` is the arithmetic of the step at the wrap.
- `RestartCostsOne`, if no call is refused: `Losses` says that a broken
  connection to a running upstream has a restart behind it to which no loss was
  charged yet.
- `NobodyIsLost`: `Open` says that while nothing is disturbed every connection
  and channel is open and each client past its turn is on its way or adopted.
- `ImplementsDispatch`, if no call is refused: every step is one of `FdDispatch`
  or leaves everybody in place. `Lone` is the invariant it needs beside `IInv`: a
  client is with one upstream only, in its queues, hands, channel or adopted set,
  and the client in hand on its turn is nowhere else, so letting go of it closes
  it. The flow lemmas say what a step does to the sets of clients an upstream
  carries and serves; `Located` turns those into places.

**Lemmas.** `SearchLemmas` has what several proofs need of the operators:
`InsertIs`, what `InsertI64` makes of the five (order kept, fifth distance not
grown, whatever is left out at least as far as the new fifth), `Cauchy`,
`BallSound` and `BoxSound` on distances and their bounds, `Concatenation` (where
each of several sequences lands when they are put one after the other), `Ranks`
(a sorted sequence holds the whole set, in order), `BlockFacts` (every vector has
one lane). Folds of the community modules are recursive functions, taken by the
equation they satisfy: that such a function exists (`FoldsExist`) and is the only
one is shown by induction over sets, which needs no operator parameter
(`SetInduction` takes the set of what is to be shown). `Recursion` is the same
for a function of the naturals given by its first value and the step from one to
the next, which `Holds` is. `Fives` says what five slots hold of a set of vectors:
in order, each vector once, every one not held at least as far as the fifth, and
padding only behind all of them. `TakeFives`, `PhantomFives` and `FarFives` say
how it grows by a vector taken, not at all by padding, and by vectors too far
away. Two fives of all vectors have the same distances, and the same count of
labels up to ties at the fifth (`FivesAgree`, `FivesCount`); brute force, a fold
of the same insertion, is one (`BruteFives`).

**IvfSearch** (assumption `IvfSearchAssumption`: positive sizes, vectors and
centroids with whole coordinates, `FloatError <= KernelSafety`; and two
hypotheses written as definitions of `IvfSearch`: `DistancesFit`, that distances
are below `1 << 62`, and `PaddingFar`, that a vector of padding is at least as
far from a query as any vector of the data can be. Both bound the data against
constants of the code, and TLC evaluates them on the instance as
`MCDistancesFit` and `MCPaddingFar`).

- `IndexIsSound`: for every dataset `Build` gives each cluster a run of whole
  blocks with the vectors whose nearest centroid it is and no others, each vector
  one lane, and boxes and radii that hold their vectors. From `Concatenation`,
  `Ranks` and `BlockFacts`.
- `BoundsAreSound`: a radius gap or a box bound that reaches w means that no
  vector of the cluster is nearer than w. The gap is compared without roots, so
  the triangle inequality is used as Cauchy's, squared.
- `SearchTypeCorrect`: no slot, block or lane out of range.
- `SearchWorstShrinks`: within a query the pruning threshold never grows.
- `SearchIsBest`: whatever was visited and is not among the five is as far as the
  fifth. The induction needs more than the finished clusters `TopIsBest` speaks
  of: `Considered` adds the lanes passed in the cluster in hand, and `Shape` that
  the stale `thr` is still `KernelSafety` above the present fifth distance. The
  rounding enters in two places, `PruneFar` and `DropFar`, and both close by
  `FloatError <= KernelSafety`: the comment on `kernelSafety` is the exact
  condition.
- `SearchNearestScanned`: both tiers together scan the nearest clusters, none
  twice. `NearInv` says of `Chosen`, scanned or about to be, that nothing outside
  is nearer than anything inside.
- `FullLeavesNoneOut`: `FraudCountFull` leaves out no vector of the dataset
  nearer than its fifth.
- `SearchPhantomsYield` and `SearchFullIsExact`. `FreshInv` says that no lane is
  met twice, whatever the tiers, so no vector is offered to the five twice.
  `FivesInv` says of the five that they are `Fives` of the vectors settled so far,
  scanned or in a cluster passed over.

**PickTop** (assumption `PickTopAssumption`: naturals).

- `TypeCorrect`: every position that is read or swapped exists.
- `PicksTheNearest`: both selections return the nearest candidates in ascending
  order. The list keeps whatever is nearer than its last entry. The heap's root is
  the farthest of those kept (`RootFarthest`, by the smallest counterexample
  position); `Up` and `Down` say which one edge may be out of order while an entry
  rises or sinks, and the extraction puts the root at the last free place of the
  result.

**KdSearch** (assumption `KdSearchAssumption`: positive sizes, a finite set of
key tests, vectors with whole coordinates, `FloatError <= KernelSafety`; and three
hypotheses written as definitions of `KdSearch`: `DistancesFit`, that distances
and their rounding stay below `1 << 62`; `TreesFit`, that no dataset has more
vectors than `LeafSize` doubled `StackCap` times, which is what the comment on
`TreeStackCap` argues from; and, for `KdExact` only, `PaddingFar`, that padding
is farther from a query than any vector. TLC evaluates them on the instance as
`MCSizesFit`. Nothing is assumed of the trees.)

- `KdTreesSound`: `TreesSound` for every dataset.
  - That `Tree` exists at all, and has the type of a tree, is an induction over
    the number of members (`TreesExist`, `TreeGrown`): `SplitIs` and `HalvesAre`
    say that both halves are not empty, smaller than the whole, and together the
    whole.
  - `CallsSound`, by the same induction, says that one call appends nodes and
    blocks with every member in one of its leaves and in one lane of it (`Parted`:
    halves of a list without repetitions share nothing), children behind their
    parents, boxes that hold their vectors, and no node deeper than the halving
    allows: `LeafSound` for a leaf, `InnerSound` for a call with two calls inside,
    `HalfFits` and `HoldsIs` for the depth. A half is at most half *rounded up*,
    so the depth is bounded by what a depth holds (`Holds`), not by a logarithm.
  - `BuiltSound` is an induction over the partitions: what was there stays sound
    when another is appended (`StillSound`), and the new one is sound where it
    lies (`PartAdded`). `KeysAre` and `KeyMembersAre` say that every vector has one
    partition, `BoxesBuilt` that a box bounds the distances of its vectors.
- `KdTypeCorrect`: every node, block and lane exists, the stack keeps to its
  array.
- `KdExact`: `NearestFive`. A vector is `Pending` somewhere: in a partition not
  yet visited, on the stack, in the node or the rest of the leaf in hand.
  `FivesInv` says that the top five are `Fives` of those no longer pending. A step
  that takes no lane makes nothing pending, and only what is far ceases to be
  (`Narrows`); one that takes a lane ends what was pending of its vector for good
  (`LaneStep`), because the places are `Apart`: trees, entries of the stack and
  the node in hand share no vector, and a leaf has one lane for each. `Honest`
  says that a bound, however long on the stack, is at most `FloatError` over the
  distances it stands for, which is all that `TooFar`, `Stop` and `DropLane`
  need; `Sorted` lets the first partition too far away stand for those behind
  it. That `PutOff` never drops a child for lack of room is `Deep`: the j-th
  entry of the stack lies at depth j or deeper, so a full stack would mean a tree
  deeper than `KdTreesSound` allows. The comment on `TreeStackCap`, "64 is
  comfortable", is thereby a consequence of the sizes and not of trust.

**IndexFile, Vectorize, Days, Calibrate**, in `OfflineProofs` (assumptions
`IndexFileAssumption`: counts are naturals, a build has a format;
`VectorizeAssumption`: a payload has members of the documented objects, each at
most once, and between an object's key and a member of it nothing but members of
it, as JSON puts them; `DaysAssumption`, that years start at 1;
`CalibrateAssumption`, that distances are naturals).

- `WholeBuildsLoad`: `LoadsWholeBuilds`. The file always holds the first cells of
  one build (`Written`), because `os.Create` truncates; the header then names the
  build, and `ContentIs` says that each section lies behind the offset computed
  from its counts, so a length that fits means the whole build.
- `FieldsNeverMixed`: `FieldsRight`. Two names are ambiguous. The merchant's
  average cannot be taken for the customer's, because the merchant's key would
  then lie before it and is looked for behind; the payload's id not for the
  merchant's, because `mcc` behind it is a member of the merchant; the customer's
  average not a second time, because it lies before.
- `DocumentedAccepted`: `DocOrderAccepted`. `OrderInv` says that no search has gone
  past the member it is for; `OrderTable`, that a search starts from a member that
  comes earlier in the documented order.
- `DayNumbersCount`: `DaysRight` from any first year on. `QuotientStep` says that
  a quotient grows by one in the years its divisor divides, `YearLength` that
  three such quotients give a year the length of its calendar, and
  `NextDayNumber` that the day number grows by one from day to day.
- `GateIsExact`: `GateCatches` for any set of records. `ThresholdOf` says what a
  threshold is: 0, or right below the nearest error worth escalating.

**Only model-checked.**

- Liveness (`FittingAnswered`, `Answered`, `Settled`, `Ends`, and the fairness
  parts of `HttpSpec` and `ServiceSpec`), beyond the prover. Every invariant the
  passing runs check is a theorem.

`DispatchSpec` is neither checked nor proved with refused calls: a failed
`Recvmsg` closes a connection with all it has queued, which is no step of
`FdDispatch`.

## 6. Not modelled, and why

- Instructions of the AVX2 kernels: the searches see them through `FloatError`.
- k-means training (sampling, seeding, Lloyd's iterations): floating-point and
  random; any centroids stand for its result, and nothing the search promises
  depends on their quality.
- Reading the numbers of a payload and putting them on the grid, in the
  vectorizer and in the dataset loader: text processing on float32 and float64
  whose hazards are roundings that integers cannot tell apart. `Vectorize` starts
  with the keys in place and ends when they are found; `Days` has the dates.
- `FraudCountTopN` and `FraudCountTopNByClass`, copies of the escalation with
  other sizes, for calibration; the reports `cmd/calibrate` prints.
- Offline tools, deployment files, stubs for other systems, GC and scheduler
  tuning: no state that matters to a property.

## 7. Plan

Done, from the outside in along a request's way and by the weight of what can go
wrong: connection loop; replica; handing over; search and selection; specialist
search; index files, vectorizer, calendar, calibration; proofs of the connection
loop and its refinement, of both searches, of the index and its bounds, of the
full search and the specialist's against brute force, of both selections, of the replica and its
refinement, of handing over and its refinement, of the index files and the
vectorizer, of the trees of the specialist search.

Left:

1. `System`: the hand-over composed with replicas at the grain of `FdDispatch`
   and `FraudService`, both of which the detailed modules implement: what a
   client sees across restarts.
