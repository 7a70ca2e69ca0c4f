# Verification of the multi-core attention accelerator (golem)

The system under verification is the `golem` element library
(`src/src/sst/elements/golem`): an event-driven model of a 20-core accelerator
for LLM attention and decoder layers. Cores 0-3 are managers, cores 4-19 are
workers, four per manager; off-chip memory (HBM) is behind memory nodes. The
parts exchange messages over links and a control network and finish memory
operations through callbacks. All of it runs in one simulation thread, so a
handler is atomic, but the handlers of different parts interleave freely: the
system is a set of concurrent actors, and that is what the modules model. The
one exception is guest software, which talks to its core through memory words
and can be interrupted between any two of them.

## Inventory

Paths are relative to `src/src/sst/elements/golem`.

| Part | State | Operations | What is hard | Module |
|---|---|---|---|---|
| Grant scheduler (`groupctrl/groupctrl.cc`: `handleReq`, `trySchedule`, `tick`, `handleRsp`) and its guest runtime | request queue, cursor, per-worker flags, per-node counters, mailbox words, links | REQUEST, DONE, FINISHED, GRANT, GROUP_DONE, word-by-word mailbox accesses | cap under interleaving, lost or doubled requests, stranded queue, early GROUP_DONE | `GroupCtrl` |
| K/V distribution (`groupctrl/groupctrl.cc`: `handleAttentionKv*`) | tile slots with epochs, request queue, landings, double buffers | request, load, read-out, delivery, ACK, cancel, look-ahead | coalescing of late requests, out-of-order release, failure in the middle | `KvDistribution` |
| PV-to-Wo hand-off (`attention/pvWoHandoff.h`) | outgoing and incoming queues, heads landed, generation, lease | dispatch, receive, tick, local write callback, lease, consume | generations against the layer barrier, queue bounds, stale input of Wo | `PvWoHandoff` |
| Weight cohort (`attention/reuseWeightCohort.h`) | cache slots, epochs, requests, landings | begin, fetch, release, receive, tick, three callbacks | eviction against late callbacks, use of the leader's memory, release while busy | `WeightCohort` |
| Request scheduler (`requestscheduler/requestscheduler.cc`) | per-node per-worker queues, credits, cursors, pending reads | submit, tick, handleReq, retire, chunk landing | credit accounting, refused sends, fairness, lost wake-up | `RequestScheduler` |
| GlobalMemory (`globalmemory/globalmemory.cc`) | pending DMA, send queue, landings, local port queues, generation fence, tokens | DMA read and write, time-out, retry, landing, local access, cancel | time-outs against late replies, cancel against queued writes, back-pressure | `GlobalMemoryDma` (reads), `RequestScheduler` (controlled reads) |
| Memory-node DMA bridge (`../memHierarchy/memNICBase.h`, `memNIC.cc`) | ingress queue, credits, reads with the memory, kept K/V copies, response queue, clock | READ, DMA_WRITE, consumer progress, memory answer, clock edge | credit leaks, double answers, sleeping with work left | `DmaBridge` |
| Attention worker and manager (`rocc/roccAnalog.h`) | job state machines, double buffers, prefetches, generation | job start, tile loop, QK/softmax/PV stages, finish, fail | prefetch against cancel, callbacks of an old job | not modelled: sequential within a core; its calls on the shared parts are made with arbitrary timing in `KvDistribution`, `PvWoHandoff` and `GlobalMemoryDma` |
| Attention cluster primitives (`attention/attentionCluster.h`) | score FIFO, output accumulator, operand leases, cancel registry | push/pop, lease, rescale, cancel | leases at the limit, rescale order | in part: the generation fence is in `GlobalMemoryDma`, the rest are sequential data structures of one core |
| Decoder jobs (`attention/decoderOpJob.h`, `attention/projectionJob.h`, `attention/reuseWindowGemm.h`) | operator state machines, tile windows | start, tick, callbacks | window reuse against late loads | in part: their calls are the environment of `PvWoHandoff` and `WeightCohort`, whose `job` asks for tiles in any order the slots allow and so covers the window GEMM |
| Tile engine (`tileengine/tileEngine.h`) | micro-tile pipeline, prefetch window, transactions | command decode, window advance, retire | retire against prefetch | in part: its scheduler calls are the client of `RequestScheduler`; the micro-tile pipeline is timing within one engine |
| Banked local port (`globalmemory/localGmBankScheduler.h`) | bank queues | enqueue, step | starvation across clients | not modelled: fixed priorities and cycle timing |
| Layer stack of the guest (`src/test/golem/small/muticore_attention`) | layer barrier, residency | open layer, wait, close | a core one layer ahead | in part, as `root` of `PvWoHandoff` |
| SFU control (`sfu/sfu.cc`) | row and vector pipelines | issue, tick, complete | pipeline hazards | not modelled: pipeline occupancy is cycle timing of one unit |

Not modelled, and why:

* SFU arithmetic, `fp16.h`, `vector_math.h`, compute arrays and CrossSim
  coupling: numerics on floating-point data, which TLC has no types for.
* `lut_tables.h`, `silu_lut_tables.h`: generated tables.
* Statistics, tracing, resource intervals, argument parsing and logging: no
  property depends on them.
* The other SST element libraries under `src/src/sst/elements` (merlin,
  memHierarchy apart from the bridge, vanadis, ...): vendored upstream code.
* `scripts`, `software/native` and the Python drivers of the tests: build and
  measurement tooling.

## Modules

Conventions: a module names the C++ functions it translates in the comment of
each definition. A record stands for an object, with the fields of the class; a
link is a FIFO sequence; a network with several paths is a set or a count. A
callback that a part registers is an action whose guard is that the operation is
under way. A memory port that may refuse is a Boolean choice in the action. Data
are abstracted to their identity (which tile, which layer), so that stale or
wrong bytes are still visible. Definitions that start with "Seeded fault" or
"Mutant" are deliberately wrong variants of the definition that follows; they
document what each property is able to notice and are used by no specification.

* `GroupCtrl`: `mgr` is the manager endpoint with its response links, `reqOut[w]`
  the link of worker w, `seen[w]` the worker endpoint, `mbox[w]` the mailbox
  words and `sw[w]` the guest kernel. `HandleRequest/Done/Finished` are the three
  branches of `handleReq`, `Tick` is `tick`, `HandleRsp` is `handleRsp`, and each
  store of the mailbox helpers is an action.
  `NodeGrants` is what the scheduler promises, without mailboxes, links and
  counters, and `GroupCtrlGrants` maps the protocol to it. `GroupCtrlInv` states the
  inductive invariant; `GroupCtrlSteps` and `GroupCtrlSafety` hold the proofs.
* `KvDistribution`: `mgr` holds the slots, the queue, the scratch memory, loads
  and reads under way; `worker[w]` the requests, landings and the generation that the
  worker counts for itself; `buf[w]` what is in the double buffer. A scenario, chosen in
  `Init`, says which jobs run, whether the manager looks ahead, how far apart the
  generations of the workers may be, and how many memory accesses and workers fail. The
  tiles of a job have the same number of chunks. A memory may refuse any access.
* `PvWoHandoff`: `core[w]` is the hand-off object of a worker, `gm[w]` the landing
  memory, `wo[w]` its Wo job, `root` the guest's layer barrier. Exceptions of the
  class set a fault, and `NoException` says none is reachable. `PvWoHandoffInv`
  states the inductive invariant; `PvWoHandoffSteps` and `PvWoHandoffSafety` hold the
  proofs.
* `WeightCohort`: `mem[m]` and `server` are the member's and the leader's part of
  the class, `job[m]` the decoder job, `scratch` and `dest` the memories. The memories may
  refuse an access or complete it with an error; a `std::logic_error` of the class sets
  `fault`, and the `std::runtime_error` for an access that failed, which ends the
  simulation, sets `failed`. The loop of
  `admit` is a recursive function over its iterations; the time stamps `age`, of which
  only the order matters, are ranks. `WeightCohortInv` states the inductive invariant,
  `WeightCohortMoves`, `WeightCohortCallbacks` and `WeightCohortProofs` hold the proofs.
* `RequestScheduler`: `mgr`, `wrk[w]`, `link[w]`, and `net` for the chunk reads
  under way. A scenario, chosen in `Init` and kept in `mgr.set`, gives the issue
  policy (node first or group round robin), whether the worker is event-driven, and
  credits, window and transactions. `passed` is a history of the rotation that
  `RoundRobin` reads.
* `GlobalMemoryDma`: `dma`, `sendQ`, `landings`, `local` and `xfer` are
  `dma_pending`, `send_retry_queue`, `pendingDmaLandings_`, `localWriteQueue_` and
  the DMA contexts; `net` counts the READs and replies under way and `mem` how
  often each chunk of the destination was written. The memory node may answer a copy of
  a READ or merge it with another copy that it is serving. A READ that leaves the send queue
  during the time-out loop starts its count with the next event.
  `GlobalMemoryDmaInv` states the inductive invariant, `GlobalMemoryDmaProofs` holds
  the proofs.
* `DmaBridge`: `nic` is the bridge (ingress queue, credits, bundles, reads with the
  memory, kept copies, response queue, clock), `net` the messages on their way,
  `sent` the answers, and `nic.merged` a history of the repeated reads that were merged
  with the one under way. A message and its retry share the request id `req`. A
  scenario gives the messages, the policies in force and whether there is a credit cap.
  Ages are counted in clock edges, up to a bound that the reorder and starvation
  thresholds do not exceed, and `tick` keeps the order of arrival and ready times beyond
  that bound. The code compares arrivals in core cycles and ready times in NIC cycles;
  the model counts both in edges, so its admission thresholds stand for multiples of the
  clock factor. `chunk` stands for a message's addresses. One job, request ids other
  than 0. A message above the cap, which is fatal, is left out.
* `MC*`: the instances.

## Runs

Bounds are constants marked "bound" in the modules. They were chosen as the
smallest at which each hazard occurs and each action fires.

| Run | Shows | Bounds, and why they are enough |
|---|---|---|
| `group` | no request lost or granted twice, every request granted, the group ends, no deadlock | 2 workers competing for 2 nodes with a cap of 1, 2 requests each, so that a request follows a DONE of its own worker; coarse grants (window 2), which take the FINISHED branch |
| `group_overload` | cap, quiet GROUP_DONE, FINISHED after DONE, no stranded queue, inductive invariant, refinement of `NodeGrants` | 3 workers with a queue of 2, so that requests are dropped. A worker whose request was dropped waits for ever (the code has no retry), hence no deadlock check |
| `handoff` | inductive invariant, no exception, one custodian per block, complete means landed, Wo input intact, every layer ends | 2 workers that produce and consume, so blocks travel both ways and to self; queue bounds equal to the number of producers; 2 layers for the generation change; both input modes |
| `cohort` | inductive invariant, right tile in every buffer, memory used inside the epoch, quiet release, no logic error also when accesses are refused or fail, every epoch ends | 1 slot for 2 tiles (eviction on every miss), 2 chunks (interleaved landings), 2 epochs |
| `kv` | one slot per tile, complete means in place, requests accounted for and not refused, every job ends and slots drain; with failures, live requests stay accounted for | 3 tiles of 2 chunks through 2 slots and 2 buffers, so a buffer is reused; with and without look-ahead; and two short jobs with a failing access, a failing worker, both, or a failing worker in a group whose generations differ by one; a queue of 2. After a failure the group may stop, so deadlock is not checked; without one, being stuck violates `GroupFinishes` |
| `kv_generations` | finding: a cancel meets the slot of another job | 2 jobs of 1 tile, 2 failing workers whose generations differ by one |
| `sched` | exact credits, ready means landed, no read lost, round robin, every transaction completes | 2 workers, 2 nodes, panels of 2 chunks, 2 credits, a budget of 2 sends per tick of which the network takes any number, both policies; and an event-driven worker with the credits the code derives for its window: 2 transactions live, or 3 one after the other |
| `sched_wake` | finding: a lost wake-up | 2 transactions, 1 credit |
| `gm_dma` | contexts exact, success means landed once, no late write, every transfer ends | a transfer of 2 bursts (the last one shorter) and one of 1 through a window of 1; 1 retry, so that a duplicate reply and giving up both happen; a port queue of 1; 1 generation begun, retired or cancelled at any point. The engine may idle, so deadlock is not checked; being stuck with work left violates `EveryReadEnds` |
| `bridge` | every request in one place and answered once, exact credits and bundle counters, safe sleep, older windows first, everything answered | seven mixes of 3 or 4 reads, writes and progress messages of 2 workers over the policies the code tells apart: a read, its retry and two other readers of one chunk; the K and V reads of one tile, which form a bundle; a bundle of window 2 half admitted when window 1 arrives; the default order with limits; no credit cap, with and without window priority. Credits for 2 chunks, so that reads wait; 0 to 2 sends per handler |
| `bridge_copies` | finding: a kept K/V copy is not released | 2 workers at different query tiles read one chunk |
| `bridge_uncapped` | finding: an answer stays in the queue of a sleeping NIC | 2 workers read one chunk, no credit cap |

## Fairness

In `KvDistribution`, `WeightCohort`, `GlobalMemoryDma` and `RequestScheduler` one
condition is enough: the simulation goes on while any event is pending (the event
queue of the simulator is served until it is empty), in whatever order. In
`RequestScheduler` retiring a tile again, and the tick that answers it, do not count as
going on. In `GroupCtrl` and `PvWoHandoff` weak fairness is per actor: clocks tick (the
clock handlers never unregister while work is left), links deliver, local memory
completes, guest polling loops leave when their condition holds. The network may refuse
a send any number of times but not for ever, which the link-control interface
guarantees by its `handleSendAvailable` notification. In `DmaBridge` deliveries, the memory and the
clock are weakly fair; a network that refuses sends is a clock edge without room, so
that the network takes sends again is strong fairness of an edge with room. It is the
only strong fairness assumed. Where TLC would evaluate ENABLED on a large action,
fairness is spelled out, with the enabling condition as a state predicate and the step
recognised by what only it changes.

## Proofs

Each theorem holds for all values of the constants that the module's assumption
allows (`GroupAssumption`, `HandoffAssumption`, `CohortAssumption`, `DmaAssumption`).
TLC evaluates the assumptions in the runs.

### Grant scheduler

For all numbers of nodes, queue depths, caps, grants per pass, windows and requests,
and for groups of one to four workers (the code has four slots).

*Types.* `TypeCorrect` (`GroupCtrlSteps`) is `Spec => []TypeOK`, with one lemma per
operator of the manager (`SendRsp`, `IssueGrant`, the scan and its `CHOOSE`,
`TrySchedule`, `ReturnGrant`, `MaybeSendGroupDone`): each maps a well-typed manager
to a well-typed one.

*The invariant.* The safety properties are not inductive: that a worker which uses a
grant is counted by the manager depends on where its DONE is, which depends on what
its mailbox and the two links hold. `IInv` therefore says, per worker, where the
request token and the grant token are: what the request link may contain
(`LinkShape`, seven cases), that a request is in at most one of mailbox, link, queue
and response link (`RequestToken`), which sequence numbers the mailbox words hold
while they are being written (`RequestWords`, `DoneWords`), that a worker is inflight
exactly while its grant is on the way, held or on the way back (`GrantToken`), and
the same for FINISHED (`FinishToken`). `ManagerInv` adds exact counters within the
cap and one queued request per worker; `QueueMatches`, `NotStranded` and
`GroupDoneSent` relate the queue and GROUP_DONE to the workers. TLC checks `IInv` in
`group_overload`.

* `TrySchedule` is described once, as a relation between managers (`Advanced`):
  every worker is either `Untouched` or `GrantedTo` (its queued request becomes a
  GRANT on its link), and `ManagerInv` is kept. One grant satisfies it
  (`IssueGrantAdvanced`), it is reflexive and transitive, so up to four passes do
  (`TryScheduleEffect`). When a pass leaves requests queued some worker is inflight:
  with nobody inflight every counter is 0, below the cap, so the first queued
  request could have been granted (`FirstPassHolder`).
* `WorkerFrame` and `WorkerGranted` carry `WorkerInv` over a step for the workers the
  step does not belong to; one lemma per action (`GroupCtrlSteps`) treats the worker
  that moves. `IInvNext` joins them and `TokensTracked` is `Spec => []IInv`.

From it follow `HoldersAreBounded` (at most `maxInflightPerNode_` workers use a grant
for a node at a time), `QueueNotStranded`, `FinishedFollowsDone` and
`GroupDoneIsQuiet`.

*No request is lost.* `IInv` says a request has at most one copy; that it has at least
one is not part of it, since a full queue drops requests. `RequestsAreKept` shows that
a queue with a place for every worker (`QueueDepth >= Cardinality(Workers)`) never
does: `ManagerInv` makes the queue's entries belong to different workers, and the
worker whose REQUEST arrives has none, so the queue's slots map injectively into the
other workers (`QueueHasRoom`). Every other step moves a token from one place to the
next. `RequestHasOneCopy` adds the two halves up to the count that
`OneCopyPerRequest` states.

*Refinement.* `GrantsImplemented` is `Spec => Grants!ASpec`: every step is a stutter
or a step of `NodeGrants` under the mapping of `GroupCtrlGrants`. The step that takes
a grant is an abstract `Use`, whose guard (fewer than `Cap` users) follows from the
counters: the worker is inflight already and not among the users, and the inflight
workers of a node are at most `Cap`. `Leave` needs that GROUP_DONE means all have
finished.

### PV-to-Wo hand-off

For all geometries (managers, lanes, heads, blocks), producers, payload sizes,
numbers of layers, an incoming bound of at least and an outgoing bound above the number
of producers (in the code 8 and 16, for the 8 cores 12-19 that run PV).

`HandoffInvariant` is `Spec => []HInv`. None of the properties is inductive: that an
exception is not reachable depends on which messages may still arrive, which depends
on what the PV executors hold and on where every worker is in its layer. `HInv` says
that every message, queued or travelling, carries the block its owner holds, of the
current layer, to the place the geometry gives (`Wellformed`), and that no two
messages have the same owner (`Unique`); that `received` and `landed` say exactly
which blocks have arrived and landed (`Tracked`, `InInv`, `BlockInv`); which
generation is open in each phase of the layer (`PhaseInv`); and what the landing memory
holds (`MemoryInv`). TLC checks it in `handoff`.

* The blocks of a layer and the pairs of target worker and head are in bijection
  (`GeometryInjective`, `GeometrySurjective`), so two blocks never land in the same
  place and all heads of a worker have landed when all blocks are finished.
* `HInv` is written over values (`Inv`), not variables: a handler takes a message from
  a queue, handles it and queues an answer, and each of these moves keeps `Inv` by
  itself (`OutToNet`, `NetToOut`, `DataReceived`, `AckReceived`, `ChunkLanded`,
  `LastLanded`). An action is a composition of moves; both are in
  `PvWoHandoffSteps`.
* The code throws when a queue is full. Entries of a queue have different owners, all
  of them producers, so a queue is no longer than there are producers, and shorter
  while a producer's message is elsewhere (`OwnersBoundLength`).
* The steps of the layer barrier and of Wo use that no message is under way when all PV
  executors are free.

From it follow `HandoffNoException` (none of the class's exceptions is reachable),
`HandoffCompleteMeansLanded` and `HandoffWoInputIntact` (while Wo runs, its input is
that of its own layer). `HandoffNothingLost` adds that a block whose producer waits is
in a queue or on the network, or its acknowledgement is; with `Unique` this gives
`HandoffOneCustodian`.

### Weight cohort

For all cohorts (members, leader), numbers of cache slots, chunks, tiles and operators,
and up to four destination buffers per member.

`CohortInvariant` is `Spec => []CohortInv`; the induction carries `Sound`, which is
`CohortInv` and no logic error (`CohortSound`).
The properties are far from inductive: that a delivery finds its landing, that a
bounded queue has room and that a released epoch is quiet all depend on where the
requests of every member are. `CohortInv` treats a request and the delivery that answers
it as one token, with the same identity (`Id`): every token, Join, Finish and Release is
in one place only, of outgoing queues, network, request queue and slots (`Unique`), a
request or delivery has a landing that waits for it, and a Join or Finish is not yet
known to the leader (`MsgInv`); a landing belongs to the operator under way and its
written chunks are in place (`LandingInv`, `HoldsInv`); an operator ends only after
its release (`JobInv`, `EpochInv`); and a slot works only for requests that wait for it,
after all members have joined, and holds its tile when it is not being loaded
(`SlotInv`). `Ordered` says that the leader's release to itself is queued before its
next Join. TLC checks `CohortInv` in `cohort`.

* The invariant is written over values (`Inv`), and `tick`, which handles a message,
  pumps the landings, admits, pumps the slots and releases in one action, is a
  composition of moves that keep it (`WeightCohortMoves`); so are the callbacks of the
  memories and the calls of the decoder job (`WeightCohortCallbacks`).
* `admit` is a loop over a queue that it shortens as it goes. What the model's recursive
  function computes is not needed, only that each iteration keeps `Inv` and an iterator
  within the queue; that all iterations then do is shown with the least iteration that
  would not (`LeastElement`).
* The code throws when a queue is full. Tokens in a queue are distinct and each has a
  landing, landings of a member have different destination buffers, so a queue maps
  injectively into pairs of member and buffer (`Pigeonhole`), and the outgoing queue of
  the leader has room for those besides its Join, Finish and releases. Facts about
  cardinalities are collected in `Counting`, an assumption of the lemmas of
  those modules that `WeightCohortProofs` discharges.

From it follow `CohortNoLogicError` (no `std::logic_error` of the class is reachable,
whatever the memories refuse and until one of them fails),
`CohortFetchedTile` (a buffer the operator reads holds the tile it asked for),
`CohortScratchInsideEpoch` (the leader's memory is a cache only while the leader is in
that operator) and `CohortReleasedIsQuiet`.

### DMA reads

For all numbers of transfers, bursts, chunks and retries, windows, time-outs, depths of
the write port and generations.

`DmaInvariant` is `Spec => []DInv`. The counts of a context mean nothing by themselves:
replies may be duplicates of an earlier transmission, and a landing's accesses may be
cancelled behind its back by `cancelGeneration`. `DInv` says that a request id is
pending or landing, at most once (`Distinct`); that what is pending or landing belongs
to a transfer under way whose generation is open (`Owned`); that a context counts its
outstanding bursts (`Counted`); that a queued local access writes the next chunk of its
landing, or is cancelled (`Queued`); and what each destination chunk holds
(`Contents`). READs and replies on the network are not constrained at all: nothing depends on
how many copies of a reply there are or when they arrive.

* Sending, time-outs and the send queue change only the times of pending READs:
  `Retimed` relates two sets of READs up to that, and `RetimedInv` keeps `DInv` along
  it.
* `ReceiveReply` turns a pending READ into a landing, or drops the reply when there is
  none or its generation is closed; `LocalDone` has three cases: an access whose landing
  is gone (`LocalDoneOrphan`), one that leaves chunks to write (`LocalDoneContinues`),
  and the last one (`LocalDoneFinishes`, which ends the transfer when it was the last
  burst).

From it follow `DmaRemainingExact`, `DmaOkMeansLanded` (a transfer that reports success
has every chunk written exactly once) and the action property `DmaNoLateWrite` (no
chunk of a transfer that is not under way is written).

### What is only model-checked

* All liveness: the prover does not do fairness or ENABLED.
* The safety of `KvDistribution`, `RequestScheduler` and `DmaBridge`. Several of their
  operators are folds or recursive functions over queues (the issue loops of the
  scheduler, admission in the bridge, serving the queue of the K/V slots), and their
  properties depend on what these compute (which counters, which credits), not only on
  an invariant that each iteration keeps; that is induction over data, out of the
  prover's reach.

## Findings

* `kv_generations`: a cancel finds its slots by the generation of the worker that
  started them, which other workers count differently; it marks its worker as cancelled
  in a slot of another job, and that slot is then freed under a live request
  (`groupctrl.cc:1005`).
* `sched_wake`: `retireTransaction` recomputes the service flag from the submit
  queue alone and forgets a wake-up that a completed read of another live
  transaction had set (`requestscheduler.cc:949`).
* `bridge_copies`: reads of one K/V chunk for different query tiles do not join, but
  share the key of the kept copy; the second answer replaces the first one's list of
  served consumers, and the copy stays after all have been served
  (`memNICBase.h:1884`).
* `bridge_uncapped`: without a credit cap and window priority, a read served from the
  kept copy queues its answer in the receive handler, which does not switch the clock on
  for it (`memNIC.cc:111`); the answer stays until another event of the bridge.

Behaviour met while modelling about which no line of the repository promises
anything is recorded in `PROJECT.json` under `hazards`, with a note.
