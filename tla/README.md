# A TLA+ model of container-lb

container-lb is an XDP load balancer for Docker containers. Its data plane is
two BPF programs in C, its control plane a Go daemon. They share nothing but
BPF maps, which the daemon rewrites while the programs read them. This
directory models that sharing, checks it with TLC on small instances and proves
part of it with TLAPS for instances of any size.

## The system

| Part | Source | State | Operations | Hard behaviour |
|---|---|---|---|---|
| BPF maps | `kernelspace/xdp_lb.c`, `types.h`, `userspace/bpf/maps.go` | `config_map`, `backend_map`, `backend_ips_map`, `counters_map` | `UpdateConfig`, `UpdateBackend`, `ClearBackend`, `ReadStats` | array elements are overwritten in place; fixed capacities |
| Pool reconciler | `userspace/discovery/pool.go` | `p.backends`, `p.byVeth` | `Sync`, `GetBackends` | stops half-way on an error; diffs by index for maps and by veth for programs |
| BPF manager | `userspace/bpf/loader.go` | `vethLinks`, the ingress link, the loaded objects | `NewManager`, `AttachVethXDP`, `DetachVethXDP`, `Close` | failing attachments; `Close` against a running `Sync` |
| Ingress program | `xdp_lb.c`, `xdp_lb_ingress` | the frame, counters | DNAT | several loads of values that change meanwhile |
| Veth program | `xdp_lb.c`, `xdp_veth_snat` | the frame | SNAT | depends on the reverse entry, the attachment and the VIP |
| Discovery | `userspace/discovery/docker.go` | none of its own | `DiscoverBackends`, `FindHostVeth` | list, inspect and veth lookup see different moments |
| Discovery loop | `userspace/cmd/main.go` | ticker, context | initial discovery, polling, shutdown | a failed `Sync` is only logged |
| Stats | `userspace/stats/collector.go` | none of its own | `render` | counters belong to slots, labels to backends |

What should be true of them:

- *Pool*: a successful `Sync` leaves the maps and the veth programs equal to
  the list it was given; a failed one can be repaired by the next; nothing is
  left behind; the count is published last.
- *Programs*: a request goes only to a backend of the pool, as one consistent
  pair of MAC and address, and only if it was sent to the VIP; a client sees
  replies from the VIP only.
- *Loop*: once Docker and the kernel stop misbehaving, the maps converge.
- *Manager*: after shutdown nothing stays attached, even if `Close` runs into
  the middle of a `Sync`.
- *Discovery*: a list pairs each address with the veth behind it, has no
  duplicates, and has every container that is up and healthy.
- *Stats*: a counter shown for a container counts that container's frames.
- *Checksum*: a rewritten header carries the checksum its receiver expects.

## Modules

| Module | Models | Correspondence |
|---|---|---|
| `BpfMaps` | the three maps Sync writes | an array-map `Put` copies one field per step in any order (`todo` holds the fields still to copy); the hash map changes atomically and refuses a key when full; `NULL` is a missing entry, `Zero` an all-zero field |
| `Pool` | `Pool.Sync`, with the `Manager` calls it makes | `pc` names the call Sync makes next and `i` is its loop index, from 0; one action per kernel call and per error return |
| `ForwardTable`, `PoolForward` | what Sync promises to the forward path, and the mapping under which `Pool` implements it | the counted entries of `backend_map` are the table; the copy of `backend_count` is the step that replaces it |
| `PollLoop` | the discovery loop of `main` around `Pool` | `docker` is what `DiscoverBackends` would return; `settled` says that it no longer changes and that kernel calls no longer fail, except on the veths in `Stuck`, which never take a program |
| `XdpLb` | the two XDP programs | one step per load from a map; `prog[c].at` names the next one; a client's frame may fail the parsing checks, a container's is an ICMP reply |
| `LoadBalancer` | `Pool` and `XdpLb` together, with a client, the bridge and the containers | the last three are external: a frame reaches one container whose MAC and address it carries, or none, and its reply enters the host through that container's veth |
| `Stats` | `Pool`, `xdp_lb_ingress` and the collector together | `Render` is `GetBackends` under `p.mu`; `ReadStats(c)` adds one CPU's counter, without a lock; requests are under way on all CPUs at once; `counted` records each request that was sent, with its CPU, slot and address, and `before` what it was when the row was begun |
| `Lifecycle` | `NewManager`, `main` and `Close` around `Pool` | `stage` is where `main` is; `Close` holds `m.mu` in the stages `links` and `objs`, and Sync's calls are guarded by that lock and by their own object still being in `open`, the objects that `lbObjects.Close` has yet to close one by one; `errs` is what `Close` reports, `left` the veths whose link it dropped without closing it |
| `Discovery` | `DiscoverBackends` and `FindHostVeth` | `step` names the next call: inspect a container, list the links of its namespace, look up the host's end; Docker starts and stops containers between any two of them |
| `Checksum` | `update_ip_csum` | a field holds the sum of its 16-bit words, which is all that a checksum sees |
| `PoolProofs`, `PoolMapProofs`, `SyncProofs`, `LoadBalancerProofs`, `GrowthProofs`, `StatsProofs`, `DiscoveryProofs`, `ChecksumProofs` | theorems; `PoolProofs` has the invariant of `Pool` and what the proofs about `LoadBalancer` and `Stats` share, `SyncProofs` covers `Lifecycle` too | |
| `MCBackends` and the other `MC` modules | the backends, lists, containers and words of TLC's instances | |

Operators whose comment calls them a variant are deliberate errors, one for
each property, used to see that the property notices them.

### What is abstracted

- Addresses, MACs and veth names are opaque values. `mac` stands for any one
  byte of a MAC: the bytes are copied and loaded separately.
- Headers are reduced to the addresses the programs compare or rewrite, and the
  parsing checks of `xdp_lb_ingress` to one flag. Those of `xdp_veth_snat`
  (`xdp_lb.c:154-168`) are left out: containers send only complete ICMP replies
  here, and the program passes any other frame unchanged before it reads a map.
  The source MAC, ports and weights are left out.
  The checksum has a model of its own, because no program reads it.
- The shipped object `lb_bpfel.o` loads `backend_count` and `ipv4` twice and
  `vip` once per program; the model follows it. A BPF modulo by zero leaves its
  left operand unchanged.
- `AttachVethXDP` fails when both attachment modes fail. Map updates fail only
  for an index past the array or a full hash map, the two errors that the
  kernel has for these map types while the maps are open.
- A link that reports an error when it is closed has not been detached.
  `DetachVethXDP` then leaves its entry in `vethLinks`; `Close` deletes the entry
  all the same, and the program stays until the process ends.
- In one list addresses are distinct (`AddressAssumption`). `NoDuplicates`
  shows that discovery returns such lists unless a container starts while it
  runs and takes over the address of one that has been inspected and stopped.
- `Discovery` gives every run of a container a new pid, and every veth a new
  index: pids and indices that are reused within one discovery are left out.
- `ReadStats` fails only for an index past the map or after `Close`, and render
  then prints 0; neither happens while the pool is running.

## Runs

| Run | Instance | Shows |
|---|---|---|
| `pool_faults` | 3 backends and a replacement with the first one's address, 2 slots, lists up to 3, attach and detach may fail | types, `SyncProgress`, `SyncedExactly`, `ServesOldOrNew`, `NeverFullWithoutFailure`, `NoResidueWithoutFailure`, `CountPublishedLast`, `ReverseMapOnCommit`, `UnmovedStaysRegistered`, `DetachesOnlyDropped`, `ResyncIsInvisible`, `ImplementsForwardTable` |
| `poll_converges` | 2 addresses, 3 containers, 2 slots, attach may fail until settled, one veth never takes a program | `ConvergesOnceSettled` |
| `lb_traffic` | 2 addresses, a replacement with new MAC and veth, a restart with a new veth only, 2 slots, attach may fail, one CPU, one request | `LBTypeOK`, `TargetsAreListed`, `OnlyVipTranslated`, `GrowthIsSeamless` |
| `stats` | 2 slots, growth by a second backend and its removal, attach may fail, two CPUs, two requests at once | `RowWithinSlot`, `StableRowsExact` |
| `lifecycle` | 2 slots, all lists of two backends and one that is too long; attaching, detaching, closing a link or an object may fail | `NothingAttachedAfterClose`, `NilMeansWritten` |
| `discovery` | 3 containers, on two networks, on one, and on one without IPv4; 4 starts; any call may fail | `OfOneRun`, `NoDuplicates`, `SteadyIsFound` |
| `checksum` | sums at the edges of the carries, no options | `ChecksumVerifies` |
| `pool_moved` | 3 slots, no failures | violated: `ReverseMapComplete` |
| `poll_wedged` | 3 addresses, lists up to 2, 2 slots | violated: `ConvergesOnceSettled` |
| `poll_stuck` | as `poll_converges` | violated: `StoppedAreRemoved` |
| `lb_snapshot`, `lb_vip` | as `lb_traffic`, without the restart and without failures | violated: `ConsistentSnapshot`, `ClientSeesOnlyVip` |

The `lifecycle` run switches the deadlock check off: the process ends.

Why the bounds suffice. Sync treats all slots alike, and a slot's fate depends
on its own old and new backend and on whether that backend's address also
appears in another slot: two slots show moves up and down and an unmoved
backend next to a changed one. With three backends they fill the hash map and
overrun the array; the theorems cover any number of slots. The number of Syncs
is not bounded. The programs only read what Sync writes and count in per-CPU
memory, so two of them do not influence each other: one CPU and one request
with its reply meet every interleaving with Sync that matters to that request.
The theorems about the programs hold for any number of both. Reading the counters of two CPUs in
either order while two requests arrive shows a count missed, seen and seen by
one CPU only; the CPUs are symmetric there. `StatsProofs` covers lists that move
or exchange backends. In `lifecycle` two backends move, come and go under every
order in which the objects are closed, and a list of three overruns the array.
In `discovery` four starts let each container come up and one
restart, take over another's address, or do both to different containers;
discoveries are not bounded.

Fairness. The three `poll` runs assume weak fairness of the tick and of the
steps of a running Sync: the ticker keeps firing, and the goroutine holding
`p.mu` is scheduled and never blocks on another lock for long. Nothing
forces the environment to settle; the property only speaks of runs in which it
does.

### What the violated properties show

1. **Moved backends lose their reverse entry** (`pool_moved`). From `[A,B]` to
   `[B]`, Sync writes B at slot 0 and then clears slot 1, deleting B's address
   from `backend_ips_map`. B is served but its replies are not translated until
   the next poll. `ReverseMapOnCommit` states exactly which backends are hit:
   those that moved to a lower index. Docker lists the newest container first,
   so removing a container moves every older one down.
2. **A leak can stop the pool for good** (`poll_wedged`). What a failed Sync
   wrote is not in `p.backends`, so nothing removes it if the next list lacks
   it. When the pool is as large as the hash map, a leaked key leaves no room,
   and every later Sync fails at the same place.
3. **No consistent snapshot** (`lb_snapshot`). Publishing the count last
   protects slots that are new, not counted slots being rewritten.
4. **Clients can see a backend's address** (`lb_vip`). The slot is rewritten
   before the new backend's veth has the program. `GrowthIsSeamless` is the
   part of the claim that holds: appending backends is invisible, also where a
   Sync fails half-way. It also needs that no container restarts behind a new
   veth unnoticed: until the next Sync attaches the program there, its answers
   leave untranslated.
5. **One backend blocks the removal of others** (`poll_stuck`). Sync returns at
   the first attachment that fails, before it clears stale slots and before the
   count. If Docker goes from `[A,B]` to a list whose only backend cannot be
   attached, B's slot stays counted at every later poll.

Further counterexamples, to statements the passing runs exclude. They are not
among the runs; `tlc -config <configuration> <module>` finds each in seconds:

| Configuration, module | Violated | What happens |
|---|---|---|
| `MCPoolLeak.cfg`, `MCPool` | `NoLeakedEntries` | the leak behind `poll_wedged`, on its own |
| `MCStatsRow.cfg`, `MCStats` | `RowCountsBackend` | a slot keeps its counters when it changes hands, so the new backend's row counts the old one's requests (`docs/architecture.md:45` has them "per backend") |
| `MCLifecyclePaired.cfg`, `MCLifecycle` | `TranslationPaired` | `Close` removes the SNAT programs first; until the ingress program goes, requests are still translated and replies are not |
| `MCDiscoveryDropped.cfg`, `MCDiscovery` | `HealthyStays` | a failed inspection or veth lookup is handled as if the container had stopped, and Sync removes a healthy backend (`README.md:203` has it stay) |
| `MCDiscoveryVeth.cfg`, `MCDiscovery` | `AddressBehindVeth` | for a container on two networks, address and veth are picked independently, and the SNAT program can be on a veth the replies do not use |
| `MCChecksumOptions.cfg`, `MCChecksum` | `FullyRecomputed` | both programs accept a header with options and sum only its first 20 bytes, which is what `xdp_lb.c:49` says and not what `docs/architecture.md:135` says |

Also met: `README.md:29` says the ingress program drops what does not match; the
code passes it to the kernel (`XDP_PASS`), and so does the model.

## Proofs

For every `MAX_BACKENDS`, every set of backends and lists, every choice of
failing calls, every number of CPUs, requests, containers and networks:

| Module | Theorem | Statement |
|---|---|---|
| `PoolProofs` | `TypeCorrectness` | `Spec => []TypeOK` |
| | `ProgressHolds` | `Spec => []SyncProgress` |
| | `SyncIsExact` | `Spec => []SyncedExactly` |
| `PoolMapProofs` | `ConfigIsLast` | `Spec => CountPublishedLast` |
| | `DetachIsExact` | `Spec => DetachesOnlyDropped` |
| | `Refinement` | `Spec => ImplementsForwardTable` |
| | `SlotsServeOldOrNew` | `Spec => []ServesOldOrNew` |
| | `UnmovedKeepsEntry` | `Spec => UnmovedStaysRegistered` |
| | `CommitReverseMap` | `Spec => ReverseMapOnCommit` |
| | `CleanWithoutFailure` | `Spec => []NoResidueWithoutFailure` |
| | `ResyncInvisible` | `Spec => ResyncIsInvisible` |
| `SyncProofs` | `CloseDetachesAll` | `LifeSpec => []NothingAttachedAfterClose` |
| | `NilSyncWroteAll` | `LifeSpec => NilMeansWritten` |
| | `RoomWithoutFailure` | `Spec => []NeverFullWithoutFailure` |
| `LoadBalancerProofs` | `VipFilter` | `LBSpec => []OnlyVipTranslated` |
| | `TargetsListed` | `LBSpec => []TargetsAreListed` |
| | `LBTypes` | `LBSpec => []LBTypeOK` |
| `GrowthProofs` | `SeamlessGrowth` | `LBSpec => []GrowthIsSeamless` |
| `StatsProofs` | `RowsConsistent` | `StatsSpec => []RowWithinSlot` |
| | `RowsExact` | `StatsSpec => []StableRowsExact` |
| `DiscoveryProofs` | `AddressAndVethOfOneRun` | `Spec => []OfOneRun` |
| | `BackendsDistinct` | `Spec => []NoDuplicates` |
| | `NoSteadyBackendLost` | `Spec => []SteadyIsFound` |
| `ChecksumProofs` | `ChecksumCorrect` | `Spec => []ChecksumVerifies` |

Assumptions: `MapAssumption` (at least one slot, `Zero` is no backend's
address), `PoolAssumption` (lists are sequences of backends),
and `AddressAssumption` (addresses distinct within a list) for
`UnmovedKeepsEntry`, `CommitReverseMap`, `SeamlessGrowth` and `RowsExact` only;
`XdpAssumption`, `LBAssumption` and `StatsAssumption` on the other constants of
their modules; `DiscoveryAssumption` (a container is on some network, and the
address pools of two networks are disjoint: Docker refuses a subnet that
overlaps another);
`ChecksumAssumption` (fields are sums of as many words as they have, and the
word with the version is not zero).

A leaf names a prover (`Zenon`, `SMTT(30)`) where the default order of provers
would first spend its time on one that does not find the proof, or finds it late.

The arguments:

- *Pool.* `SyncedExactly` speaks only of a pool at rest, so it is not
  inductive. `IInv` adds `SyncProgress`, which says at each `pc` and `i` what
  has been done: slots behind `i` are final, the slot at `i` holds the fields
  copied so far, the new veths behind `i` are attached and no longer in
  `oldByVeth`, the count is the old one until its own update. The maps are
  treated apart from the veths (`MapInv`). A failure needs
  no repair in this argument: every Sync rewrites each slot of its list,
  whatever an earlier one left. `NextIInv` has one lemma per action; the action
  properties follow from `IInv` and one step.
- *Refinement.* Each action of `Pool` is, through the mapping, a step of
  `ForwardTable` or a stutter. `IInv` gives the two facts that are not in the
  action itself: slots are complete when the count is copied, and the config
  update that follows the last detachment cannot fail.
- *Reverse map.* Two more invariants, each relative to `IInv`. `ReverseMap`
  says which addresses of the new list have been registered and which the
  clearing of an old slot has deleted again. `NoResidue` bounds, until a call
  fails, what may be registered, attached or non-zero at each point of the
  loops. The room in the hash map follows by counting: every registered
  address comes from a slot that is not the one being written.
- *Unchanged lists.* With `InPlace`, each call of a Sync of `p.backends` itself
  writes what is there: `IInv` and `OldVeths`, by which only veths of
  `p.backends` can be detached, leave it nothing to clear, detach or refuse.
- *Programs.* `VipInv` carries the outcome of the VIP comparison from the load
  to the rewrite, using that the VIP, once written, is only ever overwritten
  by itself. `WindowInv` records the pools a running program may have seen; a
  slot's content is of one of them by `SlotsClean`, also for a slot past the
  count, which a program can reach when the count drops to zero.
- *Growth.* `PoolGrown`: while Syncs only append, no slot, registered address
  or attached veth in use is given up, whether or not a Sync fails. `Served` is
  the list whose count is published, and only grows, so an index stays good
  from one load to the next (`ServedPast`). `GrowthInv` follows a request from
  there to a container whose veth carries the program, and `AnswerInv` its
  answer through `xdp_veth_snat`, which finds the address registered and, by
  `VipWritten`, the VIP. `FrameInv` gives the types of the frames on the way.
- *Statistics.* `CountInv`: a counter is the number of recorded requests of its
  CPU and slot; a request under way arrived after all that its CPU has counted,
  so the record never takes two for one. `RowInv`: what `ReadStats` has added so far is the size of some
  set of requests of the slot that were sent from CPUs already read, and that
  set has all those from before the row. `SteadySlots` then ties slot and
  backend together while Syncs only append, again by `PoolGrown`.
- *Lifecycle.* `Detached`: in the stages after the links are closed, a program
  that is still attached is one whose error `Close` has collected; Sync's
  attachment then waits for `m.mu`, which `Close` holds, or finds its program
  closed. While `Close` takes the links away `IInv` no longer holds, but
  `MapInv`, its part about the maps, does (`NextMaps` in `PoolProofs` does not
  need the veths). `WrittenInv` adds that the VIP has been copied. A call that
  finds its object closed either ends Sync or is one whose effect the next call
  repeats: the write that follows an ignored `ClearBackend` overwrites the same
  slot, or fails.
- *Discovery.* `DInv`: what is at hand and what is in the result names a pid
  whose recorded run has that address. A run's record never changes.
  `SteadyInv`: a container that has been up and healthy since the listing waits
  for its inspection, is at hand under its current pid, or is in the result,
  unless a call for this container failed. `DistinctInv`: what was read of one
  container is true of no other that is up, so one inspected later cannot repeat
  it; for addresses only until a container starts during the discovery. After
  that `LiveApart`, by which running containers have different addresses, leaves
  at most one of two backends with the same address running.
- *Checksum.* The first fold leaves at most 65544, the second at most 65535
  once cast, and each preserves the sum modulo 65535.

Only model-checked: `ConvergesOnceSettled`, as liveness under fairness is out
of the prover's reach. One of the facts it rests on is proved: polling again
what is in place changes nothing (`ResyncInvisible`). Every other property of a passing run is proved;
those of the other runs are refuted.

## Not modelled

- `vmlinux.h` and the `lb_bpf*.go` bindings are generated. `vmlinux.h` declares
  the types of the whole kernel in some 138,000 lines, of which the programs use
  a handful of structs; a share of modelled lines that counts it says little.
- Text: `formatBytes`, `truncate`, the layout of the table, log messages.
- `lb.port` and the ports in the maps: no program reads a port.
- Command-line flags, and the failures before anything is attached: they end
  the process without a trace in the kernel.
- `Stats` and `Discovery` are not composed with `Lifecycle`, and `PollLoop` takes
  lists as `Discovery` returns them and not its steps: Sync sees only the list.
- Pids and interface indices reused within one discovery.
- The tests and `scripts/`: read as evidence of intent.
