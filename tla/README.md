# TLA+ models of dpa_send

`dpa_send` is a packet forwarder for the DPA, the processor inside an NVIDIA
BlueField/ConnectX NIC. A host program creates queues, steering rules and one
*event handler* per DPA thread; the handlers run on the NIC, poll a completion
queue, swap the MAC addresses of every packet and send it back from the buffer
it was received into. A *scheduler* handler may own the receive queues and hand
them to the threads, and accounts the cycles they spend.

Paths are relative to the repository's root (`src/`); short names such as
`tnt2.c` stand for `packet_sender/dev/flexio_ps_dev_tnt2.c`, `utils.c` for
`packet_sender/dev/flexio_ps_dev_utils.c`, `host_utils.c` for
`packet_sender/host/flexio_ps_host_utils.c`, and so on.

## 1. Inventory

| Part | State | Operations | Talks to |
|---|---|---|---|
| Packet forwarding: `pp_queue` (utils.c:51-101), the polling loops (tnt1.c:30-46, tnt2.c:37-48), `com_step_cq` (com_dev.c:131-142) | CQ, RQ and SQ rings in DPA heap; `cq_ctx_t` (index, owner bit, CQE pointer), `sq_ctx_t` (segment index, producer index); RQ and CQ doorbell records; the SQ doorbell | poll the owner bit, read the CQE, swap the MACs in place, post a WQE, ring the doorbell, free the RQ entry, step the CQ | the NIC, through memory and doorbells only |
| Tenant handlers `flexio_pp_dev_1`, `flexio_pp_dev_2` | per thread `status`, `tenant`, `busy_cycle` (`offload_info`), `tnt_not_first_run`, own CQ context | activation, EU_OFF -> EU_FREE, spin until EU_HANG, take the tenant pointer, forward up to a limit, arm the own CQ, EU_OFF, reschedule | the scheduler, through atomics and MSI-X |
| Scheduler `flexio_scheduler_handle`, `sch_ctx_init` | `sch_not_first_run`, queue contexts, `tenant_cycle_used`, `tenant_cycle_target` | first activation, wake-up loop, assignment loop, scan loop, report every period, arm every CQ and sleep | the threads; the NIC (activation, CQ arms) |
| Host program `main` | `app_ctx`, `thd_ctx[]`, `err` | creates everything in order, runs the handlers, waits for Enter, cleans up; a label `cleanup` for most failures | libflexio, libibverbs, mlx5dv |
| Steering (`create_matcher_*`, `create_rule_*`, `destroy_*`) | matchers, tables, rules | create, match, destroy | mlx5dv; the packets that reach the RQs and leave from the SQs |
| First packets: `dpa_send_first_pkt`, `send_packet` (utils.c:182-191, 211-273) | the thread's SQ context | an RPC from the host posts one WQE | the thread's handler, which writes the same context |
| MAC helpers (com_dev.c:17-55) | twelve bytes of a packet | swap, save and restore a destination | - |
| Unused code: `com_step_eq`, `com_cq_poll`, the workloads of com_dev.c, `process_packet`, `forward_packet`, `change_status`, `copy_sch_data_to_dpa` | - | no caller in the repository | - |

What is hard about each of them:

* **Forwarding** shares all its memory with a device. It never copies a packet
  and never looks at a send completion: the receive buffer becomes a send
  buffer, and is the NIC's to receive into again *before* it was transmitted.
  Four counters of different widths (`cq_idx` 32 bits, `sq_wqe_seg_idx` in
  units of four, `sq_pi`, the 16-bit RQ counter) and one owner bit must stay in
  step for ever. Correct means: the owner bit is right on every pass, the entry
  in hand is not replaced, packets leave in order and once, and a posted WQE
  keeps describing its packet.
* **Handlers and scheduler** run on different execution units and share three
  words per thread. Every decision is a load followed by a store, so each side
  can act on a status the other has replaced; either side may sleep. Correct
  means: no handler ever uses a tenant it was not given, no queue is reset under
  a thread, no cycle is lost, nobody waits for ever, every packet is served.
* **First packets** run on another execution unit than the handler and update the
  same `sq_ctx_t` with plain loads and stores, while the handler is already
  running. They also take their buffer from the SQ's data and their key from the
  RQ's. Correct means: what the doorbell announces is what was written, the
  queue does not break, and the TX rules hold back nothing that carries their
  address.
* **The host program** can fail at each of some forty calls per thread. Its
  clean-up runs over everything, created or not, with pointers that `malloc`
  left undefined. Correct means: nothing is destroyed before what refers to it,
  nothing else is left behind, and the exit code tells. Meanwhile the device is
  at work: packets arrive as soon as a rule exists, each handler runs on the
  context whose number it reads, behind its data, and nothing stops any of them
  before their memory is freed.

The full list of hazards, each at its line with the properties that watch it,
is in `PROJECT.json` under `hazards`.

## 2. Modules

| Module | What it is |
|---|---|
| `PacketFifo` | the promise of a queue: a bounded FIFO |
| `Forwarding` | one tenant queue, its thread and the NIC; shown to implement `PacketFifo` |
| `MCForwarding` | instance for TLC (two configurations) |
| `ModArith` | lemmas on `%` and `\div` that the proofs need |
| `ForwardingProofs` | the theorems about `Forwarding` |
| `QueueService` | the promise of scheduler and handlers together: each packet served and charged once, bills complete |
| `Dispatch` | the threads of both handlers with their scheduler; shown to implement `QueueService` |
| `DispatchProofs` | the theorems about `Dispatch` |
| `DispatchServiceProofs` | that `Dispatch` implements `QueueService` |
| `MCDispatch` | instance for TLC (five configurations) |
| `SendPath` | the send queue of a thread: its handler, the first-packet RPC, the TX rules and the NIC |
| `MCSendPath` | instance for TLC (two configurations) |
| `SendPathProofs` | the theorems about `SendPath` |
| `ReferenceSystem` | the reference system of host_main.c:228-229, as its well-behaved client sees it |
| `HostLifecycle` | creation, failure and clean-up of the host program; shown to implement `ReferenceSystem` |
| `MCHostLifecycle` | instance for TLC (two configurations) |
| `HostDevice` | composes `HostLifecycle` with the NIC and the handlers that use the resources |
| `MCHostDevice` | instance for TLC (one configuration) |
| `HostDeviceProofs` | the theorems about `HostDevice` that need the order of the set-up only |
| `HostReferenceProofs` | the theorems about references, clean-up and the memory of the NIC; that `HostLifecycle` implements `ReferenceSystem` |
| `MacHelpers` | the MAC helpers byte by byte, with their theorems |

The operators introduced by a comment "A bug ... must not have" are not part of
a specification: each is a variant of the action after it, with a plausible
mistake, on which the property named in `PROJECT.json` (`mutants`) fails.

### 2.1 Forwarding

One action per access that the NIC can observe: `Poll`, `ReadCqe`, `SwapMac`,
`PostSend`, `RingDoorbell`, `FreeRqWqe` and `StepCq` are the seven steps of one
turn of the loop, in the order of `pp_queue` and its caller. The NIC is
`NicReceive` (a packet into the oldest RQ entry, a CQE into the next slot,
*whether or not that slot was given back*) and `NicTransmit` (which reads the
buffer only when it transmits). Both are external: modelled from how the code
uses them.

Indices wrap at `IdxMod` (2^32 in the code) and `CtrMod` (2^16); the three rings
have `Depth` entries, as all of the code's rings have `1 << LOG_Q_DEPTH`. A
packet is its arrival number, a buffer the packet in it and whether its MACs are
swapped. The rings' initial contents are those of `cq_mem_alloc` (owner bits 1)
and `init_rq_dbr` (all entries the NIC's). Left out: byte counts, memory keys,
the control and ethernet segments, which are written once; the fences, because
memory is sequentially consistent here. So the model says nothing about a fence
that might be missing.

`taken` and `lastOut` are history variables: the CQEs stepped over and the
packet of the WQE announced last.

### 2.2 Dispatch

One scheduler with `N` queues and `N` threads: thread `i * num_queues + j` serves
queue `j` of scheduler `i`, an injective numbering, so schedulers share nothing
but code and one is enough. `Tnt1` are the threads that run `flexio_pp_dev_1`.

Every load and store of what the other side writes is an action of its own. Host:
`ThdCtxInit` (the RPC that makes `cq_number` non-zero, variable `ready`) and
`EventHandlerRun` (`runnable`: events now activate the handler). Thread: `Activate`,
`LoadStatus`, `StoreFree`, `StepOwnCq`, `SpinOnStatus`, `LoadTenant`, `PpQueue`
(the poll that finds a CQE; what happens to the packet is `Forwarding`),
`Account1`/`Step1` or `Step2`/`Account2` (the two handlers account and step in
opposite orders), `ArmOwnCq`, `StoreOff`. Scheduler: `SchActivate`, `SchCtxInit`,
the wake-up loop (`WakeLoad`, `WakeReady`, `WakeMsix`), the assignment loop
(`AssignTenant`, `HangAssigned`), the scan loop (`CheckTime`, `ScanLoadOff`,
`ScanReady`, `ScanMsix`, `ScanLoadFree`, `ScanHang`), the report (`ReportReset`,
`Collect`) and the arms (`LoadCqIdx`, `ArmQueue`). The three loops share one index
`j`, as no two are live together. `spent`, `reported` and `look` are history: the
cycles used and collected, and what the scheduler's last look at each thread is
still worth (`current`; `unready`, it had no `cq_number`; `gone`, it has gone off
since).

Time limits (`now_cycle < reschedule_cycle`, the limit of `flexio_pp_dev_1`, the
report period) are nondeterministic choices; the packet limit of
`flexio_pp_dev_2`, 1 000 000 in the code, is `Quota`. A packet costs one cycle.
Counters do not wrap here: 64-bit cycle counters do not in the life of a
machine, and the ring indices are `Forwarding`'s subject.

External: an armed CQ activates its thread when a CQE arrives, or at once when
it is armed while one waits; `flexio_dev_msix_send` activates the thread
attached to the CQ; an activation that arrives while the handler runs is kept
until it reschedules.

What all of this amounts to is `QueueService`: a queue is opened once, packets
arrive, each is *served* (its CQE stepped over, `qCi`) and *charged* (a cycle
counted, `spent`) once, in either order but one packet at a time, and a *bill*
covers all that was charged. `Service` maps `sch_not_first_run` to the opening and
`reported` to the bills; statuses, tenant pointers, wake-ups, arms and
`busy_cycle` itself have no counterpart. `SchCtxInit` must be seen to open without
undoing anything, and `Collect` to bill `spent` although it only ever adds up what
it exchanged for 0.

Two assumptions about the system around the code. The model takes handlers that
received the argument their header documents (`HostLifecycle` shows that they do
not, see findings), and a scheduler that runs as sch.c is written, although
`main` no longer starts one: with `SchedulerStarted = FALSE` the model is the
program as it is, and one run checks just that.

### 2.3 SendPath

`sq_ctx_t` of one thread and everything that meets there. Two *posters*: the
`handler` (`pp_queue`) and the `rpc` (`send_packet`), which `main` calls for every
thread after its handler was started. Both run the same post, on plain fields of
the same structure; each load and each store is an action: `LoadSlot` (the address
of the WQE, utils.c:84 and 248), `LoadSegIdx` and `StoreSegIdx` (the increment,
utils.c:85 and 249), `WriteWqe`, `LoadPi`, `StorePi`, `RingDb` (`++sq_pi`, then the
doorbell). A compiler may merge the two loads of `sq_wqe_seg_idx`; that is the
behaviour in which nothing happens between them. `PpQueue` and `SendPacket` prepare
what is sent: the packet, its buffer and the memory key.

The handler takes its packets from a *tenant* queue. No rule of `main` leads there:
its RX rule (host_main.c:197) leads to the thread's own RQ, whose packets activate
the handler and are never forwarded, and the code that made rules for tenant queues
is commented out. So `Arrive`, external, puts packets with *any* addresses into the
tenant queue. Like `Dispatch`, the module takes a handler with the argument its
header documents and a tenant it was given.

The TX rules are a set, *any* subset of the two, because `main` ignores their
failures. `Transmit` lets a packet leave if both match it. `KeyOf` says which key
opens which buffer. A WQE whose key does not open its buffer, or one that was never
written, puts the SQ into error, of which the thread never hears, and the SQ
transmits nothing more. `Arrive`, `Transmit` and `Covered` are external.

Left out: the receive rings and the wrap of the indices (`Forwarding` has both),
byte counts, and the control segment. A doorbell that goes *back*, which two
overlapping posts can produce, is left to the NIC as it is: `Transmit` waits
until the doorbell is ahead again.

`posts`, `overlapped` and `raced` are history: the packets in the order their
posts began, and whether posts overlapped. The properties use them to say what
the code gives up in an overlap and what it does not.

### 2.4 HostLifecycle

A resource is `<<kind, owner>>` with a thread or the application as owner. `main`
is the sequence `Setup` of creations and the sequence `TearDown` of destructions,
both concatenated from one sequence per function of the code, and `step` is its
place in them. Calls that may fail but create nothing to be destroyed are in
`Setup` too (`Checks`): among them `mmap` and the two RPCs, `thd_ctx_init` and the
first packet of each thread. `Create` and `Fail` are the two outcomes of a call.
`Fail` follows what `main` does about that very call: return, go to the clean-up
with `err` set or not, go on, not notice, or fault (`mmap` is compared with NULL
and not with MAP_FAILED, and `memset` follows). `Crash` is a NULL matcher
dereferenced. `Skip`, `Destroy` and `DestroyInvalid` are the three things a
destruction meets: NULL, a resource, or a pointer that is garbage or stale; the
last is undefined behaviour and either goes on or crashes.

`failed` keeps the very entries of `Setup` whose call failed, so that what is said
of a thread may depend on that thread's failures only; `MaxFailures` bounds how
many calls fail in one run.

`References` says which resource refers to which, from the arguments of the
calls, and applies to all of them the reference system of host_main.c:228-229
(destroying something still referenced is refused). That includes closing the
device while a protection domain is left, which the code always does. Memory of
the DPA heap is the exception: `flexio_buf_dev_free` frees it whoever uses it.
Left out: the parsing of `argv` and the values of the attributes.

`ReferenceSystem` is what that comment promises, for any set of resources and any
references among them: a resource is acquired once, when all it refers to is held
or *lost* (its creation failed, and NULL or garbage is passed in its place), and
released when nothing held refers to it. `RefSystem` maps `live` to what is held.
Unlike the real reference system, which refuses, this one has no step for a client
that gets it wrong, and it covers the memory of the DPA heap, which nothing
protects. A refused `Destroy` changes nothing, so it stutters; a second
destruction of an object already freed is undefined behaviour of `main`'s pointers
and touches no resource.

### 2.5 HostDevice

`HostLifecycle` with the device beside it. `HostCreates` adds to `Create` what the
RPC `thd_ctx_init` does (the context of the thread, `ctx`); all other steps of
`main` are `HostGoesOn`. `NicReceive` is possible from the moment a rule and its RQ
exist. A handler goes through `HandlerStarts` and `HandlerStepsCq`, and then spins,
there being no scheduler. Nothing of this stops when the clean-up begins, and the
model has no such guard either.

The number of a handler, `idx`, comes from outside its data *from its first
activation on*. `flexio_event_handler_run` gets the address of the field `thd_id`
(host_utils.c:580-581, host_main.c:209), which the handler takes for the address of
the structure, so `data_from_host->thd_id` (tnt2.c:7) lies behind the allocation.
`HandlerStarts` therefore picks any number when the argument is that field's
address: of this thread, of another one, or of none (`Elsewhere`). It would pick `t`
only if the argument were `app_data`, which never happens (`HandlerGetsAppData`).
`HandlerStepsCq` steps the CQ of the context with that number, and may also fault:
on a context that is none or empty, or after it, `not_first_run` being read from
the same place, on a tenant that is NULL. What is claimed of handlers is therefore
claimed for every number they may read.

### 2.6 MacHelpers

A packet is a function from offsets to bytes; `Load8` and `Store8` are the 8-byte
accesses of `swap_mac` and `get_swap_mac`, `Masked` the combination with `mask`
(little-endian, as the DPA is). `Swapped` is what they are for. `swap_mac` stores
its first word over the beginning of the second, so it is not obvious that it is
right; `Forwarding` and `SendPath` rely on it as one step that swaps.

## 3. Runs

| Run | Bounds | Shows |
|---|---|---|
| `forwarding_safety` | `Depth` 2, `IdxMod` 8, `CtrMod` 4, 10 packets, fair | type, polling, entry in hand, CQ overrun, packets in flight, FIFO refinement; everything received is forwarded, and transmitted by a NIC that keeps up |
| `forwarding_reuse` (violation) | 4 packets | a buffer received into again before its transmission |
| `dispatch_pair` | a thread of each handler, 1 packet per queue, 1 sleep of the scheduler, fair | type, tenant pointers, cycle accounting, truthful statuses, refinement of `QueueService`; a waiting thread with packets is released; who may be left behind asleep |
| `dispatch_repeated` | 1 thread of `flexio_pp_dev_2`, `Quota` 1, 3 packets, 1 packet of its own, 2 sleeps | no queue is ever reset, and who may be left behind asleep |
| `dispatch_lost_wakeup` (violation) | 1 thread, 2 packets, 1 sleep | a thread marked EU_HANG while asleep |
| `dispatch_no_scheduler` (violation) | 1 thread, no scheduler | a handler that spins for ever |
| `dispatch_own_cq` (violation) | 1 thread, 1 packet | an own CQ stepped past its CQEs |
| `send_path` | `Depth` 2, 2 addresses, 1 first packet, 2 packets of any addresses | type, WQEs announced and written, what an overlap costs, why the SQ breaks, what the TX rules hold back |
| `first_packet_key` (violation) | as above, no packets | a first packet breaks the SQ |
| `host_device` | 2 threads, 2 calls that fail | references respected, clean-up complete and exit codes on every path, refinement of `ReferenceSystem`; whether what NIC, handlers and first packets use is there |
| `host_cleanup_twice` (violation) | 1 thread | the RX matcher destroyed twice |
| `host_handler_argument` (violation) | 1 thread | the handler's argument |

**Why the bounds are enough.** In `forwarding_safety` 10 packets take a two-entry
ring through five passes, the CQ index (8) and the RQ counter (4) through their
wraps, and the segment index, which counts in fours, through five wraps of its
own. The NIC may be a whole ring ahead or behind at each of them. `Depth` 2 is the
smallest ring in which neighbours differ; that nothing depends on it is what the
proofs show. A counter that wraps onto an old value would let the NIC take "all" for
"none"; `EverythingForwarded` therefore asks of the NIC that it never falls a
whole counter behind (`NicKeepsUp`), which 2^32 leaves ample room for.
In `Dispatch` one packet makes a thread do each of its steps, and a second or
third lets it go off and on again between any two steps of the scheduler
(`dispatch_repeated` has `flexio_pp_dev_2`, the handler `main` installs, which with a
`Quota` of 1 goes off after each packet); the
threads interact only through the scheduler's loop, so two of them, one of each
handler, show what one cannot (the scheduler is elsewhere while this thread
moves). A sleep of the scheduler ends in a second activation, the one that skips
`sch_ctx_init`.
In `SendPath` one first packet and two of the handler give a post that overlaps
with none, with the end of one and with the beginning of another, on a ring of
two WQEs that is used again; two addresses are the thread's and anybody else's.
`main` calls the RPC once per thread. In `HostLifecycle` and `HostDevice` two
threads tell first from last and a thread that failed from one that did not, and
two failures a first one that is ignored from a second that is not, in the same
thread or in another.

All runs say `CHECK_DEADLOCK FALSE`: without packets every part of the system
does stop (a polling loop with nothing to poll, a thread asleep, a process that
exited).

**Fairness.** `FairSpec` of `Forwarding` assumes that the thread keeps running,
because handlers are bound to an execution unit of their own
(`FLEXIO_AFFINITY_STRICT`, host_main.c:152), and that the NIC drains the send
queue. Of `Dispatch`: the same for every thread and for the scheduler, and that
the host finishes its loop over the threads. Nothing makes packets arrive, a
scheduler may stay in its loop for ever, and a `flexio_pp_dev_1` thread may or
may not reach its time limit.

**What serving needs.** `EveryPacketServed` fails as it stands
(`dispatch_lost_wakeup`). A thread is *forgotten* when it sleeps under EU_HANG
without an event: the scan only wakes EU_OFF, so nothing but a packet of its own
brings it back. `ForgottenOnlyUnseen` says in which orders of events that happens,
for both handlers, any number of sleeps and threads started at any time:

* the assignment loop (sch.c:192) marks a thread that has gone off since the
  wake-up loop looked (sch.c:168), or that had no `cq_number` then (sch.c:169), also
  one the host starts meanwhile or later;
* the scan marks a thread of `flexio_pp_dev_2` that, between its load of EU_OFF
  (sch.c:202) and its store (sch.c:207), was woken, worked off its quota and went
  off again. In the code the quota is 1 000 000 packets, so this takes a scheduler
  that stalls between two neighbouring statements for that long. A
  `flexio_pp_dev_1` thread cannot do it: it spins until that very store.

The scan's branch for a thread without a `cq_number` (sch.c:203) is not a third
way: the assignment loop has marked such a thread EU_HANG and it cannot have gone
off since (`Marked`).

**What answering needs.** Three things lose an answer, and none is noticed by the
code: an SQ in error (`ErrorsExplained` says why it can be), an overlap of two posts,
and the TX rules. After an overlap, slots and doorbell may stay out of step for
ever: `SkewOnlyInOverlap` says that no later post by itself repairs it. The rules
hold back everything if one is missing, and else the answers to packets that were
not addressed to `SMAC_int`, which no rule of `main` keeps out of a tenant queue;
`SendsMatchRules` says that they hold back nothing else.

**What handlers rely on.** `PreparedBeforeUse`: when the handler of a thread is
under way (until the clean-up), or `main` sends its first packet, all the queues,
memory and keys of the thread exist and its context is filled, but for failures
`main` does not look at. A packet may come much earlier, with the RX rule; it is the
argument, given last, that holds the handler back. Which context the handler then
works on is another matter, as it reads its number behind its data: `StepsLiveCq`
says that, of the contexts that are filled, it steps none whose doorbell record is
not there. Of an empty context nothing can be said.

**What the clean-up does to handlers.** `NicTouchesLiveMemory` holds because the
rules go first and each queue goes before its memory. For handlers there is no such
property: `app_data` is freed first and the event handlers are destroyed last, so in
the clean-up they may step the CQ of a context whose memory is gone.

## 4. Proofs

`ForwardingProofs` proves for **every** `Depth`, `IdxMod`, `CtrMod` and `MaxPackets`
that satisfy the assumptions of `Forwarding`:

| Theorem | Says |
|---|---|
| `Invariance` | `Spec => []IInv` |
| `TypeCorrect`, `PollSafe`, `PacketSafe`, `OverrunSafe`, `InFlightSafe` | the five invariants of `forwarding_safety` |
| `Refinement` | `Spec => ImplementsFifo`: the rings implement `PacketFifo` |

Assumptions: `Depth > 0`; `IdxMod` is a multiple of `4 * Depth` and `CtrMod` a
multiple of `Depth` larger than it. In the code all are powers of two and the
ring is far smaller than 2^16. A `CtrMod` equal to `Depth` would really break it:
a full ring could not be told from an empty one.

The invariants are not inductive. `IInv` adds what makes them so: `CountersInv`
(packets received, taken, posted and freed stay within a ring of each other),
`ContextInv` (each wrapped index is its unbounded count modulo its width, and the
owner bit is the parity of the pass), `ReceivedInv` (the last `Depth` receptions
are where the rings say) and `PostedInv` (the same of the last `Depth` WQEs).
Each action has a lemma with one step per conjunct. `ModArith` has the facts on
`%` that Z3 does not find: residues of neighbours, distinct residues within one
window, `(a * m) % (b * m)`. The refinement maps the pending packets to what one
reaches by following the CQEs; `PendingIsWaiting` shows this sequence to be the
packet numbers `posted .. rxCount - 1`, and then `NicReceive` is `Arrive`,
`RingDoorbell` is `Forward` and all else stutters.

`DispatchProofs` proves for every number of threads, every assignment of the two
handlers to them and every bound (`N > 0`, `Quota > 0`, the other bounds naturals):

| Theorem | Says |
|---|---|
| `DispatchInvariance` | `Spec => []IInv` |
| `DispatchTypeCorrect` | the type invariant |
| `TenantSafe` | `NoNullTenant`: a handler works only on its own queue, once set up |
| `StatusSafe` | `StatusTruthful`: `flexio_pp_dev_1` works only under EU_HANG, nobody sleeps under EU_FREE |
| `CyclesSafe` | `CyclesAccounted`: no cycle lost or counted twice |
| `ConsumerSafe` | `ConsumerNeverReset`: no step takes a consumer index back |
| `ForgottenSafe` | `ForgottenOnlyUnseen`: who is left behind asleep under EU_HANG, and by which step |

The argument goes through the order of two stores of the scheduler. `tenant` is
stored before EU_HANG (`AssignedInv`: whoever is EU_HANG has its tenant), and the
scan, which stores EU_HANG without a tenant, starts only when the assignment loop
has gone over every thread (`SchedulerInv`). So a thread that was released, in
this activation or an earlier one, has its queue (`ReleasedInv`), whatever became
of its status meanwhile; and before the scheduler's first activation nobody was
released, so what `sch_ctx_init` resets is still zero (`FirstRunInv`), which is
all `ConsumerSafe` and `CyclesSafe` need about it. `StatusInv` follows the status
through one activation. `LookInv` says that a thread seen off that has not been
active since has an event or is about to get one, and that a `flexio_pp_dev_1` thread
the scan found waiting stays where it is; with `Marked` in `SchedulerInv` (past the
assignment loop a thread without `cq_number` is EU_HANG) it gives `ForgottenSafe`.
None of the five properties is inductive without them.
A thread's step is shown to leave the scheduler and the other threads alone
(`ThreadFrame`), and the scheduler's the threads (`SchedulerFrame`), so that each
part is proved once per actor and not once per pair.

`DispatchServiceProofs`, for the same instances:

| Theorem | Says |
|---|---|
| `ServiceInvariance` | `Spec => []ServiceInv` |
| `RefinesService` | `Spec => ImplementsService`: scheduler and handlers implement `QueueService` |

`ServiceInv` is what a thread carries between a poll that found a packet and its
accounts: `flexio_pp_dev_1` has charged and not yet served it, `flexio_pp_dev_2`
served and not yet charged it, and in between the packet is still there, though
nobody looks again. It is inductive only next to `IInv`, which says that
the thread works on its own queue and on an open one. `ThreadServes` shows a
thread's step to be `Serve`, `Charge` or a stutter of its own queue,
`SchedulerServes` takes `FirstRunInv` to see that `SchCtxInit` is `Open` (the
indices it resets are zero) and `CyclesAccounted` to see that `Collect` is `Bill`.

`SendPathProofs` proves for every ring depth, set of addresses and number of
packets and first packets:

| Theorem | Says |
|---|---|
| `SendInvariance` | `Spec => []IInv` |
| `SendTypeCorrect` | the type invariant |
| `AnnouncedSafe` | `AnnouncedIntact`: without overlap, what is announced is what was posted |
| `PostedSafe` | `NothingUnposted`: even with overlaps, no more is announced than was begun |
| `ErrorsSafe` | `ErrorsExplained`: the two reasons for which the SQ breaks |
| `MatchSafe` | `SendsMatchRules`: both TX rules hold back nothing but answers to packets addressed to somebody else |
| `SkewSafe` | `SkewOnlyInOverlap`: slots and doorbell fall out of step only in an overlap |

None is inductive. `OverlapInv` makes overlap symmetric: of two posts under way
both know. `FreshInv` then says that a post which overlaps with none still finds
the counters it loaded. `CountInv` bounds `sq_pi` by the posts begun minus those
that have not counted themselves yet, *also when computed from a stale register*:
this is what `PostedSafe` rests on. `SoloInv` and `RingInv` give the exact
counters and ring contents before the first overlap. `SendsInv` says that whatever
lies in the registers or the ring is a first packet with the rules' address or an
answer to a packet that arrived, with the key of its buffer.

`HostDeviceProofs` proves for every number of threads and any failures:

| Theorem | Says |
|---|---|
| `DeviceInvariance` | `DeviceSpec => []DeviceIInv` |
| `DeviceTypeCorrect` | the type invariant, `main`'s place in its lists included |
| `FailureSafe` | `FailureReported` |

Its first half is about the program as a sequence: `SetupPlaces` says what stands
at every place of `Setup` for every number of threads, `ThreadPlace` where the
entries of one thread are, `RunPlace` and `PacketPlace` that `run` and the first
packets stand nowhere else. The invariant adds to the types that what set-up has
passed exists (`PassedInv`), that a handler which runs was run (`RanInv`), that a
context is filled once its place was passed (`CtxInv`), and which failures leave
`err` alone (`FailInv`). `HostReferenceProofs` builds on them: a handler that runs is
past its `run`, so past its queues, their memory and `thd_ctx_init`, which precede it.

`HostReferenceProofs`, again for every number of threads and any failures:

| Theorem | Says |
|---|---|
| `OrderInvariance` | `Spec => []OrderIInv` |
| `ReferencesSafe` | `ReferencesRespected`: only the device context is still referenced when its turn comes |
| `CleanUpSafe` | `CleanUpComplete`: what a clean-up leaves behind |
| `NicSafe` | `DeviceSpec => []NicTouchesLiveMemory` |
| `PreparedSafe` | `DeviceSpec => []PreparedBeforeUse` |
| `StepsLiveSafe` | `DeviceSpec => []StepsLiveCq`, whatever number a handler reads |
| `RefinesReferences` | `Spec => ImplementsReferences`: `main` is a well-behaved client of `ReferenceSystem` |

`ReferencesRespected` alone is not inductive: whether the next destruction finds a
reference depends on everything destroyed before it. `OrderIInv` adds four facts.
`MadeInv`: what set-up has passed exists or failed, and what lies ahead of it was
not tried. `ValidInv`: what exists is pointed to, so the clean-up does not pass over
it. `GoneInv`: what the clean-up has passed is gone, but for the device context.
`NeedsInv`: what a live resource refers to, or the NIC uses through it, exists or
failed. They are carried by two facts about the lists themselves, for every number
of threads: `SetupOrder` (what an entry of `Setup` needs stands before it) and
`DownOrder` (whatever needs an entry of `TearDown` stands before it, the device
context apart), with `TearDownCovers` (every resource but those of `LeftBehind`
stands somewhere in it). These come from the place of every entry as a function of
its kind and thread. `NicSafe` needs no invariant of its own: `NeedsInv` counts the
rings, doorbell records and keys among what a rule or a queue needs, and the order
of `TearDown` is why that still holds in the clean-up. `PreparedSafe` and
`StepsLiveSafe` combine it with `DeviceInvariance`: before the clean-up, a filled
context, or a handler that runs, means that set-up has passed the RPC or the `run` of
that thread (`RanInv`), and with it all that stands before.

`MacHelpers` proves, for packets of every size, that `swap_mac` and `swap_macs`
exchange the addresses and keep all other bytes (`SwapMacCorrect`,
`SwapMacsCorrect`, the latter with the loop's invariant `After`), that doing so
twice restores the packet (`SwappedTwice`), and what `get_swap_mac` puts where
(`GetSwapMacCorrect`).

Only model-checked: the liveness properties (`EverythingForwarded`,
`SpinReleased`), because the prover
has neither fairness nor ENABLED. Every invariant, action property and refinement
of the passing runs is proved.

## 5. Findings

1. **Receive buffers are given back too early** (`forwarding_reuse`, utils.c:100).
   `pp_queue` returns the RQ entry right after the doorbell. When the NIC
   receives a ring's worth of packets before it transmits, an old send goes out
   with a newer packet's bytes.
2. **A wake-up can be lost** (`dispatch_lost_wakeup`, sch.c:168-195). The wake-up
   loop and the assignment loop look at the status apart, and the second stores
   EU_HANG unconditionally.
3. **No scheduler is started** (`dispatch_no_scheduler`, host_main.c:66-78). A
   handler activated by a packet waits for EU_HANG for ever.
4. **The own CQ is stepped on every activation** (`dispatch_own_cq`, tnt2.c:24),
   also on those the scheduler caused.
5. **The RX matcher is destroyed twice, the TX matcher never**
   (`host_cleanup_twice`, host_main.c:283-289).
6. **The handler's argument** is the address of the field `thd_id`
   (`host_handler_argument`, host_main.c:209, host_utils.c:580-581); the handlers
   read it as the whole structure, and so take their number from behind it.

7. **A first packet carries the wrong key** (`first_packet_key`, utils.c:251). It
   lies in the SQ's data buffer, for which the host created a key of its own
   (host_utils.c:149-156), and is sent with the key of the RQ's data. Since
   nobody polls the SQ's CQ, the queue is silently dead from then on.

Two more disagreements that need no run. README:64-65 asks for the *source* MAC
of the rules and says that the destination "can be anything"; the RX rule
compares the destination (host_utils.c:891-892, 934-935), and it is the destination
that the swap turns into the source the TX rules compare (`SendsMatchRules`). And
host_main.c:34 speaks of a multiple of 16, which line 33 does not test.

## 6. Not modelled

* `tenant_cycle_target`, computed by `sch_ctx_init` and read by nobody: no step of
  the program depends on it, so no property could.
* `save_set_dstmac`: it has no caller, and combines words bit by bit.
* `com_step_eq`, `com_cq_poll`, the workloads of com_dev.c, `process_packet`,
  `forward_packet`, `change_status`, `copy_sch_data_to_dpa`: no callers.
* The number of threads against the arrays of 190 (host_main.c:27): the models
  take the arrays as large as the number of threads.
* Which of several threads' equal RX rules wins: the driver decides.
* Memory ordering weaker than sequential consistency.
* The parsing of `argv`, and the build scripts.

## 7. Plan

Order of the modules, most important behaviour first; those above are done.

1. `Forwarding`, `PacketFifo`, their runs and proofs: done.
2. `Dispatch`, its runs; `DispatchProofs` with all its safety properties: done.
3. `SendPath`, its runs; `SendPathProofs` with all its safety properties: done.
4. `HostLifecycle` and `HostDevice`, their runs; `HostDeviceProofs` and
   `HostReferenceProofs` with all their safety properties: done.
5. `MacHelpers`: done.
6. The abstract specifications `PacketFifo`, `QueueService` and `ReferenceSystem`,
   each with a refinement checked and proved: done.
7. Left: an abstract specification of the send queue, which `SendPath` implements
   until two posts overlap or the NIC falls a whole ring behind. `AnnouncedIntact`
   and `SkewOnlyInOverlap` say its contents piece by piece.
